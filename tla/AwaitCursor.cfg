SPECIFICATION AwaitSpec
CONSTANTS
  Ids = {i1}
  Incarnations = {u1}
  Waiters = {w1}
  NoInc = NoInc
  NoId = NoId
  MaxFaults = 1
  PowerFails = FALSE
INVARIANT
  RemovedIsDeleted
CHECK_DEADLOCK FALSE
