SPECIFICATION FairAwaitSpec
CONSTANTS
  Ids = {i1}
  Incarnations = {u1, u2}
  Waiters = {w1}
  NoInc = NoInc
  NoId = NoId
  MaxFaults = 1
  PowerFails = FALSE
INVARIANTS
  PostedIsSelected
  RemovedIsAccounted
PROPERTIES
  PostedIsLatest
  UnknownIsUnposted
  WaitEnds
CHECK_DEADLOCK FALSE
