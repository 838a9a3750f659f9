CONSTANTS
  Ids = {i1}
  Incarnations = {u1}
  NoInc = NoInc
  NoId = NoId
  MaxFaults = 1
  PowerFails = TRUE
SPECIFICATION Spec
INVARIANT PostReflected
CHECK_DEADLOCK FALSE
