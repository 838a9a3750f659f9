CONSTANTS
  Ids = {i1, i2}
  Incarnations = {u1, u2, u3}
  NoInc = NoInc
  NoId = NoId
  MaxFaults = 2
  PowerFails = TRUE
SPECIFICATION Spec
SYMMETRY Symmetry
INVARIANT NothingLost
INVARIANT ReadyToClaim
PROPERTY ImplementsOutbox
CHECK_DEADLOCK FALSE
