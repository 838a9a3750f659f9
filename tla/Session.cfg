CONSTANTS
  Clients = {1, 2}
  MaxAwaiters = 1
  Buffer = 1
  Categories = {"io_error", "queue_full"}
  Mixes <- MCMixes
SPECIFICATION Spec
INVARIANT PermitsBalance
INVARIANT OneTerminalFrame
INVARIANT ReportsAreTrue
INVARIANT LabelsNameTheOutcome
PROPERTY GoneClientIsDropped
PROPERTY SettledWaitEnds
CHECK_DEADLOCK FALSE
