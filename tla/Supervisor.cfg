CONSTANTS
  MinDelay = 1
  Cap = 3
  Stable = 2
  MaxCount = 3
SPECIFICATION LiveSupervisorSpec
INVARIANT OneInstance
PROPERTY RestartsSlowDown
PROPERTY ShutdownExits
PROPERTY FailedIsRestarted
CHECK_DEADLOCK FALSE
