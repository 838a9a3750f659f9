CONSTANTS
  Ids = {1, 2}
  Clients = {c1, c2}
  Cooldown = 1
  MaxTime = 2
  Faults = 1
  SilentPuts = TRUE
SPECIFICATION LiveSpec
INVARIANT NoMissedWakeup
PROPERTY RetryKeepsItsDeadline
PROPERTY QueuedIsAttempted
CHECK_DEADLOCK FALSE
