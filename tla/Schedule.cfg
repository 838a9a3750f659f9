CONSTANTS
  Ids = {1, 2, 3}
  Requests = {"r1"}
  Hash <- MCHash
  Salts = {0}
  Cooldown = 1
  PutOptions <- MCPutOptions
  MaxOrder = 1
  MaxTime = 2
SPECIFICATION Spec
INVARIANT ScheduleTypeOK
PROPERTY Paced
PROPERTY EtaOnlySlips
PROPERTY PutKeepsPromises
PROPERTY MovesOne
CHECK_DEADLOCK FALSE
