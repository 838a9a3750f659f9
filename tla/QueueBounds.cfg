CONSTANTS
  Ids = {i1, i2, i3}
  Bases = {100, 128}
  OrderWidths = {1, 20}
  LegacyGaps = {0, 19}
  MaxEntryBytes = 242
  MaxQueueBytes = 503
  MaxQueueEntries = 2
  Headroom = 80
SPECIFICATION Spec
PROPERTY NoEntryBlocksTheScan
PROPERTY MutationsFit
PROPERTY NeverRefusedAgain
CHECK_DEADLOCK FALSE
