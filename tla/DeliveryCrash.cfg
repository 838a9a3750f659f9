CONSTANTS
  Ids = {i1, i2}
  Incarnations = {u1, u2}
  NoInc = NoInc
  NoId = NoId
  MaxFaults = 2
  PowerFails = FALSE
SPECIFICATION FairSpec
INVARIANT TypeOK
INVARIANT RecordedIsReal
INVARIANT RecordedOnce
INVARIANT RecordedNeverReposted
INVARIANT AnchorCoversRecorded
INVARIANT MarkerMatchesLatest
PROPERTY RemovedOnlyWhenDone
PROPERTY Delivered
CHECK_DEADLOCK FALSE
