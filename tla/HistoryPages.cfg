CONSTANTS
  Sizes = {1, 2, 6}
  PageSize = 2
  MaxResponse = 8
  Envelope = 2
  CursorBytes = 2
  Limits = {0, 1, 3}
  MaxLines = 4
SPECIFICATION HistorySpec
INVARIANT ShowsTheSnapshot
INVARIANT CursorsAreHonoured
PROPERTY HistEnds
CHECK_DEADLOCK FALSE
