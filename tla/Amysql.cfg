CONSTANTS
  Queries = {q1, q2, q3}
  NoQuery = NoQuery
  SyncWhenBusy = FALSE
  BufSize = 6
  VSize = 4
  MaxFields = 5
  MaxLength = 5
SPECIFICATION MCSpec
INVARIANT OwnResult
INVARIANT LastByteKept
INVARIANT SavedRight
PROPERTY OneCallbackEach
PROPERTY Answered
PROPERTY Ends
CHECK_DEADLOCK FALSE
