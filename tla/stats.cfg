SPECIFICATION FairSpec
CONSTANTS
  Workers = {w1, w2}  Ticker = ticker  Closer = closer
  Callers = {c1, c2}
  MaxBuffer = 3  TTL = 1  MinSample = 2
  Batches = {2}  MaxRecords = 4  MaxTime = 2
  Bounds <- FailOrRead
INVARIANTS Inv AnswersRecent
PROPERTIES StopKeeps StoredInTheEnd
CHECK_DEADLOCK FALSE
