SPECIFICATION Spec
CONSTANTS
  BufSize = 3
  StreamLen = 9
  DataWithError = FALSE
  MaxChunks = 2
  MaxChunkSize = 4
  MaxErrSize = 2
  MaxRead = 5
INVARIANTS
  AllAccounted
  PullBounded
\* the response is over at some point
CHECK_DEADLOCK FALSE
