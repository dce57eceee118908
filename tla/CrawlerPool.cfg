SPECIFICATION Spec
CONSTANTS
  Peers = {p1, p2}
  Workers = {w1, w2}
  Absent = Absent
  Null = Null
  UpdateFreq = 1
  WorkChanCap = 2
  MaxNulls = 1
  ConnectionRetries = 2
  MaxTime = 4
  MaxCrashes = 0
  Timely = TRUE
SYMMETRY Symmetry
INVARIANTS
  SingleFlight
  RoundOwnsPeer
  NoSendOnClosed
  ScoreMatchesMisses
  
\* the crawler stops for good once it has been told to
CHECK_DEADLOCK FALSE
