SPECIFICATION Spec
CONSTANTS
  Peers = {p1}
  Workers = {w1}
  Absent = Absent
  Null = Null
  UpdateFreq = 1
  WorkChanCap = 1
  MaxNulls = 1
  ConnectionRetries = 1
  MaxTime = 4
  MaxCrashes = 0
  Timely = TRUE
INVARIANTS
  OnlyNodesWritten
\* the crawler stops for good once it has been told to
CHECK_DEADLOCK FALSE
