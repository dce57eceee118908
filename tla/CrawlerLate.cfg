SPECIFICATION Spec
CONSTANTS
  Peers = {p1}
  Workers = {w1, w2}
  Absent = Absent
  Null = Null
  UpdateFreq = 1
  WorkChanCap = 2
  MaxNulls = 1
  ConnectionRetries = 2
  MaxTime = 5
  MaxCrashes = 1
  Timely = FALSE
INVARIANTS
  TypeOK
  UniqueUuids
  ConnectableHasAgent
  ViewStillHolds
\* the crawler stops for good once it has been told to
CHECK_DEADLOCK FALSE
