SPECIFICATION FairSpec
CONSTANTS
  Peers = {p1, p2}
  Workers = {w1}
  Absent = Absent
  Null = Null
  UpdateFreq = 2
  WorkChanCap = 1
  MaxNulls = 1
  ConnectionRetries = 1
  MaxTime = 5
  MaxCrashes = 0
  Timely = TRUE
PROPERTIES
  ChannelEventuallyClosed
\* the crawler stops for good once it has been told to
CHECK_DEADLOCK FALSE
