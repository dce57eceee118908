SPECIFICATION LSpec
CONSTANTS
  WorkChanCap = 1
  Null = Null
  MaxNulls = 1
  Configs <- MCLocal
  Workers = {w1}
  MaxItems = 1
  MaxJobs = 1
INVARIANTS
  OnlySupportedPopulated
CHECK_DEADLOCK FALSE
