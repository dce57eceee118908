SPECIFICATION LFairSpec
CONSTANTS
  WorkChanCap = 1
  Null = Null
  MaxNulls = 1
  Configs <- MCConfigs
  Workers = {w1, w2}
  MaxItems = 2
  MaxJobs = 1
INVARIANTS
  CounterBalanced
  
  StopsWithoutPanic
  
  
  ScheduleInOrder

  
\* the process ends
CHECK_DEADLOCK FALSE
