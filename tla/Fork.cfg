SPECIFICATION FairSpec
CONSTANTS
  GenesisTime = 1
  SecondsPerSlot = 2
  SlotsPerEpoch = 1
  Forks <- ForkSchedule
  NoDigest = "none"
  Shifts <- MCShifts
  MaxTime = 8
  MaxSets = 1
INVARIANTS
  DigestScheduled
  SleepWithinSlot
PROPERTIES
  EpochsAscend
  EpochFollowed
  MonitorEnds
\* the goroutines end when the context is done
CHECK_DEADLOCK FALSE
