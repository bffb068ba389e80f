SPECIFICATION FairSpec
CONSTANTS
  MaxPosts = 2
  MaxOps = 2
  MaxArrived = 1
  MaxTaken = 2
INVARIANTS
  SchedulerSound
  NoLostWakeup
PROPERTIES
  PostedRuns
  IoCompletes
  StopReturns
CHECK_DEADLOCK FALSE
