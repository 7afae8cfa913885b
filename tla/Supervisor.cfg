SPECIFICATION SupervisorFairSpec
CONSTANTS
  Restart = TRUE
  MaxRestarts = 2
  HealthFailures = 2
  HealthEnabled = TRUE
  Hangs = TRUE
  MaxSends = 2
  MaxFaults = 3
INVARIANTS SupervisorTypeOK NoProcessLeaked RestartBudget
PROPERTIES OnlyCommandsRevive DroppedSupervisorEnds CommandsTaken StateFollowsProcess
CHECK_DEADLOCK FALSE
