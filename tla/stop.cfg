CONSTANTS
  Shapes = {{}}
  Policy <- MCManual
  Preserve = FALSE
  MaxGeneration = 2
  MaxSuspensions = 1
  MaxFaults = 1
  MaxLag = 1
  Decisions <- MCNone
  Reports = {"ok"}
SPECIFICATION StopFairSpec
PROPERTIES StopIsFinal ImplementsGlobalStop StopReachesOutcome StopCleansUp
\* A finished or a waiting run has nothing left to do.
CHECK_DEADLOCK FALSE
