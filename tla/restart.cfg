CONSTANTS
  Shapes = {{"execution"}}
  Policy <- MCAuto
  Preserve = FALSE
  MaxGeneration = 1
  MaxSuspensions = 0
  MaxFaults = 1
  MaxLag = 1
  Decisions <- MCNone
  Reports = {"ok", "noaction", "agentfailed"}
SPECIFICATION StepFairSpec
INVARIANTS StepsInOrder
PROPERTIES PodSettlesStep NoReexecution
\* A finished or a waiting run has nothing left to do.
CHECK_DEADLOCK FALSE
