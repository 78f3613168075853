CONSTANTS
  Shapes = {{}, {"execution"}}
  Policy <- MCAuto
  Preserve = TRUE
  MaxGeneration = 2
  MaxSuspensions = 0
  MaxFaults = 0
  MaxLag = 1
  Decisions <- MCNone
  Reports = {"ok", "noaction", "agentfailed"}
SPECIFICATION Spec
INVARIANTS SuccessLinkedOnce
PROPERTIES NoReexecution
\* A finished or a waiting run has nothing left to do.
CHECK_DEADLOCK FALSE
