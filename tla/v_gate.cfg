CONSTANTS
  Shapes = {{}}
  Policy <- MCManual
  Preserve = FALSE
  MaxGeneration = 2
  MaxSuspensions = 0
  MaxFaults = 1
  MaxLag = 1
  Decisions <- MCNone
  Reports = {"ok", "noaction", "agentfailed"}
SPECIFICATION Spec
INVARIANTS AnalysisGateRespected
\* A finished or a waiting run has nothing left to do.
CHECK_DEADLOCK FALSE
