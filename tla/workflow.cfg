CONSTANTS
  Shapes = {{"execution", "verification"}, {"verification"}}
  Policy <- MCManualExecution
  Preserve = TRUE
  MaxGeneration = 1
  MaxSuspensions = 0
  MaxFaults = 0
  MaxLag = 1
  Decisions <- MCExecutionDecisions
  Reports = {"ok", "noaction", "agentfailed"}
SPECIFICATION Spec
INVARIANTS TypeOK GateRespected StepsInOrder
PROPERTIES TimeoutWins
\* A finished or a waiting run has nothing left to do.
CHECK_DEADLOCK FALSE
