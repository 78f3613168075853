--------------------------- MODULE RunConditions ---------------------------
(***************************************************************************)
(* The status conditions of an AgenticRun and everything the controller    *)
(* derives from them: the display phase, whether the run is terminal, and  *)
(* whether a global stop has been accepted or has reached its outcome.     *)
(*                                                                         *)
(* A run's conditions are a function from condition type to a record with  *)
(* the status ("Absent" when the list has no entry of the type) and the    *)
(* reason.  Messages and transition times are left out.                    *)
(***************************************************************************)

Steps == {"analysis", "execution", "verification", "escalation"}

WorkflowConditions == {"Analyzed", "Executed", "Verified", "Escalated"}

ConditionTypes ==
    WorkflowConditions \cup {"Denied", "Stopping", "EmergencyStopped"}

Phases == {"Pending", "Analyzing", "Proposed", "Executing", "Verifying",
           "Escalating", "Completed", "Failed", "Denied", "Escalated",
           "EmergencyStopped"}

Statuses == {"Absent", "True", "False", "Unknown"}

\* SandboxTimeout also stands for SandboxStartupTimeout, and SandboxFailed for
\* AgentTimeout and ToolResultSafetyInspectionFailed: no code tells them apart.
Reasons == {"", "InProgress", "Revising", "WaitingForSandbox", "Running",
            "Succeeded", "NoActionRequired", "Skipped", "Failed",
            "WorkflowFailed", "SandboxFailed", "SandboxTimeout",
            "VerificationFailed", "UserDenied", "SystemSuspended",
            "TeardownComplete", "TeardownFailed", "EmergencyStopFailed"}

Condition == [st : Statuses, rs : Reasons]

Cond(st, rs) == [st |-> st, rs |-> rs]

Absent == Cond("Absent", "")

NoConditions == [t \in ConditionTypes |-> Absent]

stepConditionType(step) ==
    CASE step = "analysis"     -> "Analyzed"
      [] step = "execution"    -> "Executed"
      [] step = "verification" -> "Verified"
      [] step = "escalation"   -> "Escalated"

----------------------------------------------------------------------------
(* The phase is derived, never stored: the first rule that matches wins.    *)

AnalyzedPhase(c) ==
    CASE c["Analyzed"].st = "True" ->
            IF c["Analyzed"].rs = "NoActionRequired"
            THEN "Completed" ELSE "Proposed"
      [] c["Analyzed"].st = "Unknown" -> "Analyzing"
      [] c["Analyzed"].st = "False"   -> "Failed"
      [] c["Analyzed"].st = "Absent"  -> "Pending"

ExecutedPhase(c) ==
    CASE c["Executed"].st = "True"    -> "Verifying"
      [] c["Executed"].st = "Unknown" -> "Executing"
      [] c["Executed"].st = "False"   -> "Failed"
      [] c["Executed"].st = "Absent"  -> AnalyzedPhase(c)

VerifiedPhase(c) ==
    CASE c["Verified"].st = "True"    -> "Completed"
      [] c["Verified"].st = "Unknown" -> "Verifying"
      [] c["Verified"].st = "False"   -> "Failed"
      [] c["Verified"].st = "Absent"  -> ExecutedPhase(c)

DerivePhase(c) ==
    IF c["EmergencyStopped"].st = "True" THEN "EmergencyStopped"
    ELSE IF c["Escalated"].st = "True" THEN "Escalated"
    ELSE IF c["Denied"].st = "True" THEN "Denied"
    ELSE IF c["Escalated"].st = "Unknown" THEN "Escalating"
    ELSE IF c["Escalated"].st = "False" THEN "Failed"
    ELSE VerifiedPhase(c)

TerminalPhases ==
    {"Completed", "Failed", "Denied", "Escalated", "EmergencyStopped"}

isTerminal(phase) == phase \in TerminalPhases

----------------------------------------------------------------------------
(* Global stop: durable acceptance and durable outcome.                     *)

HasFinalStopOutcome(c) ==
    \/ /\ c["Stopping"].st = "False"
       /\ c["Stopping"].rs \in {"TeardownComplete", "TeardownFailed"}
    \/ c["EmergencyStopped"].st = "True"
    \/ \E t \in ConditionTypes :
          c[t].st = "False" /\ c[t].rs = "EmergencyStopFailed"

StopIntent(c) == c["Stopping"] = Cond("True", "SystemSuspended")

HasAcceptedStop(c) == StopIntent(c) \/ HasFinalStopOutcome(c)

\* The condition a failed teardown marks; a terminal phase marks none.
suspensionFailureCondition(phase) ==
    CASE phase \in {"Pending", "Analyzing"}   -> {"Analyzed"}
      [] phase \in {"Proposed", "Executing"}  -> {"Executed"}
      [] phase = "Verifying"                  -> {"Verified"}
      [] phase = "Escalating"                 -> {"Escalated"}
      [] isTerminal(phase)                    -> {}

\* The conditions once the outcome of an accepted stop is written.  A run that
\* was already terminal when it was marked keeps its workflow conditions.
StopOutcome(c, confirmed) ==
    LET phase  == DerivePhase(c)
        marked == [c EXCEPT !["Stopping"] =
                     Cond("False", IF confirmed THEN "TeardownComplete"
                                                ELSE "TeardownFailed")]
    IN  IF isTerminal(phase) THEN marked
        ELSE IF confirmed
        THEN [marked EXCEPT !["EmergencyStopped"] =
                               Cond("True", "SystemSuspended")]
        ELSE [t \in ConditionTypes |->
                IF t \in suspensionFailureCondition(phase)
                THEN Cond("False", "EmergencyStopFailed") ELSE marked[t]]

----------------------------------------------------------------------------
isNoActionRequired(c) == c["Analyzed"] = Cond("True", "NoActionRequired")

isStepInProgress(c, step) == c[stepConditionType(step)].st = "Unknown"
=============================================================================
