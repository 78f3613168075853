--------------------------- MODULE MCRunWorkflow ---------------------------
(* Finite instances of RunWorkflow.  The bounds are explained in README.md. *)
EXTENDS RunWorkflow

\* ApprovalPolicy objects.
MCAuto == [s \in Steps |-> "Automatic"]
MCManual == [s \in Steps |-> "Manual"]
MCManualExecution ==
    [s \in Steps |-> CASE s = "execution" -> "Manual"
                       [] s = "escalation" -> "Unset"
                       [] OTHER -> "Automatic"]

\* What the user may decide.
MCNone == {}
MCExecutionDecisions == {"execution"} \X {"approved", "denied"}
=============================================================================
