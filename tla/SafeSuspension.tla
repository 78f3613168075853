--------------------------- MODULE SafeSuspension ---------------------------
(***************************************************************************)
(* What the configuration promises an administrator about a global         *)
(* suspension: once it is reported safe, everything that was at work when  *)
(* it was recorded has been stopped, and only then may it be lifted.  The  *)
(* promise has no source of its own; SuspensionController implements it.   *)
(***************************************************************************)
CONSTANT Work   \* the runs and Pods a suspension may have to stop

VARIABLES
    mode,       \* "off"; "asked": switched on or edited; "on": recorded
    outcome,    \* "stopping", "clean" or "errors", for the recorded activation
    safe,       \* resumption is reported safe
    unsettled   \* what the recorded activation has still to stop

vars == <<mode, outcome, safe, unsettled>>

Init ==
    /\ mode = "off" /\ outcome = "stopping" /\ safe = FALSE
    /\ unsettled = {}

\* The switch is turned on, or the suspended configuration is edited: what was
\* reported before says nothing any more.
Ask ==
    /\ mode' = "asked" /\ outcome' = "stopping" /\ safe' = FALSE
    /\ UNCHANGED unsettled

\* The activation is recorded; from here on it owes what is at work.
Record ==
    /\ mode = "asked" /\ mode' = "on"
    /\ unsettled' \in SUBSET Work
    /\ UNCHANGED <<outcome, safe>>

\* Runs accept the stop or disappear, Pods end.
Settle ==
    /\ unsettled' \subseteq unsettled
    /\ UNCHANGED <<mode, outcome, safe>>

\* A pass reports: safe only with nothing left, errors are never taken back.
Report ==
    /\ mode = "on"
    /\ outcome' \in {"stopping", "clean", "errors"}
    /\ outcome = "errors" => outcome' = "errors"
    /\ safe' \in BOOLEAN
    /\ safe' => unsettled = {}
    /\ UNCHANGED <<mode, unsettled>>

\* Resumption, or deletion of the configuration.
Lift ==
    /\ mode = "on" /\ safe /\ outcome # "stopping"
    /\ mode' = "off" /\ outcome' = "stopping" /\ safe' = FALSE
    /\ UNCHANGED unsettled

Next == Ask \/ Record \/ Settle \/ Report \/ Lift

Spec == Init /\ [][Next]_vars
=============================================================================
