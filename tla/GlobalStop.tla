----------------------------- MODULE GlobalStop -----------------------------
(***************************************************************************)
(* What the global stop promises for one run, as an observer of its status *)
(* sees it: the run works through its phases until a stop is accepted;     *)
(* from then on the phase stands still, until the one outcome is recorded. *)
(* The outcome moves a run that is still active, to EmergencyStopped when  *)
(* the teardown was confirmed and to Failed when it was not; a run that is *)
(* terminal when the stop reaches it keeps its phase.  Nothing follows an  *)
(* outcome.                                                                *)
(*                                                                         *)
(* One write escapes this: a revision that was under way when the stop was *)
(* accepted still takes the run back to its analysis.  None begins later,  *)
(* so there is at most one.                                                *)
(***************************************************************************)
EXTENDS RunConditions

VARIABLES
    stage,    \* "running", "accepted", "stopped", "failed"
    phase,    \* the phase a client reads
    revising  \* a revision is under way that no longer looks for a stop

vars == <<stage, phase, revising>>

Init == stage = "running" /\ phase = "Pending" /\ revising = FALSE

\* The workflow moves on, only while no stop is accepted.
Work ==
    /\ stage = "running" /\ UNCHANGED stage
    /\ phase' \in Phases \ {"EmergencyStopped"}
    /\ revising' \in BOOLEAN

\* The revision writes, whatever became of the run, or is given up.
Reopen ==
    /\ revising /\ revising' = FALSE
    /\ phase' \in {phase, "Analyzing"}
    /\ phase = "EmergencyStopped" => UNCHANGED phase
    /\ UNCHANGED stage

Accept ==
    /\ stage = "running" /\ stage' = "accepted"
    /\ UNCHANGED <<phase, revising>>

Confirm ==
    /\ stage = "accepted" /\ stage' = "stopped"
    /\ phase' = IF isTerminal(phase) THEN phase ELSE "EmergencyStopped"
    /\ UNCHANGED revising

GiveUp ==
    /\ stage = "accepted" /\ stage' = "failed"
    /\ phase' = IF isTerminal(phase) THEN phase ELSE "Failed"
    /\ UNCHANGED revising

Next == Work \/ Reopen \/ Accept \/ Confirm \/ GiveUp

Spec == Init /\ [][Next]_vars
=============================================================================
