------------------------ MODULE SuspensionController ------------------------
(***************************************************************************)
(* The AgenticOLSConfig controller: it records a suspension, marks every   *)
(* run, removes the workload and reports when it is safe to resume.  The   *)
(* runs, their Pods, the administrator and the admission policies are      *)
(* modelled as far as they meet the controller; what a run does with its   *)
(* mark is RunWorkflow's, what a clean-up pass does SuspensionCleanup's.   *)
(*                                                                         *)
(* One goroutine reconciles, so there is one pass at a time; everything    *)
(* else goes on between its API calls.  A read followed by a patch with an *)
(* optimistic lock is one action where nothing else is read in between.    *)
(***************************************************************************)
EXTENDS Naturals, FiniteSets

CONSTANTS
    Runs,        \* runs, by UID
    Remote,      \* the runs with a target cluster
    Workers,     \* MaxConcurrentReconciles of the run controller
    MaxChanges,  \* bound on changes of the configuration and deletions of runs
    MaxUpsets    \* bound on failed API calls, crashes and revisions

ASSUME ControllerAssumption ==
    /\ Remote \subseteq Runs
    /\ Workers \in Nat /\ MaxChanges \in Nat /\ MaxUpsets \in Nat

VARIABLES
    config,    \* the AgenticOLSConfig object with its two conditions
    late,      \* ten seconds have passed since the present activation was recorded
    run,       \* the AgenticRun objects
    launching, \* runs whose worker has passed its last check before the Pod
    pods,      \* runs with an active Pod
    pass,      \* the reconcile pass under way
    owed,      \* observation: what the recorded activation has still to stop
    unseen,    \* observation: remote runs revised since the activation was recorded and,
               \* if a pass has reported, since the last one that did began
    changes,   \* changes and deletions still allowed
    upsets     \* failures and revisions still allowed

vars == <<config, late, run, launching, pods, pass, owed, unseen, changes, upsets>>

----------------------------------------------------------------------------
Reasons == {"none", "Stopping", "AdminActivated", "AdminActivatedWithErrors",
            "AdminDeactivated"}

\* suspended and safe are the conditions, with their observedGeneration.
Config == [exists : BOOLEAN, uid : Nat, gen : Nat, on : BOOLEAN,
           suspended : [rs : Reasons, gen : Nat],
           safe : [ok : BOOLEAN, gen : Nat]]

NewConfig(uid, on) ==
    [exists |-> TRUE, uid |-> uid, gen |-> 1, on |-> on,
     suspended |-> [rs |-> "none", gen |-> 0], safe |-> [ok |-> FALSE, gen |-> 0]]

\* stamp is status.terminalTime, before or not before the activation's start;
\* used (kept for remote runs only): a sandbox reference, an RBAC annotation or an
\* Unknown condition.
Run == [life : {"none", "active", "done", "gone"},
        stop : {"no", "accepted", "final"},
        stamp : {"none", "before", "since"}, used : BOOLEAN]

NoRun == [life |-> "none", stop |-> "no", stamp |-> "none", used |-> FALSE]

Problems == {"inventory", "unsaved", "outcome", "remote", "cleanup"}

\* act is the activation of the pass, todo the listed runs it has to mark,
\* active those listed as not terminal, target the run about to be patched, seen
\* as it was read, found what stands against a clean outcome; revised (observation):
\* the remote runs revised since the pass began.
Pass == [pc : {"idle", "list", "check", "mark", "patch", "clean", "confirm", "report"},
         act : [uid : Nat, gen : Nat], todo : SUBSET Runs, active : SUBSET Runs,
         target : SUBSET Runs, seen : Run, found : SUBSET Problems,
         revised : SUBSET Runs]

PassIdle == [pc |-> "idle", act |-> [uid |-> 0, gen |-> 0], todo |-> {},
             active |-> {}, target |-> {}, seen |-> NoRun, found |-> {},
             revised |-> {}]

Exists(r) == run[r].life \in {"active", "done"}

HasAcceptedStop(r) == run[r].stop # "no"

isTerminal(r) == run[r].life = "done" \/ run[r].stop = "final"

\* The runs and Pods a suspension recorded now would have to stop.
AtWork ==
    ({"run"} \X {r \in Runs : run[r].life = "active" /\ ~HasAcceptedStop(r)})
    \cup ({"pod"} \X pods)

\* The object, its conditions and the notes of a pass keep their shape; a pass always
\* knows the UID and the generation of its activation.
TypeOK ==
    /\ config \in Config /\ late \in BOOLEAN
    /\ run \in [Runs -> Run]
    /\ launching \subseteq Runs /\ pods \subseteq Runs
    /\ pass \in Pass
    /\ owed \subseteq {"run", "pod"} \X Runs
    /\ unseen \subseteq Runs
    /\ changes \in Nat /\ upsets \in Nat

Init ==
    /\ config = [NewConfig(0, FALSE) EXCEPT !.exists = FALSE]
    /\ late = FALSE
    /\ run = [r \in Runs |-> NoRun]
    /\ launching = {} /\ pods = {}
    /\ pass = PassIdle
    /\ owed = {} /\ unseen = {}
    /\ changes = MaxChanges /\ upsets = MaxUpsets

Upset == upsets > 0 /\ upsets' = upsets - 1

----------------------------------------------------------------------------
(* The configuration, as the controllers and the API server read it.        *)

\* Suspended=True for the present generation.
CurrentActivation ==
    /\ config.exists /\ config.on
    /\ config.suspended.rs \in {"Stopping", "AdminActivated", "AdminActivatedWithErrors"}
    /\ config.suspended.gen = config.gen

\* The start is fixed when the condition is written for a generation, so the
\* UID and the generation identify the activation.
SuspensionActivationMatches(act) ==
    /\ CurrentActivation
    /\ config.uid = act.uid /\ config.gen = act.gen

SuspensionOn == config.exists /\ config.on

\* The admission policy on the configuration.
ResumptionAdmitted ==
    /\ config.suspended.rs \in {"AdminActivated", "AdminActivatedWithErrors"}
    /\ config.suspended.gen = config.gen
    /\ config.safe = [ok |-> TRUE, gen |-> config.gen]

----------------------------------------------------------------------------
(* One reconcile pass.                                                      *)

StartPassWithoutUID(act) ==
    pass' = [PassIdle EXCEPT !.pc = "list", !.act = [gen |-> act.gen]]

StartPass(act) == pass' = [PassIdle EXCEPT !.pc = "list", !.act = act]

Goto(pc, problems) ==
    pass' = [pass EXCEPT !.pc = pc, !.todo = {}, !.active = {},
                         !.found = @ \cup problems]

PassFrame == UNCHANGED <<late, run, launching, pods, unseen, changes>>

\* Suspended=True and SafeToResume=False are written for a generation that has
\* no activation yet; the start decides which stamps lie before it (a stamp of
\* the same second does not).
RecordActivation ==
    /\ pass.pc = "idle" /\ SuspensionOn /\ ~CurrentActivation
    /\ config' = [config EXCEPT
          !.suspended = [rs |-> "Stopping", gen |-> config.gen],
          !.safe = [ok |-> FALSE, gen |-> config.gen]]
    /\ late' = FALSE
    /\ \E sameSecond \in BOOLEAN :
          run' = [r \in Runs |->
                    IF run[r].stamp = "since" /\ ~sameSecond
                    THEN [run[r] EXCEPT !.stamp = "before"] ELSE run[r]]
    /\ owed' = AtWork /\ unseen' = {}
    /\ StartPass([uid |-> config.uid, gen |-> config.gen])
    /\ UNCHANGED <<launching, pods, changes, upsets>>

ensureActivationStatusOnce ==
    /\ pass.pc = "idle" /\ CurrentActivation
    /\ config.safe.gen # config.gen
    /\ StartPass([uid |-> config.uid, gen |-> config.gen])
    /\ PassFrame /\ UNCHANGED <<config, upsets>>

\* The activation is recorded already: another pass.
ensureActivationStatus ==
    /\ pass.pc = "idle" /\ CurrentActivation
    /\ config' = IF config.safe.gen = config.gen THEN config
                 ELSE [config EXCEPT !.safe = [ok |-> FALSE, gen |-> config.gen]]
    /\ StartPass([uid |-> config.uid, gen |-> config.gen])
    /\ PassFrame /\ UNCHANGED upsets

\* SafeToResume is left as it is.
handleDeactivation ==
    /\ pass.pc = "idle" /\ config.exists /\ ~config.on
    /\ config.suspended.rs # "none"
    /\ config.suspended # [rs |-> "AdminDeactivated", gen |-> config.gen]
    /\ config' = [config EXCEPT
          !.suspended = [rs |-> "AdminDeactivated", gen |-> config.gen]]
    /\ UNCHANGED pass /\ PassFrame /\ UNCHANGED upsets

\* A terminal run whose end does not lie before the start of the activation.
terminalRunMayBeAffected(r) == run[r].stamp # "before"

\* Evidence a remote cluster may still be worked on; nothing clears it.
RemoteExecutionEvidence(r) == run[r].used

\* What the pass notes about the runs of S.
knownRemoteEvidence(S) ==
    IF \E r \in S : RemoteExecutionEvidence(r) THEN {"remote"} ELSE {}

\* Runs that ended before the activation are not looked at.
ListRunsAffected ==
    /\ pass.pc = "list"
    /\ LET todo == {r \in Runs : Exists(r) /\ (~isTerminal(r) \/ terminalRunMayBeAffected(r))}
       IN  pass' = [pass EXCEPT !.pc = "check", !.todo = todo,
                       !.active = {r \in todo : ~isTerminal(r)}]
    /\ UNCHANGED <<config, upsets>> /\ PassFrame

ListRuns ==
    /\ pass.pc = "list"
    /\ LET listed == {r \in Runs : Exists(r)}
           todo == {r \in listed : ~isTerminal(r) \/ terminalRunMayBeAffected(r)}
       IN  \/ /\ pass' = [pass EXCEPT !.pc = "check", !.todo = todo,
                    !.active = {r \in listed : ~isTerminal(r)},
                    !.found = knownRemoteEvidence(listed \ todo)]
              /\ UNCHANGED upsets
           \/ Goto("clean", {"inventory"}) /\ Upset
    /\ UNCHANGED config /\ PassFrame

\* RequireCurrentActivation after the list.
CheckActivation ==
    /\ pass.pc = "check"
    /\ \/ /\ SuspensionActivationMatches(pass.act)
          /\ pass' = [pass EXCEPT !.pc = "mark"] /\ UNCHANGED upsets
       \/ /\ ~SuspensionActivationMatches(pass.act)
          /\ pass' = PassIdle /\ UNCHANGED upsets
       \/ Goto("clean", {"inventory"}) /\ Upset
    /\ UNCHANGED config /\ PassFrame

\* What the loop over the runs notes of run r once its marker is saved.
NoteRun(r) ==
    knownRemoteEvidence({r}) \cup
    (IF r \in pass.active /\ ~isTerminal(r) THEN {"outcome"} ELSE {})

Marked(r) ==
    pass' = [pass EXCEPT !.pc = "mark", !.todo = @ \ {r}, !.target = {},
                         !.seen = NoRun, !.found = @ \cup NoteRun(r)]

ReadRunForgetsFailure(r) ==
    /\ pass.pc = "mark" /\ r \in pass.todo
    /\ \/ ~Exists(r) /\ pass' = [pass EXCEPT !.todo = @ \ {r}] /\ UNCHANGED upsets
       \/ Exists(r) /\ HasAcceptedStop(r) /\ Marked(r) /\ UNCHANGED upsets
       \/ /\ Exists(r) /\ ~HasAcceptedStop(r)
          /\ pass' = IF SuspensionActivationMatches(pass.act)
                     THEN [pass EXCEPT !.pc = "patch", !.target = {r},
                                       !.seen = run[r]]
                     ELSE PassIdle
          /\ UNCHANGED upsets
       \/ Upset /\ pass' = [pass EXCEPT !.todo = @ \ {r}]
    /\ UNCHANGED config /\ PassFrame

\* persistRunStop up to its patch: the run is read, and unless it is gone or has
\* accepted, the activation is checked once more.
ReadRun(r) ==
    /\ pass.pc = "mark" /\ r \in pass.todo
    /\ \/ ~Exists(r) /\ pass' = [pass EXCEPT !.todo = @ \ {r}] /\ UNCHANGED upsets
       \/ Exists(r) /\ HasAcceptedStop(r) /\ Marked(r) /\ UNCHANGED upsets
       \/ /\ Exists(r) /\ ~HasAcceptedStop(r)
          /\ pass' = IF SuspensionActivationMatches(pass.act)
                     THEN [pass EXCEPT !.pc = "patch", !.target = {r},
                                       !.seen = run[r]]
                     ELSE PassIdle
          /\ UNCHANGED upsets
       \/ Upset /\ pass' = [pass EXCEPT !.todo = @ \ {r},
                    !.found = @ \cup {"unsaved"} \cup knownRemoteEvidence({r})]
    /\ UNCHANGED config /\ PassFrame

\* The patch of persistRunStop.  A run that has changed since it was read is read
\* again, or given up after three attempts (the Upset of ReadRun).
PatchRun(r) ==
    /\ pass.pc = "patch" /\ r \in pass.target
    /\ \/ /\ run[r] = pass.seen
          /\ run' = [run EXCEPT ![r].stop = "accepted"]
          /\ Marked(r)
       \/ /\ run[r] # pass.seen
          /\ pass' = [pass EXCEPT !.pc = "mark", !.target = {}, !.seen = NoRun]
          /\ UNCHANGED run
    /\ UNCHANGED <<config, late, launching, pods, unseen, changes, upsets>>

MarkedAll == pass.pc = "mark" /\ pass.todo = {}

\* CleanupSuspension: the activation is checked before the first mutation, then
\* every active Pod is deleted.
CleanupSuspension ==
    /\ MarkedAll \/ pass.pc = "clean"
    /\ \/ /\ ~SuspensionActivationMatches(pass.act)
          /\ pass' = PassIdle /\ UNCHANGED <<pods, upsets>>
       \/ /\ SuspensionActivationMatches(pass.act)
          /\ \/ pods' = {} /\ Goto("confirm", {}) /\ UNCHANGED upsets
             \/ pods' \in SUBSET pods /\ Goto("report", {"cleanup"}) /\ Upset
    /\ UNCHANGED <<config, late, run, launching, unseen, changes>>

\* The authoritative list at the end of the pass.
confirmSuspensionInventory ==
    /\ pass.pc = "confirm"
    /\ IF pods = {} THEN Goto("report", {}) ELSE Goto("report", {"cleanup"})
    /\ UNCHANGED config /\ PassFrame /\ UNCHANGED upsets

\* An outcome a run still owes does not stand against the resumption.
safeToResume == pass.found \ {"outcome"} = {}

outcomeForEvidence ==
    IF \/ config.suspended.rs = "AdminActivatedWithErrors"
       \/ pass.found # {} /\ late
    THEN "AdminActivatedWithErrors"
    ELSE IF pass.found # {} THEN "Stopping" ELSE "AdminActivated"

patchActivationOutcome ==
    /\ pass.pc = "report"
    /\ pass' = PassIdle
    /\ \/ /\ SuspensionActivationMatches(pass.act)
          /\ config' = [config EXCEPT
                !.suspended = [rs |-> outcomeForEvidence, gen |-> pass.act.gen],
                !.safe = [ok |-> safeToResume, gen |-> pass.act.gen]]
          /\ unseen' = pass.revised
          /\ UNCHANGED upsets
       \/ /\ ~SuspensionActivationMatches(pass.act)
          /\ UNCHANGED <<config, unseen, upsets>>
       \/ Upset /\ UNCHANGED <<config, unseen>>
    /\ UNCHANGED <<late, run, launching, pods, changes>>

----------------------------------------------------------------------------
(* The administrator.                                                       *)

Change ==
    /\ changes > 0 /\ changes' = changes - 1
    /\ late' = FALSE
    /\ UNCHANGED <<run, launching, pods, pass, unseen, upsets>>

\* "oc agentic suspend", or an edit of the same kind: the object is created or
\* its switch turned on.
Suspend ==
    /\ Change /\ ~SuspensionOn
    /\ config' = IF config.exists
                 THEN [config EXCEPT !.on = TRUE, !.gen = @ + 1]
                 ELSE NewConfig(config.uid + 1, TRUE)

\* Any other edit of the spec is a new generation, and so a new activation.
EditConfig ==
    /\ Change /\ SuspensionOn
    /\ config' = [config EXCEPT !.gen = @ + 1]

\* "oc agentic resume"; admission decides.
Resume ==
    /\ Change /\ SuspensionOn /\ ResumptionAdmitted
    /\ config' = [config EXCEPT !.on = FALSE, !.gen = @ + 1]

DeleteConfig ==
    /\ Change /\ config.exists
    /\ config.on => ResumptionAdmitted
    /\ config' = [NewConfig(config.uid, FALSE) EXCEPT !.exists = FALSE]

----------------------------------------------------------------------------
(* The runs: what RunWorkflow does to them, as the controller can see it.   *)

RunFrame == UNCHANGED <<config, late, pass, unseen, changes, upsets>>

SetRun(r, v) == run' = [run EXCEPT ![r] = v]

\* Admission refuses a run while the system is suspended.
CreateRun(r) ==
    /\ RunFrame /\ run[r].life = "none" /\ ~SuspensionOn
    /\ SetRun(r, [NoRun EXCEPT !.life = "active"])
    /\ UNCHANGED <<launching, pods>>

\* A step begins with its condition set to Unknown, which is evidence of remote work;
\* the check of the suspension precedes the patch, which the lock of the run alone
\* guards.
StartStep(r) ==
    /\ RunFrame /\ run[r].life = "active" /\ ~HasAcceptedStop(r)
    /\ SetRun(r, [run[r] EXCEPT !.used = r \in Remote])
    /\ UNCHANGED <<launching, pods>>

\* readRunnableRun has let a launch through; the Pod follows in a later call.
Launch(r) ==
    /\ RunFrame /\ run[r].life = "active" /\ ~HasAcceptedStop(r) /\ ~SuspensionOn
    /\ r \notin launching \cup pods /\ Cardinality(launching) < Workers
    /\ SetRun(r, [run[r] EXCEPT !.used = r \in Remote])
    /\ launching' = launching \cup {r}
    /\ UNCHANGED <<pods>>

\* The call arrives, however late.
PodCreated(r) ==
    /\ RunFrame /\ r \in launching
    /\ launching' = launching \ {r} /\ pods' = pods \cup {r}
    /\ UNCHANGED <<run>>

\* A Pod ends or is removed by its run.
PodEnds(r) ==
    /\ RunFrame /\ r \in pods
    /\ pods' = pods \ {r}
    /\ UNCHANGED <<run, launching>>

\* A workflow write: its check of the suspension precedes the patch, which the
\* lock of the run alone guards.
EndRun(r) ==
    /\ RunFrame /\ run[r].life = "active" /\ ~HasAcceptedStop(r)
    /\ SetRun(r, [run[r] EXCEPT !.life = "done"])
    /\ UNCHANGED <<launching, pods>>

\* handleTerminalRecord writes terminalTime in a patch of its own (nobody looks at
\* the stamp of a run that has accepted a stop).
StampRun(r) ==
    /\ RunFrame /\ run[r].life = "done" /\ run[r].stamp = "none"
    /\ ~HasAcceptedStop(r)
    /\ SetRun(r, [run[r] EXCEPT !.stamp = "since"])
    /\ UNCHANGED <<launching, pods>>

\* handleRevision, on a check of the suspension that may be stale as well.  Its
\* Unknown condition is evidence of remote work.  The lock does not hold back the
\* revision of a labelled run (one whose end has been stamped): its label is removed
\* first, without a lock, and that patch reads the run again, with a stop it may have
\* accepted meanwhile.
ReopenRun(r) ==
    /\ Upset /\ run[r].life = "done"
    /\ HasAcceptedStop(r) => run[r].stamp # "none"
    /\ SetRun(r, [run[r] EXCEPT !.life = "active", !.stamp = "none", !.used = r \in Remote])
    /\ LET revision == {r} \cap Remote
       IN  /\ pass' = [pass EXCEPT !.revised = @ \cup revision]
           /\ unseen' = unseen \cup revision
    /\ UNCHANGED <<config, late, launching, pods, changes>>

\* The run controller accepts the stop by itself, inside the window.
AcceptStop(r) ==
    /\ RunFrame /\ Exists(r) /\ ~isTerminal(r) /\ ~HasAcceptedStop(r)
    /\ CurrentActivation /\ ~late
    /\ SetRun(r, [run[r] EXCEPT !.stop = "accepted"])
    /\ UNCHANGED <<launching, pods>>

\* Confirmed, or failed at its deadline.
StopOutcome(r) ==
    /\ RunFrame /\ Exists(r) /\ run[r].stop = "accepted"
    /\ SetRun(r, [run[r] EXCEPT !.stop = "final"])
    /\ UNCHANGED <<launching, pods>>

DeleteRun(r) ==
    /\ Exists(r) /\ SetRun(r, [NoRun EXCEPT !.life = "gone"])
    /\ changes > 0 /\ changes' = changes - 1
    /\ UNCHANGED <<config, late, launching, pods, pass, unseen, upsets>>

WindowElapses ==
    /\ CurrentActivation /\ ~late /\ late' = TRUE
    /\ UNCHANGED <<config, run, launching, pods, pass, unseen, changes, upsets>>

\* The process restarts; calls that were on their way are lost.
Crash ==
    /\ Upset /\ pass' = PassIdle /\ launching' = {}
    /\ UNCHANGED <<config, late, run, pods, unseen, changes>>

----------------------------------------------------------------------------
PassNext ==
    \/ ensureActivationStatus \/ handleDeactivation \/ ListRuns \/ CheckActivation
    \/ \E r \in Runs : ReadRun(r) \/ PatchRun(r)
    \/ CleanupSuspension \/ confirmSuspensionInventory \/ patchActivationOutcome

AdminNext == Suspend \/ EditConfig \/ Resume \/ DeleteConfig

RunNext(r) ==
    \/ CreateRun(r) \/ StartStep(r) \/ Launch(r) \/ PodCreated(r) \/ PodEnds(r) \/ EndRun(r)
    \/ StampRun(r) \/ ReopenRun(r) \/ AcceptStop(r) \/ StopOutcome(r) \/ DeleteRun(r)

\* Only RecordActivation gives owed new members; every step drops what it settles.
Observed(A) == A /\ owed' = owed \cap AtWork'

Next ==
    \/ RecordActivation
    \/ Observed(PassNext \/ AdminNext \/ WindowElapses \/ Crash
                \/ \E r \in Runs : RunNext(r))

Spec == Init /\ [][Next]_vars

\* The controller keeps reconciling, the clock runs, and a call that is on its
\* way arrives (or is lost in a crash).
Fairness ==
    /\ WF_vars(RecordActivation \/ Observed(PassNext))
    /\ WF_vars(Observed(WindowElapses))
    /\ \A r \in Runs : /\ WF_vars(Observed(PodCreated(r)))
                      /\ WF_vars(Observed(StopOutcome(r)))

FairSpec == Spec /\ Fairness

----------------------------------------------------------------------------
(* Properties.                                                              *)

mode ==
    IF ~SuspensionOn THEN "off" ELSE IF CurrentActivation THEN "on" ELSE "asked"

outcome ==
    IF ~CurrentActivation \/ config.suspended.rs = "Stopping" THEN "stopping"
    ELSE IF config.suspended.rs = "AdminActivated" THEN "clean" ELSE "errors"

ReportedSafe ==
    CurrentActivation /\ config.safe = [ok |-> TRUE, gen |-> config.gen]

Promise == INSTANCE SafeSuspension WITH
              Work <- {"run", "pod"} \X Runs, safe <- ReportedSafe, unsettled <- owed

\* The controller keeps the promise of a safe suspension: SafeToResume is true
\* for an activation only when every run that was active when it was recorded has
\* accepted the stop or is gone and every Pod of that moment has ended, however
\* passes, edits, resumptions, late Pods and failures interleave; completion with
\* errors is never taken back (reconcileSuspension, patchActivationOutcome).
ImplementsSafeSuspension == Promise!Spec

\* No resumption is called safe while a run, ended or not, carries evidence that its
\* remote cluster may still be worked on: a pass that lost sight of one run, a patch
\* that had to be repeated, an outcome or the begin of a step written meanwhile must
\* not hide it (knownRemoteEvidence, for every run of the list).  The only evidence
\* beside SafeToResume=True is that of a revision written after the pass that reported
\* began: a run that ended before the activation is not marked, and a labelled one can
\* be revised in spite of its mark; the next report withdraws the condition.
RemoteWorkBlocksResumption ==
    ReportedSafe =>
        \A r \in Runs : Exists(r) /\ RemoteExecutionEvidence(r) => r \in unseen

\* A suspension that lasts, without evidence of remote work, is reported safe in
\* the end, completed, and without a Pod, also when launches that were under way
\* create theirs after an earlier report (the requeue of reconcileSuspension).
SuspensionSettles ==
    <>[](SuspensionOn /\ \A r \in Runs : Exists(r) => ~RemoteExecutionEvidence(r))
    => <>[](ReportedSafe /\ ResumptionAdmitted /\ pods = {})
=============================================================================
