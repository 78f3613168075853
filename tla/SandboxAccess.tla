--------------------------- MODULE SandboxAccess ---------------------------
(***************************************************************************)
(* What a run has in the cluster besides its status: the Pod of each step  *)
(* and the access it works with (service account, reader bindings,         *)
(* execution roles, kubeconfig, input, result role), from the launch that  *)
(* creates them, through release, terminal clean-up and expiry, to the     *)
(* deletion of the run and the finalizers that guard it.                   *)
(*                                                                         *)
(* The worker reconciles the run one request at a time; the Pod event      *)
(* handler releases a step it has settled, concurrently with the worker.   *)
(* Objects are created and deleted by NAME, one name per step.  The global *)
(* stop is left to RunWorkflow and SuspensionCleanup.                      *)
(***************************************************************************)
EXTENDS Naturals, Sequences

CONSTANTS
    Specs,        \* the runs considered: on a spoke (remote), with an execution (executes)
    Namespaces,   \* the namespaces a remediation may need roles in
    Options,      \* the remediation options that may be selected, by the access they need
    MaxLaunch,    \* bound on the launches of the run, each fault counting as FaultWeight
    MaxRevisions, \* bound on its revisions
    MaxFaults     \* bound on failed calls, crashes and changes of the spoke

\* Objects with one name per step.  cluster: ClusterRole and binding; secret: the
\* kubeconfig of the spoke; result: Role and binding.
Objects == {"sa", "reader", "secret", "cluster", "input", "result"}

ASSUME AccessAssumption ==
    /\ Specs \subseteq [remote : BOOLEAN, executes : BOOLEAN]
    /\ Options \subseteq [ns : SUBSET Namespaces, cluster : BOOLEAN] /\ Options # {}
    /\ Namespaces \cap Objects = {}
    /\ MaxLaunch \in Nat /\ MaxRevisions \in Nat /\ MaxFaults \in Nat

VARIABLES
    run,      \* the AgenticRun object
    grant,    \* the access of each step
    pod,      \* the Pod of each step
    launch,   \* the worker: idle or inside launchSandbox
    release,  \* the Pod event handler: the step whose sandbox it releases
    spoke,    \* the standing kubeconfig of the target cluster
    logs,     \* the Collector holds records of the run
    faults    \* faults still allowed

vars == <<run, grant, pod, launch, release, spoke, logs, faults>>

----------------------------------------------------------------------------
\* Verification and escalation are launched and released like the analysis.
Steps == {"analysis", "execution"}

\* A namespace stands for the execution's Role and binding in it.
Kinds == Objects \cup Namespaces

\* owners: 0 is the run, n the Pod n; of: the launch an input was made for (1 for
\* everything else).
Absent == [there |-> FALSE, owners |-> {}, of |-> 0]
Grant == {Absent} \cup [there : {TRUE}, owners : SUBSET Nat, of : Nat \ {0}]

NoPod == [uid |-> 0, ph |-> "none"]
Pod == {NoPod} \cup [uid : Nat \ {0}, ph : {"running", "ended", "terminating"}]

Stages == {"new", "proposed", "running", "done", "failed", "gone"}

\* ref: status.steps[s].sandbox.claimName; noted: what the rbac-namespaces annotation
\* holds, no namespace standing for no annotation;
\* attempts: the templog-cleanup-attempts annotation; ttl: status.deleteAfter;
\* launches: how many there were, the last one being under way or over; revisions: how
\* often feedback was given.
Run == [stage : Stages, step : Steps, remote : BOOLEAN, executes : BOOLEAN,
        deleting : BOOLEAN, finalizers : SUBSET {"rbac", "templog"},
        ref : [Steps -> BOOLEAN], noted : SUBSET Namespaces, attempts : Nat,
        ttl : {"none", "set", "past"}, label : BOOLEAN, feedback : BOOLEAN,
        launches : Nat, revisions : Nat]

\* at: the next call of Setup; tries: of retryOnTransient; uid: the Pod created
\* or adopted; option: the namespace-scoped and cluster-scoped rules of the selected
\* option; read: the edits of the run that a locked patch is based on.
LaunchPCs == {"idle", "setup", "await", "own", "ref", "fail", "terminal", "stamp", "label"}
Launch == [pc : LaunchPCs, step : Steps, at : Nat, tries : Nat, uid : Nat,
           option : [ns : SUBSET Namespaces, cluster : BOOLEAN],
           read : SUBSET {"feedback", "deleting"}]
LaunchIdle == [pc |-> "idle", step |-> "analysis", at |-> 1, tries |-> 1, uid |-> 0,
               option |-> [ns |-> {}, cluster |-> FALSE], read |-> {}]

Release == [pc : {"idle", "pod", "grants"}, step : Steps]
ReleaseIdle == [pc |-> "idle", step |-> "analysis"]

\* Every grant, Pod and note of a process keeps its shape.
TypeOK ==
    /\ run \in Run /\ grant \in [Steps -> [Kinds -> Grant]] /\ pod \in [Steps -> Pod]
    /\ launch \in Launch /\ release \in Release
    /\ spoke \in {"ready", "broken", "missing"}
    /\ logs \in BOOLEAN /\ faults \in Nat

Init ==
    /\ \E spec \in Specs :
         run = [stage |-> "new", step |-> "analysis", remote |-> spec.remote,
                executes |-> spec.executes, deleting |-> FALSE, finalizers |-> {},
                ref |-> [s \in Steps |-> FALSE], noted |-> {}, attempts |-> 0,
                ttl |-> "none", label |-> FALSE, feedback |-> FALSE, launches |-> 0,
                revisions |-> 0]
    /\ grant = [s \in Steps |-> [k \in Kinds |-> Absent]]
    /\ pod = [s \in Steps |-> NoPod]
    /\ launch = LaunchIdle /\ release = ReleaseIdle
    /\ spoke = "ready" /\ logs = FALSE /\ faults = MaxFaults

\* A run that meets a fault is launched less often than one that does not.
FaultWeight == 2
Spent == run.launches + FaultWeight * (MaxFaults - faults)

\* A revision that was asked for can still be launched.
Fault ==
    /\ faults > 0 /\ faults' = faults - 1
    /\ Spent + FaultWeight + (IF run.feedback THEN 1 ELSE 0) <= MaxLaunch
NoFault == UNCHANGED faults

Gone == run.stage = "gone"
Terminal == run.stage \in {"done", "failed"}

\* spokeAccessForRun returns a client for the cluster the run works on.
Reachable == ~run.remote \/ spoke = "ready"

----------------------------------------------------------------------------
(* What is created, and what each clean-up deletes by name.                  *)

\* The calls of SandboxManager.Create up to the Pod, in order.
Setup(s) ==
    <<"sa", "reader">>
    \o (IF run.remote THEN <<"secret">> ELSE <<>>)
    \o (IF s = "execution" THEN <<"roles", "cluster", "note">> ELSE <<>>)
    \o <<"input", "result", "pod">>

Doing(what) ==
    launch.pc = "setup" /\ Setup(launch.step)[launch.at] = what

\* An option without namespace-scoped rules leaves the annotation as it is.
Annotate(noted) == IF launch.option.ns = {} THEN noted ELSE launch.option.ns

\* The namespaces named by the run that a failing Create holds in memory.  They are
\* replaced there before the first role is created.
Known ==
    IF launch.step = "execution" /\ \E i \in 1..launch.at : Setup("execution")[i] = "roles"
    THEN Annotate(run.noted) ELSE run.noted

\* The roles are found by the annotation.
cleanupExecutionRBAC(noted) == {"cluster"} \cup noted

\* The bindings made for the run; those of the shared reader stay.  On the hub they
\* are found by their labels, on a spoke by their names.
removeReaderSubject == {"reader"}
removeReaderSubjectOnSpoke == {"reader"}

\* Nothing without the client for the target cluster.
cleanupStepRBAC(s, noted, client) ==
    IF ~client THEN {}
    ELSE {"sa"} \cup (IF run.remote THEN removeReaderSubjectOnSpoke ELSE removeReaderSubject)
         \cup (IF s = "execution" THEN cleanupExecutionRBAC(noted) ELSE {})

\* The kubeconfig is a hub object and goes even when the spoke is out of reach.
KubeconfigSecret == IF run.remote THEN {"secret"} ELSE {}

\* Delete the grants gone[s] of each step, but those of the kinds kept.
Delete(gone, kept) ==
    grant' = [s \in Steps |-> [k \in Kinds |->
                 IF k \in gone[s] \ kept THEN Absent ELSE grant[s][k]]]

\* What one failed deletion leaves: the others go on, but the roles come one after
\* the other before the cluster role, and an error there ends cleanupExecutionRBAC.
Kept(gone) ==
    LET found == {k \in Kinds : \E s \in Steps : k \in gone[s] /\ grant[s][k].there}
    IN {{k} : k \in found \cap Objects}
       \cup {rest \cup {"cluster"} : rest \in SUBSET (found \cap Namespaces) \ {{}}}

DeleteAll(gone) == Delete(gone, {}) /\ NoFault
DeleteFails(gone) == Fault /\ \E kept \in Kept(gone) : Delete(gone, kept)

Only(s, ks) == [t \in Steps |-> IF t = s THEN ks ELSE {}]

\* Not found taken for a deletion under way.
TerminatingAnyway(p) == [p EXCEPT !.ph = "terminating"]

\* A deletion under way: the Pod object stays until its containers have ended.
Terminating(p) == IF p.uid = 0 THEN p ELSE [p EXCEPT !.ph = "terminating"]

----------------------------------------------------------------------------
(* The worker: finalizers and the start of a step.                           *)

Reconciling == launch.pc = "idle" /\ ~Gone /\ ~run.deleting

WorkerFrame == UNCHANGED <<release, spoke, logs>>

AddFinalizers ==
    /\ Reconciling /\ run.finalizers = {}
    /\ run' = [run EXCEPT !.finalizers = {"rbac", "templog"}]
    /\ UNCHANGED <<grant, pod, launch, faults>> /\ WorkerFrame

\* In phases Proposed and Executing, and in a terminal one without an execution.
HearsFeedback ==
    \/ run.stage = "proposed"
    \/ run.stage = "running" /\ run.step = "execution"
    \/ Terminal /\ ~run.executes

Revisable == run.feedback /\ HearsFeedback

Start(s, r, option) ==
    /\ Spent < MaxLaunch
    /\ run' = [r EXCEPT !.stage = "running", !.step = s, !.launches = @ + 1]
    /\ launch' = [LaunchIdle EXCEPT !.pc = "setup", !.step = s, !.option = option]
    /\ logs' = TRUE
    /\ UNCHANGED <<grant, pod, release, spoke, faults>>

handleStep ==
    /\ Reconciling /\ run.finalizers # {} /\ ~Revisable
    /\ \/ run.stage = "new" /\ Start("analysis", run, LaunchIdle.option)
       \/ /\ run.stage = "proposed"
          /\ \E option \in Options : Start("execution", run, option)

\* handleRevision: the label is removed by a patch of its own, then the status.
ClearTerminalLabel ==
    /\ Reconciling /\ Revisable /\ run.label
    /\ run' = [run EXCEPT !.label = FALSE]
    /\ UNCHANGED <<grant, pod, launch, faults>> /\ WorkerFrame

resetExecutionAndVerification(r) == [r EXCEPT !.ref["execution"] = FALSE]

handleRevision ==
    /\ Reconciling /\ Revisable /\ ~run.label
    /\ Start("analysis", [resetExecutionAndVerification(run) EXCEPT
                             !.ttl = "none", !.feedback = FALSE], LaunchIdle.option)

----------------------------------------------------------------------------
(* launchSandbox: SandboxManager.Create, retried, then patchSandboxInfo.     *)

SetGrant(k, g) == grant' = [grant EXCEPT ![launch.step][k] = g]

Advance == launch' = [launch EXCEPT !.at = @ + 1]

NewGrant(k, owners) ==
    [there |-> TRUE, of |-> IF k = "input" THEN run.launches ELSE 1, owners |-> owners]

\* An object that exists is kept as it is.
Ensure(k, owners) ==
    /\ Doing(k) /\ Advance /\ NoFault
    /\ IF grant[launch.step][k].there THEN UNCHANGED grant
       ELSE SetGrant(k, NewGrant(k, owners))
    /\ UNCHANGED <<run, pod>> /\ WorkerFrame

\* On the spoke, too, where the token is requested as well.  The client of the spoke
\* is made once, here, for the whole of Create.
ensureSA == Reachable /\ Ensure("sa", {})

\* One binding for every binding of the shared reader account, all or none.
addReaderSubject == ~run.remote /\ Ensure("reader", {})
addReaderSubjectOnSpoke == run.remote /\ Ensure("reader", {})

\* One role after the other, then the cluster role, as the option needs them.
ensureExecutionRBAC ==
    \/ /\ Doing("roles") /\ NoFault
       /\ LET missing == {n \in launch.option.ns : ~grant["execution"][n].there} IN
          \/ missing = {} /\ Advance /\ UNCHANGED grant
          \/ \E n \in missing : SetGrant(n, NewGrant(n, {})) /\ UNCHANGED launch
       /\ UNCHANGED <<run, pod>> /\ WorkerFrame
    \/ launch.option.cluster /\ Ensure("cluster", {})
    \/ /\ Doing("cluster") /\ ~launch.option.cluster /\ Advance /\ NoFault
       /\ UNCHANGED <<run, grant, pod>> /\ WorkerFrame

createInputConfigMap == Ensure("input", {0})

ensureResultRBAC == Ensure("result", {})

\* The kubeconfig is refreshed with the new token.
ensureSandboxKubeconfig ==
    /\ Doing("secret") /\ Advance /\ NoFault
    /\ SetGrant("secret", NewGrant("secret", {0}))
    /\ UNCHANGED <<run, pod>> /\ WorkerFrame

\* The namespaces are persisted once the roles exist, in place of those of an earlier
\* execution.
PersistNamespaces ==
    /\ Doing("note") /\ Advance /\ NoFault
    /\ run' = [run EXCEPT !.noted = Annotate(@)]
    /\ UNCHANGED <<grant, pod>> /\ WorkerFrame

maxCreateRetries == 3

\* Every attempt of every launch creates one Pod at most.
NewUID == maxCreateRetries * (run.launches - 1) + launch.tries

\* A Pod of that name that is not being deleted is adopted, whoever made it.  The
\* API server refuses a Pod whose service account does not exist.
createBarePod ==
    /\ Doing("pod") /\ NoFault
    /\ LET s == launch.step
           new == [uid |-> NewUID, ph |-> "running"] IN
       \/ /\ pod[s] = NoPod /\ (run.remote \/ grant[s]["sa"].there)
          /\ pod' = [pod EXCEPT ![s] = new]
          /\ launch' = [launch EXCEPT !.pc = "own", !.uid = new.uid]
       \/ /\ pod[s].ph \in {"running", "ended"} /\ UNCHANGED pod
          /\ launch' = [launch EXCEPT !.pc = "own", !.uid = pod[s].uid]
       \/ /\ pod[s].ph = "terminating" /\ UNCHANGED pod
          /\ launch' = [launch EXCEPT !.pc = "await"]
    /\ UNCHANGED <<run, grant>> /\ WorkerFrame

waitForPodDeletion ==
    /\ launch.pc = "await" /\ pod[launch.step] = NoPod
    /\ launch' = [launch EXCEPT !.pc = "setup"]
    /\ UNCHANGED <<run, grant, pod, faults>> /\ WorkerFrame

\* Which attempt comes after an error: the next one if it was transient.
Retry ==
    \/ launch.tries < maxCreateRetries
       /\ launch' = [launch EXCEPT !.pc = "setup", !.at = 1, !.tries = @ + 1]
    \/ launch' = [launch EXCEPT !.pc = "fail"]

\* No client: nothing is created and nothing cleaned up.
spokeAccessForRun ==
    /\ Doing("sa") /\ ~Reachable /\ Retry
    /\ UNCHANGED <<run, grant, pod, faults>> /\ WorkerFrame

\* With the client that Create was given at its start.
OnCreateFailure(s) ==
    {"input", "result"} \cup KubeconfigSecret \cup cleanupStepRBAC(s, Known, TRUE)

\* A call before the Pod is created or adopted fails, and what was created is
\* deleted by name; the same outage may fail one of the deletions.
cleanupOnCreateFailure ==
    /\ \/ launch.pc \in {"setup", "await"} /\ Fault /\ Retry
       \/ /\ Doing("pod") /\ NoFault /\ ~run.remote
          /\ pod[launch.step] = NoPod /\ ~grant[launch.step]["sa"].there
          /\ launch' = [launch EXCEPT !.pc = "fail"]
    /\ LET gone == Only(launch.step, OnCreateFailure(launch.step)) IN
       \/ Delete(gone, {})
       \/ faults' # faults /\ \E kept \in Kept(gone) : Delete(gone, kept)
    /\ UNCHANGED <<run, pod>> /\ WorkerFrame

\* The Pod takes the place of the run as the owner, or comes beside earlier Pods.
setInputConfigMapOwner(g) == [g EXCEPT !.owners = {launch.uid}]
setResultRBACOwner(g) == [g EXCEPT !.owners = @ \cup {launch.uid}]
setSAOwner(g) == [g EXCEPT !.owners = {launch.uid}]

\* In this order, up to the first object that does not exist.
SetOwners ==
    /\ launch.pc = "own" /\ NoFault
    /\ LET s == launch.step
           g == grant[s]
           order == IF run.remote THEN <<"input", "result">> ELSE <<"input", "result", "sa">>
           found == {n \in 0..Len(order) : \A i \in 1..n : g[order[i]].there}
           owned == {order[n] : n \in found \ {0}}
       IN /\ grant' = [grant EXCEPT ![s] = [k \in Kinds |->
                IF k \notin owned THEN g[k]
                ELSE CASE k = "input" -> setInputConfigMapOwner(g[k])
                       [] k = "result" -> setResultRBACOwner(g[k])
                       [] k = "sa" -> setSAOwner(g[k])]]
          /\ launch' = [launch EXCEPT !.pc = IF Len(order) \in found THEN "ref" ELSE "fail"]
    /\ UNCHANGED <<run, pod>> /\ WorkerFrame

\* Nothing is cleaned up from here on, and the name of the Pod is not kept.
SetOwnersFails ==
    /\ launch.pc = "own" /\ Fault /\ Retry
    /\ UNCHANGED <<run, grant, pod>> /\ WorkerFrame

patchSandboxInfo ==
    /\ launch.pc = "ref"
    /\ \/ /\ run' = [run EXCEPT !.ref[launch.step] = TRUE]
          /\ launch' = LaunchIdle /\ NoFault
       \/ Fault /\ launch' = [launch EXCEPT !.pc = "fail"] /\ UNCHANGED run
    /\ UNCHANGED <<grant, pod>> /\ WorkerFrame

failStep ==
    /\ launch.pc = "fail"
    /\ launch' = LaunchIdle
    /\ \/ run' = [run EXCEPT !.stage = "failed"] /\ NoFault
       \/ UNCHANGED run /\ Fault
    /\ UNCHANGED <<grant, pod>> /\ WorkerFrame

----------------------------------------------------------------------------
(* The Pod event handler and the ticker: a step is settled, then released.   *)

\* The Pod has ended, or has been too long at it (ok is FALSE then).
completeStep(s) ==
    /\ release.pc = "idle" /\ run.stage = "running" /\ run.step = s
    /\ \E ok \in BOOLEAN :
         /\ pod[s].ph = "ended" \/ (pod[s].ph = "running" /\ ~ok)
         /\ run' = [run EXCEPT !.stage =
                       IF ~ok THEN "failed"
                       ELSE IF s = "analysis" /\ run.executes THEN "proposed" ELSE "done"]
    /\ release' = [pc |-> "pod", step |-> s]
    /\ UNCHANGED <<grant, pod, launch, spoke, logs, faults>>

HandlerFrame == UNCHANGED <<run, launch, spoke, logs>>

\* Release does nothing for a step without a recorded sandbox; an error is logged.
releaseBarePod ==
    /\ release.pc = "pod"
    /\ IF ~Gone /\ run.ref[release.step]
       THEN /\ release' = [release EXCEPT !.pc = "grants"]
            /\ \/ pod' = [pod EXCEPT ![release.step] = Terminating(@)] /\ NoFault
               \/ UNCHANGED pod /\ Fault
       ELSE release' = ReleaseIdle /\ UNCHANGED <<pod, faults>>
    /\ UNCHANGED grant /\ HandlerFrame

\* The explicit deletions of Release.
Released(s) == cleanupStepRBAC(s, run.noted, Reachable) \cup KubeconfigSecret

ReleaseGrants ==
    /\ release.pc = "grants" /\ release' = ReleaseIdle
    /\ LET gone == Only(release.step, Released(release.step)) IN
       DeleteAll(gone) \/ DeleteFails(gone)
    /\ UNCHANGED pod /\ HandlerFrame

----------------------------------------------------------------------------
(* The worker: terminal clean-up, and the deadline the sweep goes by.        *)

AnyRef == \E s \in Steps : run.ref[s]

\* Only what the status records.
ReleasedOfRecorded ==
    [s \in Steps |-> IF run.ref[s] THEN Released(s) ELSE {}]

\* ReleaseSandboxes: every recorded step, and the execution's access in any case.
ReleasedOfAll ==
    [s \in Steps |-> IF run.ref[s] THEN Released(s)
                     ELSE IF s = "execution" THEN cleanupStepRBAC(s, run.noted, Reachable)
                     ELSE {}]

ReleaseSandboxes ==
    /\ pod' = [s \in Steps |-> IF run.ref[s] THEN Terminating(pod[s]) ELSE pod[s]]
    /\ DeleteAll(ReleasedOfAll)

\* One of its deletions fails, the others are made.
ReleaseSandboxesFails ==
    \/ /\ pod' = [s \in Steps |-> IF run.ref[s] THEN Terminating(pod[s]) ELSE pod[s]]
       /\ DeleteFails(ReleasedOfAll)
    \/ \E t \in Steps :
         /\ run.ref[t] /\ pod[t] # NoPod /\ Fault
         /\ pod' = [s \in Steps |-> IF run.ref[s] /\ s # t
                                    THEN Terminating(pod[s]) ELSE pod[s]]
         /\ Delete(ReleasedOfAll, {})

\* What handleFailed deletes: on the hub only the execution's, if it is annotated.
ReleasedOfFailed ==
    [s \in Steps |->
        IF run.remote \/ (s = "execution" /\ run.noted # {})
        THEN cleanupStepRBAC(s, run.noted, Reachable) ELSE {}]

\* A failed run is not recorded.
TerminalDueIfDone == run.stage = "done" /\ ~(run.label /\ run.ttl # "none") /\ ~Revisable

TerminalDue == Terminal /\ ~(run.label /\ run.ttl # "none") /\ ~Revisable

handleFailed ==
    /\ Reconciling /\ run.finalizers # {} /\ TerminalDue
    /\ launch' = [launch EXCEPT !.pc = "terminal"]
    /\ LET gone == IF run.stage = "failed" THEN ReleasedOfFailed ELSE [s \in Steps |-> {}]
       IN DeleteAll(gone) \/ DeleteFails(gone)
    /\ UNCHANGED <<run, pod>> /\ WorkerFrame

\* An error of the release is logged, no more.
handleTerminalCleanup ==
    /\ launch.pc = "terminal"
    /\ launch' = [launch EXCEPT !.pc = "stamp"]
    /\ IF AnyRef THEN ReleaseSandboxes \/ ReleaseSandboxesFails
       ELSE UNCHANGED <<grant, pod, faults>>
    /\ UNCHANGED run /\ WorkerFrame

\* The edits by others a terminal run can undergo, up to now.
Edits == (IF run.feedback THEN {"feedback"} ELSE {})
         \cup (IF run.deleting THEN {"deleting"} ELSE {})

\* handleTerminalRecord patches the run, reads it again, and patches it again.
StampTerminalTime ==
    /\ launch.pc = "stamp"
    /\ \/ /\ run' = [run EXCEPT !.ttl = IF @ = "none" THEN "set" ELSE @]
          /\ launch' = [launch EXCEPT !.pc = "label", !.read = Edits] /\ NoFault
       \/ UNCHANGED run /\ launch' = LaunchIdle /\ Fault
    /\ UNCHANGED <<grant, pod>> /\ WorkerFrame

\* The second patch carries a lock.
LabelTerminalRun ==
    /\ launch.pc = "label" /\ launch' = LaunchIdle
    /\ \/ launch.read = Edits /\ run' = [run EXCEPT !.label = TRUE] /\ NoFault
       \/ launch.read # Edits /\ UNCHANGED run /\ NoFault
       \/ UNCHANGED run /\ Fault
    /\ UNCHANGED <<grant, pod>> /\ WorkerFrame

----------------------------------------------------------------------------
(* The worker: deletion.                                                     *)

Finalizing == launch.pc = "idle" /\ ~Gone /\ run.deleting

\* The object disappears with its last finalizer.
Without(f) ==
    LET rest == run.finalizers \ {f} IN
    run' = [run EXCEPT !.finalizers = rest, !.stage = IF rest = {} THEN "gone" ELSE @]

\* An unreachable spoke is an error that keeps the finalizer, but for a standing
\* kubeconfig that does not exist any more.
SpokeAllows == ~run.remote \/ spoke # "broken"

ReleaseDeleted ==
    /\ Finalizing /\ "rbac" \in run.finalizers
    /\ \/ ReleaseSandboxes /\ SpokeAllows /\ Without("rbac")
       \/ ReleaseSandboxes /\ ~SpokeAllows /\ UNCHANGED run
       \/ ReleaseSandboxesFails /\ UNCHANGED run
    /\ UNCHANGED launch /\ WorkerFrame

\* The Collector may be down for good; three failed attempts are enough.
templogMaxCleanupAttempts == 3

\* The attempts start over.
handleTemplogCleanupForever ==
    /\ Finalizing /\ run.finalizers = {"templog"}
    /\ \/ logs' = FALSE /\ Without("templog")
       \/ UNCHANGED logs
          /\ run' = [run EXCEPT !.attempts = (@ + 1) % templogMaxCleanupAttempts]
    /\ UNCHANGED <<grant, pod, launch, release, spoke, faults>>

handleTemplogCleanup ==
    /\ Finalizing /\ run.finalizers = {"templog"}
    /\ \/ run.attempts < templogMaxCleanupAttempts /\ logs' = FALSE /\ Without("templog")
       \/ /\ run.attempts < templogMaxCleanupAttempts /\ UNCHANGED logs
          /\ run' = [run EXCEPT !.attempts = @ + 1]
       \/ run.attempts >= templogMaxCleanupAttempts /\ UNCHANGED logs /\ Without("templog")
    /\ UNCHANGED <<grant, pod, launch, release, spoke, faults>>

----------------------------------------------------------------------------
(* Users, the sweep, the cluster.                                            *)

OutsideRun(r) == run' = r /\ UNCHANGED <<grant, pod, launch, release, spoke, logs, faults>>

\* With finalizers the object stays, marked; without it is gone at once.
Deleted == [run EXCEPT !.deleting = TRUE,
                       !.stage = IF run.finalizers = {} THEN "gone" ELSE @]

UserDeletes == ~Gone /\ ~run.deleting /\ OutsideRun(Deleted)

\* Feedback in other phases has no effect on what is modelled here.
GiveFeedback ==
    /\ HearsFeedback /\ ~run.feedback
    /\ run.revisions < MaxRevisions /\ Spent < MaxLaunch
    /\ OutsideRun([run EXCEPT !.feedback = TRUE, !.revisions = @ + 1])

DeadlinePasses == run.ttl = "set" /\ OutsideRun([run EXCEPT !.ttl = "past"])

\* The sweep works from its cache; the deletion of a run that has left its terminal
\* phase since is the same step as UserDeletes.
sweepExpiredRuns ==
    /\ Terminal /\ run.label /\ run.ttl = "past" /\ ~run.deleting
    /\ OutsideRun(Deleted)

PodEnds(s) ==
    /\ pod[s].ph = "running"
    /\ pod' = [pod EXCEPT ![s].ph = "ended"]
    /\ UNCHANGED <<run, grant, launch, release, spoke, logs, faults>>

\* A Pod being deleted, or whose run is gone, disappears.
PodRemoved(s) ==
    /\ pod[s].ph = "terminating" \/ (pod[s] # NoPod /\ Gone)
    /\ pod' = [pod EXCEPT ![s] = NoPod]
    /\ UNCHANGED <<run, grant, launch, release, spoke, logs, faults>>

\* The garbage collector removes what has owners, all of them gone.
Collectable(s, k) ==
    /\ grant[s][k].there /\ grant[s][k].owners # {}
    /\ \A o \in grant[s][k].owners : IF o = 0 THEN Gone ELSE pod[s].uid # o

Collect(s, k) ==
    /\ Collectable(s, k)
    /\ grant' = [grant EXCEPT ![s][k] = Absent]
    /\ UNCHANGED <<run, pod, launch, release, spoke, logs, faults>>

SpokeChanges ==
    /\ run.remote /\ spoke # "missing"
    /\ \/ spoke = "ready" /\ spoke' = "broken" /\ Fault
       \/ spoke' = "missing" /\ Fault
       \/ spoke = "broken" /\ spoke' = "ready" /\ NoFault
    /\ UNCHANGED <<run, grant, pod, launch, release, logs>>

Crash ==
    /\ launch # LaunchIdle \/ release # ReleaseIdle
    /\ launch' = LaunchIdle /\ release' = ReleaseIdle /\ Fault
    /\ UNCHANGED <<run, grant, pod, spoke, logs>>

----------------------------------------------------------------------------
Create ==
    \/ spokeAccessForRun \/ ensureSA \/ addReaderSubject \/ addReaderSubjectOnSpoke
    \/ ensureSandboxKubeconfig \/ ensureExecutionRBAC \/ PersistNamespaces
    \/ createInputConfigMap \/ ensureResultRBAC \/ createBarePod
    \/ waitForPodDeletion \/ cleanupOnCreateFailure \/ SetOwners \/ SetOwnersFails

Worker ==
    \/ AddFinalizers \/ handleStep \/ ClearTerminalLabel \/ handleRevision
    \/ Create \/ patchSandboxInfo \/ failStep
    \/ handleFailed \/ handleTerminalCleanup \/ StampTerminalTime \/ LabelTerminalRun
    \/ ReleaseDeleted \/ handleTemplogCleanup

Handler ==
    releaseBarePod \/ ReleaseGrants \/ \E s \in Steps : completeStep(s)

Cluster == \E s \in Steps : PodRemoved(s) \/ \E k \in Kinds : Collect(s, k)

Next ==
    \/ Worker \/ Handler \/ sweepExpiredRuns \/ Cluster
    \/ UserDeletes \/ GiveFeedback \/ DeadlinePasses \/ SpokeChanges \/ Crash
    \/ \E s \in Steps : PodEnds(s)

Spec == Init /\ [][Next]_vars

\* The queue hands out the run as long as there is something to do, the sweep runs
\* every hour, time passes, kubelet and garbage collector do their work.  Fairness of
\* their union is enough: none of them can go on for ever alone.
Progress == sweepExpiredRuns \/ DeadlinePasses \/ Cluster \/ Worker

FairSpec == Spec /\ WF_vars(Progress)

----------------------------------------------------------------------------
\* Nobody will delete another object for the run.
Collected ==
    /\ Gone /\ launch.pc = "idle" /\ release.pc = "idle"
    /\ \A s \in Steps : pod[s] = NoPod /\ \A k \in Kinds : ~Collectable(s, k)

\* The finalizer: once a run is gone, neither a cluster role nor a role in a namespace
\* its annotation names is left, whatever failed on the way and whether or not the step
\* was recorded.  A spoke whose kubeconfig is missing is given up (sandbox_agent.go:222).
\* Without any fault and without a revision nothing at all is left.  After a revision all
\* that can be left is a result role, which is deleted through its owners alone and may
\* have none (a launch adopts a Pod whose input is gone), and roles in namespaces that an
\* earlier execution noted and a later one, for another option, did not (rbac.go:385).
DeletedRunLeavesNothing ==
    /\ Gone /\ spoke # "missing" =>
         \A s \in Steps : \A k \in {"cluster"} \cup run.noted : ~grant[s][k].there
    /\ Collected /\ faults = MaxFaults =>
         \A s \in Steps, k \in Kinds :
            grant[s][k].there =>
                /\ run.revisions > 0
                /\ k = "result" \/ k \in Namespaces \ run.noted
    /\ Gone /\ logs => run.attempts = templogMaxCleanupAttempts

\* A deleted run disappears with its Pods, inputs and kubeconfigs, also when the
\* Collector never answers, unless the access to its spoke stays broken.
DeletionCompletes ==
    []<>(spoke # "broken") =>
        (run.deleting ~> /\ Gone /\ \A s \in Steps : /\ pod[s] = NoPod
                                                    /\ ~grant[s]["input"].there
                                                    /\ ~grant[s]["secret"].there)

\* A terminal run is deleted in the end, also when the operator restarts between
\* recording the deadline and labelling the run, unless feedback revives it.
TerminalRunExpires == Terminal ~> run.deleting \/ ~Terminal

\* handlers.go:93: "handleRevision re-runs analysis with revision context appended to
\* the agent's system prompt".  The running Pod a launch has created has the input
\* that was written for this launch.
FreshInput ==
    launch.pc \in {"own", "ref"} /\ pod[launch.step].ph = "running" =>
        LET input == grant[launch.step]["input"] IN
        input.there => input.of = run.launches
=============================================================================
