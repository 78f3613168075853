# A formal model of the lightspeed-agentic-operator

The operator runs AI agents in sandbox Pods on behalf of `AgenticRun` objects.
A run is analysed, and then optionally executed, verified and escalated. Each
step has an approval gate and runs in a Pod of its own, which reports through a
Result CR. An administrator can stop all of it at once. This directory holds a
TLA+ model of the control logic: the reconciler of a run with its Pod handler
and timeout ticker, the global stop as the run, the configuration controller
and the clean-up see it, and the access a run is given, from its launch to its
deletion. TLC checks it on small instances; TLAPS proves part of it for all.

Run `tlc -config <run>.cfg <module>` for a check, with the module `PROJECT.json`
names for the run, and `tlapm <module>Proofs.tla` for proofs. `PROJECT.json` also
lists the source lines behind each definition, the hazards and the findings.

## Inventory

| Component | State it keeps | Operations | Interacts through |
|---|---|---|---|
| Conditions and phase (`api/v1alpha1/agenticrun_types.go`, `helpers.go`) | `status.conditions` | `DerivePhase`, `isTerminal`, stop acceptance and outcome | read by everyone |
| AgenticRun reconciler (`reconciler.go`, `handlers.go`) | run status, TTL label, approval object | suspension routing, phase handlers, revision, terminal record, deletion | optimistic-lock patches of the run |
| Approval gate (`approval.go`) | `AgenticRunApproval.spec.stages` | create from policy, decide, look up | read through the cache |
| Pod handler (`pod_handler.go`) | none but the mutex `stepCondMu` | progress, `completeStep`, release | informer callbacks, run patches |
| Timeout ticker (`timeout_handler.go`) | none | retry of finished Pods, timeouts, TTL sweep, stop of runs with Pods | lists the Pod cache, calls `completeStep` and `Reconcile` directly |
| Sandbox manager (`sandbox_manager.go`, `sandbox_agent.go`, `input_configmap.go`) | Pod, ConfigMap, ServiceAccount, claim | create, adopt, wait for deletion, release | called by the worker, API objects |
| Result CRs (`results.go`) | CRs named after run, step and index | created by the agent or by `failStep`, validated, linked | API server, cache |
| AgenticOLSConfig controller (`agenticolsconfig/reconciler.go`) | `Suspended`, `SafeToResume`, activation start | record activation, mark every run, remove workload and access, report evidence | patches the runs, deletes their Pods |
| Suspension clean-up (`suspension_cleanup.go`) | none | inventory and deletion of Pods, claims, pools, bindings, secrets | API objects, called by both controllers |
| Deletion, finalizers, TTL (`reconciler.go`, `timeout_handler.go`) | finalizer, `deleteAfter` | finalise, sweep | the run object |
| RBAC, spokes (`rbac.go`, `spoke.go`) | roles, bindings, annotations of the run | grant, revoke, tear down | API objects, remote clusters |
| Resolution, Pod spec, schemas, audit, webhook, CLI, set-up | none or process-local | pure construction and I/O | - |

What is hard about it:

* four actors (worker, informer goroutine, ticker, configuration controller)
  write the same run, and two of them call the same code concurrently;
* objects are created, adopted and deleted by name while the sandbox operator,
  the garbage collector and a second pass do the same;
* the run is re-read before a write, while approvals, Pods and Result CRs come
  from caches that lag;
* a step is a sequence of API calls (condition, Pod, sandbox reference), and a
  crash or an error may fall between any two;
* Pods finish late: after a timeout, after a revision, after a stop;
* the stop has a window, may be resumed in the middle, and must come to exactly
  one outcome while Pods keep appearing behind its back.

What makes each part correct:

* *gate*: no sandbox that acts without its approval;
* *workflow*: steps in order, reported work is repeated only by a revision, a
  settled step stays settled, no step is in progress for ever;
* *completion*: no result counts as a success twice, a timeout beats a late result;
* *stop of a run*: acceptance is irrevocable, one outcome, nothing moves the run
  after it, no Pod is left;
* *configuration controller*: `SafeToResume` only on evidence of the present
  activation, never over remote work, and in the end;
* *clean-up*: a confirmed pass means that the work has stopped; somebody else's
  Pod and a completed Pod are left alone; no workload escapes for ever;
* *access*: a deleted run leaves no grant; deletion and expiry come to an end.

## Modules

* `RunConditions`: conditions and the pure functions on them. A condition is a
  status and a reason; the reasons no code path tells apart are merged.
* `RunWorkflow`: one run, its approval, Pods and Result CRs, with every actor
  that touches them.
* `GlobalStop`: the abstract promise of the stop for one run, in three variables:
  stage, phase, and whether a revision is under way that no longer looks for a stop.
  `RunWorkflow` implements it.
* `SuspensionController`: the AgenticOLSConfig controller over several runs.
* `SafeSuspension`: its abstract promise: safe means that everything that was at
  work when the activation was recorded has stopped. `SuspensionController`
  implements it.
* `SuspensionCleanup`: what `CleanupSuspension` does to the objects of one run.
* `SandboxAccess`: the Pods and the access of one run, from launch to deletion.
* `MCRunWorkflow`, `MCSuspension`, `MCCleanup`, `MCAccess`: finite instances.
* `RunWorkflowProofs`, `GlobalStopProofs`, `RunOrderProofs`,
  `SuspensionControllerProofs`, `SuspensionCleanupProofs`,
  `CleanupConfirmProofs`, `SandboxAccessProofs`: theorems.

The modules meet where the code does. A run is marked by `SuspensionController`
and lives on in `RunWorkflow`, which contains the configuration controller's
effect on it (`persistRunStopGlobal`, `CleanupSuspension`). The clean-up pass is
one action in those two and a dozen in `SuspensionCleanup`. A launch and a
release are a few actions in `RunWorkflow`, where the run is what matters, and
one action for each object in `SandboxAccess`. `RunWorkflow` lets an
administrator resume at any time; `SuspensionController` has the admission
policy that may refuse. Each abstraction allows more than the module that has
the detail.

### How `RunWorkflow` corresponds to the code

*Atomicity.* All status patches carry an optimistic lock, so reading the run and
patching it is one action: had the run changed in between, the patch would have
failed and the code would read again or return. A handler that reads twice is
two actions: `completeStep` (read, validate) and `patchStepResult` (read again,
write) are the important case; `ResolutionFails` and `RecordResolutionFailure`,
whose second read looks at the suspension but not at the phase, are another. The
revision of a labelled run is a third: the label is removed by a patch without a
lock, whose answer is the run as it is by then, and the status patch is locked on
that answer only. `handleRevision` (the checks of `Reconcile`) and `ReviseLabelled`
(both patches) are therefore two actions, and the second looks neither at the stop
nor at the suspension. The check of the suspension before a patch is otherwise
merged with the patch. The two `requireRunnable` checks of `Create` are merged
into `PrepareSandbox`, and everything between it and `createBarePod` is the
window in which a stop can be accepted unnoticed.

*Actors.* `worker` is the reconcile worker inside a launch (its `pc` is the next
API call), `job["events"]` the informer goroutine, `job["ticker"]` the ticker,
`stopper` the stop path (`handleSuspensionAt`) on the worker or on the ticker,
which calls `Reconcile` directly. `MutexFree` is `stepCondMu`, which
`completeStep` holds and `failStep` does not.

*Caches.* `seen` and `view` are what the controller's cache has of the approval
and of the Pods; they are refreshed by actions of their own.  A Result CR on the
server may or may not be found by `validateResultCR`. An informer update calls
the handler with the old object as well as with the new one (`PodChangedOld`).
After a crash the caches are filled before workers start (`Boot`).

*Workflow.* `HandlePhase` is the routing of `Reconcile` followed by
`handleAnalysis`, `handleExecution`, `handleVerification`, `handleEscalation` or
`handleRevision`. The launch is `PrepareSandbox`, `createBarePod`,
`AwaitDeletion`, `patchSandboxInfo`, with `LaunchStopped`, `LaunchFails`,
`AwaitTimesOut` and `failStep` as its ways out. `handleTerminalCleanup` and
`handleTerminalRecord` end a run.

*Stop.* `persistRunStop` (run controller) and `persistRunStopGlobal`
(configuration controller) accept; `ResumeCleanup`, `suspensionCleanupPass` and
`FinishPass` are one pass of `handleSuspensionAt`; `writeSuspensionOutcome`
decides. `Suspend`, `RecordActivation`, `Resume` are the administrator and the
configuration controller. `CleanupSuspension` is the configuration controller
removing Pods.

*Time.* A timeout may fire at any moment a Pod of a step in progress exists, and
the window may elapse at any moment. There is one window: a run that has
accepted keeps the start it copied, so a second activation does not reopen it.
Stamps have a precision of one second, so a run that ended in the second of the
activation counts as affected; `persistRunStopGlobal` therefore does not look at
the stamp.

*Left out as without effect here.* The second attempt of `retryOnTransient` (it
repeats an idempotent Create); `AlreadyExists` after the wait for a deletion or
when the approval is created; a failed patch whose only effect is a retry;
the removal of `Verified` by `handleExecution` (absent in its phases); the Pod
phase Unknown (handled as Pending).

### How `SuspensionController` corresponds to the code

`pass` is the reconcile under way: `RecordActivation` or `ensureActivationStatus`
begins it, `ListRuns` and `CheckActivation` are the inventory, `ReadRun` and
`PatchRun` are `persistRunStop` for one run (the activation is checked between
the read and the patch, so the administrator can act in between),
`CleanupSuspension` and `confirmSuspensionInventory` are the clean-up,
`patchActivationOutcome` the report. A superseded pass ends where the code
returns. A run has the state the controller looks at: whether it is terminal,
its stop, whether `terminalTime` precedes the activation, and whether it carries
evidence of remote work, which an Unknown condition is: `StartStep` (a step begins),
`Launch` and `ReopenRun` (a revision) set it for a remote run. The runs act between any two calls of the pass; a launch
that has passed its check creates its Pod at any later time. Writes of a run
check the suspension first and are guarded by the lock of the run only, so
`StartStep`, `EndRun` and `ReopenRun` do not look at the configuration. The lock
does not hold back the revision of a labelled run, so `ReopenRun` reopens such a run
in spite of its mark. `ResumptionAdmitted` and `CreateRun` are the admission
policies. Three observations serve the properties: `owed`, what the recorded
activation had to stop and has not; `pass.revised`, the remote runs revised since
the pass began; `unseen`, those revised since the pass of the last report began.

### How `SuspensionCleanup` corresponds to the code

One claim, sandbox and Pod under one name each, with UIDs that tell a
replacement from the object that was read, and labelled objects of several kinds
(pools, service accounts, roles, bindings, secrets) on which nothing else
depends. Labels are absent, the run's, or spoiled. A pass is a record that keeps
what the code keeps between its API calls: the lists that worked, the claim and
the Pod as listed, what it decided to remove, what blocks what. `Planned` is the
sorting of the inventory; `SaveIdentity`, `GetPod`, `DeletePod`,
`confirmObjectGone` and `DeleteSandbox` are the loop over sandboxes and
`deleteSuspensionPod`; `ToPods` moves on to Pods that were not dealt with
under a sandbox, `DeleteExtras` and `DeleteClaim` follow, and `ConfirmPods`,
`ConfirmClaims` and `ConfirmRest` read everything once more. The sandbox operator
may create a sandbox and Pods whenever a claim exists, with or without the
labels; the garbage collector removes what has lost its owner. A release
(`releaseSandboxClaimPod`, `releaseSandboxClaim`) may happen at any time, which
is more than the workflow does.

### How `SandboxAccess` corresponds to the code

`launch` is the worker: `Setup` lists the calls of `SandboxManager.Create` in
order, each an action (`ensureSA` to `createBarePod`), followed by the owner
references (`SetOwners`) and `patchSandboxInfo`. An error before the Pod deletes
what was made (`cleanupOnCreateFailure`) and may be retried three times; one
after it deletes nothing. A grant knows its owners, and an input the launch it was
made for, because a launch keeps what it finds. The execution's Role and binding in
a namespace are one grant, so `Namespaces` are kinds of grants; `Options` are the
selectable options by the access they need. `run.noted` is the annotation that names
the namespaces: `PersistNamespaces` replaces it at each execution (an option without
namespaces leaves it), and every clean-up looks only where it points, a failing
Create where its run in memory points (`Known`). `release` is the Pod handler, which
settles a step and deletes the Pod and then the grants. `handleFailed`,
`handleTerminalCleanup`, `StampTerminalTime` and `LabelTerminalRun` are the
terminal part of the reconciler, `ReleaseDeleted` and `handleTemplogCleanup` its
deletion part (a broken spoke keeps the finalizer, but Pods and kubeconfigs are
deleted all the same), `sweepExpiredRuns` the hourly sweep. Two steps stand for four:
verification and escalation are launched and released like the analysis. The
approval is `RunWorkflow`'s. The annotation that preserves a failed sandbox and the
deletion of a stopped run are left to `RunWorkflow` and `SuspensionCleanup`.

Leaks the model shows and the property therefore excludes: a crash or error
before the owner references are set leaves the service account, reader bindings
and result role of an unrecorded analysis; a crash before the namespaces are
persisted leaves the roles in them. Two need no fault, only a revision: a revision of
an executing run followed by an execution of another option overwrites the
annotation, and the roles in namespaces it named before stay; a launch that adopts a
Pod whose input has been collected makes a result role and then stops at the missing
input, so the role has no owner and nobody deletes it. Without a fault and without a
revision nothing is left.

### Bounds

`RunWorkflow`: `MaxGeneration` bounds the edits of the spec, `MaxSuspensions` the
activations, `MaxFaults` the faults (crash, failed patch, failed launch, failed
release, failed resolution) of one behaviour, `MaxLag` the number of Pods whose
last change the informer has not delivered, `Decisions` what the user may
decide, `Reports` what an agent may report (success, success without action,
failure).

`SuspensionController`: `Workers` is the concurrency of the run controller,
`MaxChanges` bounds changes of the configuration and deletions of runs,
`MaxUpsets` failed calls, crashes and revisions.

`SuspensionCleanup`: `MaxUID` bounds the claims, sandboxes and Pods created under
one name, `MaxFaults` failed calls, superseded and abandoned passes and spoiled
labels. `SandboxAccess`: `MaxLaunch` bounds the launches, where each fault counts as
`FaultWeight` (two) of them, `MaxRevisions` the feedback given, `MaxFaults` failed
calls, crashes and changes of the spoke.

The code bounds none of these; the proofs hold for every value.

## Runs

Deadlock is checked in the two clean-up runs. Elsewhere a run that is finished
or gone, or that waits for the user, has nothing to do.

| Run | Instance | Checks | Shows |
|---|---|---|---|
| `workflow` | execution and/or verification, manual execution gate, approve and deny, no fault | `TypeOK`, `GateRespected`, `StepsInOrder`, `TimeoutWins` | with lagging caches and timeouts racing late results the gates and the order hold, and a timed-out step never becomes a success |
| `revision` | analysis, with or without execution, one edit of the spec at any moment | `SuccessLinkedOnce`, `NoReexecution` | the two actors that complete a Pod never link one CR as a success twice; an execution that reported success is repeated only by a revision |
| `restart` | analysis and execution, one fault anywhere | `StepsInOrder`, `NoReexecution`, `PodSettlesStep` | a crash, a lost patch or a failed launch neither reorders the steps, nor repeats a reported execution, nor leaves a step with a Pod in progress |
| `stop` | analysis only, one activation, one edit of the spec, one fault, sandboxes not preserved, agents that succeed | `StopIsFinal`, `ImplementsGlobalStop`, `StopReachesOutcome`, `StopCleansUp` | acceptance is final but for one revision that began before it; the run implements the abstract stop with two controllers and two goroutines at work, gets its outcome and loses its Pods, also after an early resumption and after such a revision |
| `suspension` | two runs, one remote, one worker, two changes by the administrator, one failure, crash or revision | `TypeOK`, `RemoteWorkBlocksResumption`, `ImplementsSafeSuspension`, `SuspensionSettles` | safe means stopped, also for an activation edited or lifted in the middle of a pass; remote work blocks it, but for a revision the reporting pass could not see; a lasting suspension is reported safe |
| `cleanup` | one cleaner, a pool, sandbox and Pod replaced once, one fault | `TypeOK`, `ConfirmedPassStopsWork`, `ForeignPodUntouched`, `WorkloadRemoved` | a confirmed pass means what it says and touches nothing foreign; passes get rid of the workload |
| `cleanup_pair` | two passes at once, the Pod replaced once | `ConfirmedPassStopsWork`, `CompletedPodKept` | passes do not confirm each other's unfinished work, and a completed Pod is kept |
| `access` | an execution on the hub, an analysis on a spoke, two namespaces, an option for both and one for one of them, four launches, one revision, one fault | `TypeOK`, `DeletedRunLeavesNothing`, `DeletionCompletes`, `TerminalRunExpires` | what a deleted run may leave behind, that deletion ends also with a Collector that never answers, that terminal runs expire |

`workflow` runs all four steps (escalation follows a failed verification), so
each handler of a phase is exercised. The launch and the completion are the same
code for every step, so `revision` and `restart` use two of them, and one edit
puts a Pod of the old spec beside one of the new. One fault suffices to break any
sequence of API calls once; one activation with a resumption contains acceptance
before, during and after the window. The stop path treats the steps alike, hence
one step. In `stop` no gate opens, so that a run ends by its one fault, the failed
resolution of its agents, is stamped and labelled, and the feedback of its one edit
revises it, which needs no gate (see `v_gate`): the Pods are those of the revision,
and the stop may be accepted before, between or after its two patches.

In `suspension`, two runs let a pass fail at one and go on with the other, and
two changes are enough to suspend and then edit, resume or delete in the middle
of a pass; the proofs cover the rest. In `cleanup`, one replacement
of each object is what a UID check must tell apart. In `access`, four launches are
analysis and execution, a revision, and an execution of the other option; a run that
meets a fault has two launches left for the retry or the next step.

### Findings

Four runs state what a document of the repository says and end with a
counterexample. All are recorded as divergences of document and code.

* `v_terminal` (`run-lifecycle.md`: terminal phases are final).
  `patchStepResult` writes over whatever was written since `completeStep`
  validated its result. `failStep` does not take the mutex, so a Failed run can
  come back to life. The same race can link one CR twice, as a failure and as a
  success, which is why `SuccessLinkedOnce` speaks of successes only.
* `v_settles` (`reconciler.md`: a step in progress without a Pod gets one). A
  crash between the condition and the Pod leaves nothing that acts. `restart`
  shows that this is the gap: with a Pod, the step is settled.
* `v_gate` (`approval.md`: analysis passes its gate). After a failed resolution,
  feedback starts an analysis through `handleRevision`, which does not look at
  the gate. `GateRespected` states and proves the gate of the other three steps.
* `v_input` (`handlers.go`, `run-lifecycle.md`: a revision is analysed with its
  feedback). The input ConfigMap is named after step and run; if the one of the
  first analysis has not been collected yet, `createInputConfigMap` keeps it, and
  the Pod of the revision reads the old input. No fault is needed.

Other divergences met while modelling, without a run of their own:

* Progress and completion of an analysis on the old spec stamp `Analyzed` with
  the current generation (`pod_handler.go:357`, `:394`), so feedback written
  during an analysis is lost, although `crd-api.md` says it triggers another one.
* `completeStep` validates the result once, through the cache, and fails a
  succeeded Pod whose result is not there yet; `sandbox-execution.md:102` gives
  it ten seconds.
* The sandbox operator may put an unlabelled Pod in the place of a completed one
  while its sandbox is being orphaned. Neither a label nor an owner leads to it,
  and no later pass finds it (`Forgotten` in `SuspensionCleanup`).
* After an error that follows the creation of the Pod, `launchSandbox` calls
  `Create` again. If that attempt fails before it adopts the Pod, its clean-up
  deletes the dependencies of the running Pod, which the comment at
  `sandbox_manager.go:280` rules out. It takes two failures.

* `agenticolsconfig/reconciler.go:512` says that the mark on a terminal run "preserves
  its workflow outcome while preventing later revision", and `run-lifecycle.md` (6b)
  that "historical terminal phases are preserved". A labelled run whose revision began
  before the mark is revised after it: the label patch picks the mark up and the
  status patch does not look at it. The run is Analyzing again, under a stop that is
  accepted or has its outcome, and nothing revises it a second time. `StopIsFinal` and
  `GlobalStop` state this exception.
* The same revision may bring up evidence of remote work (`system-config.md:62`)
  beside `SafeToResume=True`, until the next report withdraws the condition.
  `RemoteWorkBlocksResumption` states it.
* `rbac.go:437` says that `cleanupExecutionRBAC` "removes all RBAC resources and the
  per-run SA created for a run's execution". After a revision and an execution of
  another option it removes those of the last one. `DeletedRunLeavesNothing` states
  what stays.

## Fairness

Liveness is checked under assumptions that are no more than the property needs.

* `StopFairness`: weak fairness of the worker (the queue serves a run that is
  requeued; a pass that is not confirmed and a launch that meets the stop requeue
  it, and a Pod that appears after a confirmed pass enqueues it through
  `handlePodEvent`), of the clock, and strong
  fairness of a clean-up pass that finds every Pod gone, i.e. the cluster can
  delete Pods and does not fail every pass. The ticker and the configuration
  controller get none: the worker alone must come to the end.
* `StepFairness`: weak fairness of the worker, the informer goroutine, the
  ticker and the refresh of the approval, strong fairness of the delivery of Pod
  changes (a Pod may change again before delivery, which the informer
  coalesces). The ticker's fairness stands for a deadline that passes in the
  end. It assumes that the agent of the step can still be resolved: the code
  skips a Pod whose agent cannot (a hazard listed without a property).

* `SuspensionController`: weak fairness of the pass (the controller requeues
  itself while an activation lasts), of the clock, of a call that is on its way
  and of the outcome of each run, which is what `StopReachesOutcome` shows.
* `SuspensionCleanup`: weak fairness of the pass (repeated for as long as the stop
  is open) and of the garbage collector; none of the sandbox operator.
* `SandboxAccess`: weak fairness of the union of the worker, the sweep, the
  passing of the deadline, the removal of Pods and the garbage collector. One
  condition is enough since none of them can go on for ever without the others
  getting their turn.

No fairness is assumed of users, agents, Pods or faults.

## Proofs

The theorems about `RunWorkflow` hold for every constant that satisfies
`ShapesAssumption`, `PolicyAssumption` and `BoundsAssumption`: any policy, any
decisions, any number of edits, activations and faults, any lag. Those about
`SuspensionController` hold under `ControllerAssumption`: any set of runs, any
number of workers, changes and upsets. Those about `SuspensionCleanup` hold under
`CleanupAssumption`: any set of passes at once, any kinds of labelled objects, any
number of replacements and faults. Those about `SandboxAccess` hold under
`AccessAssumption`: any of the four kinds of runs, any namespaces and options, any
number of launches, revisions and faults.

About `RunWorkflow`:

* `TypeCorrect`: `Spec => []TypeOK`. `TypeOK` is inductive; one lemma per group
  of actions.
* `GateRespectedAlways`: `Spec => []GateRespected`. Not inductive by itself: a
  Pod is created several actions after the gate was looked at, and the gate was
  looked at in a cache. `GateInv` adds that the cache is never ahead of the
  server (what it shows as approved is approved or revoked there), that a missing
  approval is missing for all steps, and that a launch under way is behind an
  open gate. Decisions never close a gate that was open (`ApprovalStep`).
* `StopIsFinalAlways`: `Spec => StopIsFinal`. The lemma `CondStep` classifies
  every step of every actor by what it does to the conditions: nothing, a
  workflow write (only when no stop is accepted), accepting, deciding, or the status
  patch of a labelled revision, the one write that may meet an accepted stop
  (`RevisingWrites`: it leaves the stop alone). `StopIsFinal` follows from the
  classification, with `OutcomeIsFinal` for what stays fixed after an outcome and
  `HandlePhaseRevises` for where a revision may begin.
* `ImplementsGlobalStopAlways`: `Spec => ImplementsGlobalStop`. The same
  classification, one class per abstract action. It needs `StopInv`, that the
  Stopping condition alone tells the stage, and the lemmas on the phase an
  outcome leads to (`OutcomePhase` for an active run, `TerminalOutcomePhase` for
  one that was terminal when it was marked).

About the order of the steps of `RunWorkflow` (`RunOrderProofs`):

* `TimeoutWinsAlways`: `Spec => TimeoutWins`. A handler writes an outcome it
  decided on two calls earlier. `MutexInv` is `stepCondMu`: event handler and
  ticker never settle at the same time. `TimeoutInv` adds that a handler about to
  write an outcome does so on a step nobody has timed out.
* `SuccessLinkedOnceAlways`: `Spec => []SuccessLinkedOnce`. `failStep` adds to the
  same list without the mutex. `LinkInv` says that no entry is listed before its
  index, so the index a handler settled on is new to the list however many entries
  have been added meanwhile.
* `StepsInOrderAlways`: `Spec => []StepsInOrder`. `OrderInv` says that whatever is
  under way for a step (its Pod, a launch, a handler at work on it, a condition in
  progress) has been earned by a report of the step before. Reports are never
  withdrawn.
* `NoReexecutionAlways`: `Spec => NoReexecution`. `ExecInv` says that as long as an
  execution or its report is around the `Executed` condition keeps the worker from
  starting another one; `GenInv`, that neither an analysis nor a report is newer
  than the spec. The property is about reports of success, and about analyses *at
  least as new* as the spec that was executed: `failStep` makes a failure CR for a
  launch that may be repeated, and feedback given before the execution began can
  revise an execution of the same generation after a suspension.

About `SuspensionController`:

* `TypeCorrect`: `Spec => []TypeOK`, which is inductive.
* `ImplementsSafeSuspensionAlways`: `Spec => ImplementsSafeSuspension`. Every
  step maps to a step of the abstract specification or to a stutter; the hard
  one is the report. A pass decides from notes it took many calls ago, so the
  inductive invariant `SafetyInv` says how the notes relate to the world:
  the conditions are never ahead of the generation (`ConditionsBehind`), and, as
  long as the activation of the pass is the present one (`PassKeepsTrack`), what
  is owed is still at work, each owed run is on the list to be marked or has left
  a problem among the findings, and each owed Pod is gone from the clean-up on or
  has done so. `SafeMeansSettled` concludes that a clean report owes nothing.
* `RemoteWorkBlocksResumptionAlways`: `Spec => []RemoteWorkBlocksResumption`.
  `RemoteWork` is the remote runs that carry evidence and those that may still begin a
  step. During a suspension it grows by revisions only, and `RemoteInv` says that under
  the present activation each run of it is on the list of the pass, or among its
  findings, or was revised since the pass began. The exception of the property is
  what remains of the last of these after the report.

About `SuspensionCleanup`:

* `TypeCorrect`: `Spec => []TypeOK`, which is inductive; the notes a pass hands
  from call to call have a lemma for each way they are rewritten.
* `ForeignPodUntouchedAlways`: `Spec => ForeignPodUntouched`. A Pod is deleted a
  call after it was judged, and by then another may have its name. `ForeignInv`
  says that a foreign Pod has neither the run's label nor an owner, that no UID is
  above the last one given out, and that the Pod a pass is about to delete is the
  run's if it still is the one that was read (`PassKnowsPod`). A pass that judges a
  Pod by its owner knows a sandbox: without that, a Pod with no owner would be
  taken for the Pod of no sandbox. `PassStep` keeps the notes of the other passes.
* `ConfirmedPassStopsWorkAlways`: `Spec => []ConfirmedPassStopsWork`, and
  `CompletedPodKeptAlways`: `Spec => CompletedPodKept` (`CleanupConfirmProofs`).
  Both rest on `ConfirmInv`. `ObjectInv`, about the cluster: UIDs have been given
  out, a label is never lost, a sandbox that orphans is labelled. `PassInv`, about
  each pass: the identity is saved before anything under the sandbox is touched
  (`Marked`); the objects listed are deleted if the pass can still be confirmed
  (`Emptied`); an active Pod that was listed is lost to everybody, or labelled so
  that the confirmation will see it, or still to be dealt with (`Stopping`); a
  completed Pod is recognised as such before its sandbox goes (`Keeping`), and its
  claim goes only when the sandbox orphans or is gone (`Sparing`). `ObjectsMove`
  says what any step does to the objects; `PassStable` shows that the notes of a
  pass stay right under it, `OwnStep` that the pass itself keeps them.

About `SandboxAccess` (`SandboxAccessProofs`):

* `AccessTypeCorrect`: `Spec => []TypeOK`. Needs `LaunchInv`: the next call of a
  launch is one of the calls of `Create` (lemmas on `Setup`), and a launch under
  way is counted, so that the UID of a new Pod is not 0.
* `DeletedRunLeavesNothingAlways`: `Spec => []DeletedRunLeavesNothing`, by
  `AccessInv`. `FinalizerInv`: the finalizers come together, go in order and are
  there whenever the worker is inside a launch or a terminal clean-up; records are
  left only after the last attempt. `GrantInv`: without the finalizer `rbac` there
  is no cluster role, nor a role the annotation names, unless the spoke is missing;
  inputs and kubeconfigs always have an owner. `Faultless`, for as long as nothing has
  failed: the first analysis has not begun, or is at a known call of its launch with
  all it has made so far, or is recorded (`FirstLaunch`), so that the release by
  recorded steps misses nothing it can still name (`AccessRemoved`). `OnceEach`, for as
  long as there was no revision either: each step waits with nothing, or is at a known
  call of its one launch, or is past it with an owner for its result role and all its
  roles noted. `GrantMove`, `RunMove` and `StageMove` say what any step does to the
  access, to the run and to its stage.

Only model-checked: the liveness properties (`PodSettlesStep`,
`StopReachesOutcome`, `StopCleansUp`, `SuspensionSettles`, `WorkloadRemoved`,
`DeletionCompletes`, `TerminalRunExpires`), which the prover cannot reach. Every
invariant and action property of the passing runs is a theorem.

## Not modelled

* The timeout of a SandboxClaim that has no Pod yet, and completion of steps in
  SandboxClaim mode: the Pod handler and the ticker are modelled on bare Pods.
* Deletion of a run whose stop is open; the template of a sandbox.
* Clean-up of several runs in one global pass: `SuspensionCleanup` has one run,
  since passes decide run by run. The order of the kinds of labelled objects.
* The limit of 20 results per step, and changes of the policy during a run.
* Which agent or provider is chosen, Pod specs, schemas, prompts, the rules in a
  role, audit spans, the approver webhook, tracing and configuration packages, CLI
  output, start-up: data and I/O that no decision of the controllers reads, and
  deep copies, which are generated.

## Plan

1. SandboxClaim mode in `RunWorkflow`; deletion of a run whose stop is open.
2. Several runs in one global clean-up pass.
3. The limit of 20 results per step.
