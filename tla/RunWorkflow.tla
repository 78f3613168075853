---------------------------- MODULE RunWorkflow ----------------------------
(***************************************************************************)
(* The AgenticRun controller driving one run: the reconcile worker, the    *)
(* Pod event handler, the timeout ticker and the global-stop path, acting  *)
(* on one run object, its approval, its sandbox Pods and its Result CRs.   *)
(*                                                                         *)
(* Every status patch of the run carries an optimistic lock, so a read of  *)
(* the run followed by its patch is ONE action: the patch succeeds only    *)
(* when nothing changed since the read.  Two reads are two actions.  What  *)
(* the worker does between patches (creating the Pod, recording its name)  *)
(* is one action per API call that another actor can observe.              *)
(***************************************************************************)
EXTENDS RunConditions, Naturals, Sequences, FiniteSets

CONSTANTS
    Shapes,         \* the workflow shapes to check: sets of optional steps
    Policy,         \* ApprovalPolicy: step -> "Automatic", "Manual", "Unset"
    Preserve,       \* the preserve-sandbox annotation of the run
    MaxGeneration,  \* bound on metadata.generation (edits by the user)
    MaxSuspensions, \* bound on how often the administrator suspends
    MaxFaults,      \* bound on API errors, failed launches and crashes
    MaxLag,         \* bound on the Pods whose last change is not yet seen
    Decisions,      \* approval decisions the user may take: <<step, decision>>
    Reports         \* the outcomes agents report

ASSUME ShapesAssumption ==
    Shapes \subseteq SUBSET {"execution", "verification"}
ASSUME PolicyAssumption ==
    Policy \in [Steps -> {"Automatic", "Manual", "Unset"}]
ASSUME BoundsAssumption ==
    /\ Preserve \in BOOLEAN
    /\ MaxGeneration \in Nat \ {0}
    /\ MaxSuspensions \in Nat
    /\ MaxFaults \in Nat
    /\ MaxLag \in Nat \ {0}
    /\ Decisions \subseteq Steps \X {"approved", "denied"}
    /\ Reports \subseteq {"ok", "noaction", "agentfailed"}

VARIABLES
    shape,        \* the optional steps in spec (immutable)
    gen,          \* metadata.generation
    feedback,     \* spec.revisionFeedback is set
    cond,         \* status.conditions
    analyzedGen,  \* observedGeneration of the Analyzed condition
    claim,        \* status.steps[s].sandbox.claimName is set
    results,      \* status.steps[s].results: the linked CRs, with an outcome
    stamped,      \* status.terminalTime and status.deleteAfter are set
    label,        \* the ttl-managed label
    approval,     \* AgenticRunApproval.spec.stages on the API server
    seen,         \* the same, as the controller's cache has it
    suspension,   \* AgenticOLSConfig: "off", "requested", "current"
    suspensions,  \* how often it was switched on
    windowOpen,   \* the stop window has not run out
    pod,          \* the sandbox Pod of each step
    view,         \* the same, as the informer cache has it
    cr,           \* the Result CRs: every version that was written
    worker,       \* the reconcile worker inside a launch
    stopper,      \* the global-stop path, on the worker and on the ticker
    job,          \* the Pod event handler and the timeout ticker
    faults        \* faults still allowed

specVars   == <<shape, gen, feedback>>
statusVars == <<cond, analyzedGen, claim, results>>
ttlVars    == <<stamped, label>>
userVars   == <<approval, seen>>
stopVars   == <<suspension, suspensions, windowOpen>>
podVars    == <<pod, view>>
vars == <<specVars, statusVars, ttlVars, userVars, stopVars, podVars, cr,
          worker, stopper, job, faults>>

----------------------------------------------------------------------------
Decision == {"missing", "none", "approved", "denied", "revoked"}

PodPhases == {"Pending", "Running", "Succeeded", "Failed"}

\* gen and idx are the generation and the result index of the Pod's input.
LivePod == [ph : PodPhases, del : BOOLEAN, gen : Nat, idx : Nat]

NoPod == [ph |-> "None", del |-> FALSE, gen |-> 0, idx |-> 0]

Pod == LivePod \cup {NoPod}

Outcomes == {"ok", "noaction", "agentfailed"}

\* A linked CR is named by its index.
StepResultRef == [idx : Nat, out : {"succeeded", "failed"}]

ResultCR == [step : Steps, idx : Nat, out : Outcomes, gen : Nat]

Actors == {"worker", "ticker"}
Handlers == {"events", "ticker"}

WorkerPCs == {"boot", "idle", "unresolved", "revise", "launch", "create", "await",
              "info", "fail"}
Worker == [pc : WorkerPCs, step : Steps, gen : Nat, idx : Nat]
WorkerIdle == [pc |-> "idle", step |-> "analysis", gen |-> 0, idx |-> 0]

JobPCs == {"idle", "progress", "complete", "patch", "release"}
Job == [pc : JobPCs, step : Steps, ph : PodPhases \cup {"Timeout"},
        out : Outcomes \cup {"failed"}, idx : Nat]
JobIdle == [pc |-> "idle", step |-> "analysis", ph |-> "Pending",
            out |-> "failed", idx |-> 0]

StopPCs == {"idle", "cleanup", "confirmed", "unconfirmed", "record"}

TypeOK ==
    /\ shape \in Shapes
    /\ gen \in Nat /\ feedback \in BOOLEAN
    /\ cond \in [ConditionTypes -> Condition]
    /\ analyzedGen \in Nat
    /\ claim \in [Steps -> BOOLEAN]
    /\ results \in [Steps -> Seq(StepResultRef)]
    /\ stamped \in BOOLEAN /\ label \in BOOLEAN
    /\ approval \in [Steps -> Decision] /\ seen \in [Steps -> Decision]
    /\ suspension \in {"off", "requested", "current"}
    /\ suspensions \in Nat /\ windowOpen \in BOOLEAN
    /\ pod \in [Steps -> Pod] /\ view \in [Steps -> Pod]
    /\ cr \subseteq ResultCR
    /\ worker \in Worker
    /\ stopper \in [Actors -> StopPCs]
    /\ job \in [Handlers -> Job]
    /\ faults \in Nat

Init ==
    /\ shape \in Shapes
    /\ gen = 1 /\ feedback = FALSE
    /\ cond = NoConditions /\ analyzedGen = 0
    /\ claim = [s \in Steps |-> FALSE]
    /\ results = [s \in Steps |-> <<>>]
    /\ stamped = FALSE /\ label = FALSE
    /\ approval = [s \in Steps |-> "missing"] /\ seen = approval
    /\ suspension = "off" /\ suspensions = 0 /\ windowOpen = FALSE
    /\ pod = [s \in Steps |-> NoPod] /\ view = pod
    /\ cr = {}
    /\ worker = WorkerIdle
    /\ stopper = [a \in Actors |-> "idle"]
    /\ job = [h \in Handlers |-> JobIdle]
    /\ faults = MaxFaults

----------------------------------------------------------------------------
(* What the handlers compute from the objects they read.                    *)

Phase == DerivePhase(cond)

RunnableForgetsStop == suspension = "off"

\* readRunnableRun: the guard before every workflow step and late write.
Runnable == ~HasAcceptedStop(cond) /\ suspension = "off"

needsRevision ==
    feedback /\ cond["Analyzed"].st # "Absent" /\ gen > analyzedGen

\* Terminal phases that revision feedback may reopen.
Revisable ==
    \/ Phase = "Completed" /\ (isNoActionRequired(cond) \/ "execution" \notin shape)
    \/ Phase = "Failed" /\ "execution" \notin shape

Active == ~isTerminal(Phase) \/ (Revisable /\ needsRevision)

isStageDenied(s) == seen[s] \in {"denied", "revoked"}

PolicyOpens(s) ==
    Policy[s] = "Automatic" \/ (s = "escalation" /\ Policy[s] # "Manual")

isStageApprovedByDefault(s) == seen[s] # "denied" \/ PolicyOpens(s)

isStageApproved(s) == seen[s] = "approved" \/ PolicyOpens(s)

nextResultIndexOffByTwo(s) == Len(results[s]) - 1

nextResultIndex(s) == Len(results[s]) + 1

Fault == faults > 0 /\ faults' = faults - 1

\* A status patch that sets condition t; Analyzed remembers the generation.
SetCondition(t, c) ==
    /\ cond' = [cond EXCEPT ![t] = c]
    /\ analyzedGen' = IF t = "Analyzed" THEN gen ELSE analyzedGen

LinkResult(s, i, out) ==
    results' = [results EXCEPT ![s] = Append(@, [idx |-> i, out |-> out])]

Deleting(S) ==
    [s \in Steps |-> IF s \in S /\ pod[s] # NoPod
                     THEN [pod[s] EXCEPT !.del = TRUE] ELSE pod[s]]

----------------------------------------------------------------------------
(* The reconcile worker.                                                    *)

Reconciling ==
    worker.pc = "idle" /\ stopper["worker"] = "idle" /\ Runnable

\* Beyond the terminal switch, with the approval at hand.
Dispatching == Reconciling /\ Active /\ seen["analysis"] # "missing"

ensureAgenticRunApproval ==
    /\ Reconciling /\ Active /\ approval["analysis"] = "missing"
    /\ approval' = [s \in Steps |->
          IF /\ Policy[s] = "Automatic" /\ s # "escalation"
             /\ s \in shape \cup {"analysis"}
          THEN "approved" ELSE "none"]
    /\ seen' = approval'
    /\ UNCHANGED <<specVars, statusVars, ttlVars, stopVars, podVars, cr,
                   worker, stopper, job, faults>>

\* An agent, a provider or a secret the run names is missing.
ResolutionFails ==
    /\ Dispatching /\ Fault
    /\ worker' = [WorkerIdle EXCEPT !.pc = "unresolved"]
    /\ UNCHANGED <<specVars, statusVars, ttlVars, userVars, stopVars, podVars,
                   cr, stopper, job>>

\* The run is read again; in which phase it is by now is not looked at.
RecordResolutionFailure ==
    /\ worker.pc = "unresolved" /\ Runnable
    /\ SetCondition("Analyzed", Cond("False", "WorkflowFailed"))
    /\ worker' = WorkerIdle
    /\ UNCHANGED <<specVars, claim, results, ttlVars, userVars, stopVars,
                   podVars, cr, stopper, job, faults>>

denyAgenticRun(s) ==
    /\ isStageDenied(s)
    /\ SetCondition("Denied", Cond("True", "UserDenied"))
    /\ UNCHANGED <<claim, results, ttlVars, worker, faults>>

\* The step's condition turns Unknown and the worker goes on to launch it.
StartStep(s) ==
    /\ isStageApproved(s) /\ ~isStageDenied(s)
    /\ SetCondition(stepConditionType(s), Cond("Unknown", "InProgress"))
    /\ worker' = [WorkerIdle EXCEPT !.pc = "launch", !.step = s]
    /\ UNCHANGED <<claim, results, ttlVars, faults>>

\* The step fails before its Pod is created: an override agent or the selected
\* option cannot be read.  failStep is the worker's next action.
StartFails(s) ==
    /\ isStageApproved(s) /\ ~isStageDenied(s) /\ Fault
    /\ worker' = [WorkerIdle EXCEPT !.pc = "fail", !.step = s]
    /\ UNCHANGED <<statusVars, ttlVars>>

handleAnalysis ==
    /\ Phase \in {"Pending", "Analyzing"} /\ ~needsRevision
    /\ \/ denyAgenticRun("analysis")
       \/ cond["Analyzed"].st = "Absent" /\ StartStep("analysis")

SkipExecution ==
    /\ "execution" \notin shape
    /\ cond' = [cond EXCEPT
          !["Executed"] = Cond("True", "Skipped"),
          !["Verified"] = IF "verification" \in shape THEN @
                          ELSE Cond("True", "Skipped")]
    /\ UNCHANGED <<analyzedGen, claim, results, ttlVars, worker, faults>>

handleExecutionAgain ==
    /\ Phase \in {"Proposed", "Executing"} /\ ~needsRevision
    /\ \/ SkipExecution
       \/ /\ "execution" \in shape
          /\ denyAgenticRun("execution") \/ StartStep("execution")

handleExecution ==
    /\ Phase \in {"Proposed", "Executing"} /\ ~needsRevision
    /\ \/ SkipExecution
       \/ /\ "execution" \in shape
          /\ \/ denyAgenticRun("execution")
             \/ /\ cond["Executed"].st = "Absent"
                /\ StartStep("execution") \/ StartFails("execution")

handleVerification ==
    /\ Phase = "Verifying"
    /\ \/ /\ "verification" \notin shape
          /\ SetCondition("Verified", Cond("True", "Skipped"))
          /\ UNCHANGED <<claim, results, ttlVars, worker, faults>>
       \/ /\ "verification" \in shape
          /\ \/ denyAgenticRun("verification")
             \/ cond["Verified"].st # "Unknown" /\ StartStep("verification")

handleEscalation ==
    /\ Phase = "Escalating" /\ ~needsRevision
    /\ \/ denyAgenticRun("escalation")
       \/ /\ cond["Escalated"].rs \notin
                {"InProgress", "Running", "WaitingForSandbox"}
          /\ StartStep("escalation") \/ StartFails("escalation")

\* Every later step is forgotten and the analysis runs again, without passing the
\* approval gate.
Revise ==
    /\ cond' = [cond EXCEPT !["Executed"] = Absent, !["Verified"] = Absent,
                            !["Escalated"] = Absent,
                            !["Analyzed"] = Cond("Unknown", "Revising")]
    /\ analyzedGen' = gen
    /\ claim' = [claim EXCEPT !["execution"] = FALSE, !["verification"] = FALSE]
    /\ stamped' = FALSE
    /\ worker' = [WorkerIdle EXCEPT !.pc = "launch"]
    /\ UNCHANGED <<results, faults>>

\* Feedback newer than the analysis.  The status patch is locked on the run that
\* Reconcile read, unless the run has the ttl-managed label.
handleRevision ==
    /\ Phase # "Verifying" /\ needsRevision /\ cond["Analyzed"].st # "Unknown"
    /\ \/ ~label /\ Revise /\ UNCHANGED label
       \/ /\ label
          /\ worker' = [WorkerIdle EXCEPT !.pc = "revise"]
          /\ UNCHANGED <<statusVars, ttlVars, faults>>

\* The label is removed by a patch without a lock, whose answer is the run as it is
\* by then.  The status patch is locked on that answer: neither a stop nor the
\* suspension is looked at again.
ReviseLabelled ==
    /\ worker.pc = "revise"
    /\ \/ label' = FALSE /\ Revise
       \/ \* the run changes between the two patches
          /\ label' = FALSE /\ worker' = WorkerIdle
          /\ UNCHANGED <<statusVars, stamped, faults>>
       \/ \* the first patch fails
          Fault /\ worker' = WorkerIdle /\ UNCHANGED <<statusVars, ttlVars>>
    /\ UNCHANGED <<specVars, userVars, stopVars, podVars, cr, stopper, job>>

HandlePhase ==
    /\ Dispatching
    /\ \/ handleAnalysis \/ handleExecution \/ handleVerification
       \/ handleEscalation \/ handleRevision
    /\ UNCHANGED <<specVars, userVars, stopVars, podVars, cr, stopper, job>>

\* handleTerminalCleanup up to handleTerminalRecord: the Pods whose names are
\* recorded are deleted (on an error they stay), the record is next.
handleTerminalCleanup ==
    /\ Reconciling /\ ~Active
    /\ ~(label /\ stamped) /\ ~(Phase = "Failed" /\ Preserve)
    /\ \/ pod' = Deleting({s \in Steps : claim[s]}) /\ UNCHANGED faults
       \/ pod' = pod /\ Fault
    /\ stopper' = [stopper EXCEPT !["worker"] = "record"]
    /\ UNCHANGED <<specVars, statusVars, ttlVars, userVars, stopVars, view, cr,
                   worker, job>>

\* The deadline is stamped once; the label follows in a patch of its own.
handleTerminalRecord(a) ==
    /\ stopper[a] = "record"
    /\ stopper' = [stopper EXCEPT ![a] = "idle"]
    /\ \/ stamped' = TRUE /\ label' = TRUE /\ UNCHANGED faults
       \/ stamped' \in {stamped, TRUE} /\ label' = label /\ Fault
    /\ UNCHANGED <<specVars, statusVars, userVars, stopVars, podVars, cr,
                   worker, job>>

----------------------------------------------------------------------------
(* Launching a sandbox: SandboxManager.Create and patchSandboxInfo.         *)

Launching(pc) ==
    /\ worker.pc = pc
    /\ UNCHANGED <<specVars, ttlVars, userVars, stopVars, view, stopper, job>>

\* readRunnableRun refuses: the handler returns and the run is requeued.
LaunchStopped ==
    /\ worker.pc \in {"unresolved", "launch", "info", "fail"} /\ ~Runnable
    /\ worker' = WorkerIdle
    /\ UNCHANGED <<specVars, statusVars, ttlVars, userVars, stopVars, podVars,
                   cr, stopper, job, faults>>

LaunchFails ==
    /\ Launching(worker.pc) /\ worker.pc \in {"launch", "create", "await", "info"}
    /\ Fault
    /\ worker' = [worker EXCEPT !.pc = "fail"]
    /\ UNCHANGED <<statusVars, pod, cr>>

\* Create reads the run again; the input ConfigMap is built from that read.
PrepareSandbox ==
    /\ Launching("launch") /\ Runnable
    /\ worker' = [worker EXCEPT !.pc = "create", !.gen = gen,
                                !.idx = nextResultIndex(worker.step)]
    /\ UNCHANGED <<statusVars, pod, cr, faults>>

NewPod == [ph |-> "Pending", del |-> FALSE, gen |-> worker.gen, idx |-> worker.idx]

\* The Create call.  A Pod of that name may exist; whether it is being deleted
\* is read from the cache.
createBarePod ==
    /\ Launching("create")
    /\ LET s == worker.step IN
       \/ /\ pod[s] = NoPod
          /\ pod' = [pod EXCEPT ![s] = NewPod]
          /\ worker' = [worker EXCEPT !.pc = "info"]
       \/ /\ pod[s] # NoPod
          /\ worker' = [worker EXCEPT !.pc = IF view[s] = NoPod THEN "fail"
                                             ELSE IF view[s].del THEN "await"
                                             ELSE "info"]
          /\ UNCHANGED pod
    /\ UNCHANGED <<statusVars, cr, faults>>

\* The Pod that was being deleted has left the cache.
AwaitDeletion ==
    /\ Launching("await")
    /\ view[worker.step] = NoPod
    /\ worker' = IF Runnable THEN [worker EXCEPT !.pc = "create"] ELSE WorkerIdle
    /\ UNCHANGED <<statusVars, pod, cr, faults>>

\* waitForPodDeletion gives up after two minutes.
AwaitTimesOut ==
    /\ Launching("await")
    /\ view[worker.step] # NoPod
    /\ worker' = [worker EXCEPT !.pc = "fail"]
    /\ UNCHANGED <<statusVars, pod, cr, faults>>

patchSandboxInfo ==
    /\ Launching("info") /\ Runnable
    /\ claim' = [claim EXCEPT ![worker.step] = TRUE]
    /\ worker' = WorkerIdle
    /\ UNCHANGED <<cond, analyzedGen, results, pod, cr, faults>>

FailureCR(s, i) == [step |-> s, idx |-> i, out |-> "agentfailed", gen |-> gen]

\* A CR that exists already gets a new status.
createIdempotent(c) == cr' = cr \cup {c}

\* A failure CR is created, or an existing one turned into a failure, unless
\* the cache does not have it; it is linked and the condition turns False in
\* one status patch, whose error is only logged.
failStep ==
    /\ Launching("fail") /\ Runnable
    /\ LET s == worker.step
           i == nextResultIndex(s)
           failed == SetCondition(stepConditionType(s), Cond("False", "Failed"))
           existing == \E c \in cr : c.step = s /\ c.idx = i
           created == createIdempotent(FailureCR(s, i))
       IN  \/ created /\ failed /\ LinkResult(s, i, "failed") /\ UNCHANGED faults
           \/ /\ UNCHANGED <<cr, results>> /\ failed
              /\ Fault \/ (existing /\ UNCHANGED faults)
           \/ created /\ UNCHANGED <<cond, analyzedGen, results>> /\ Fault
    /\ worker' = WorkerIdle
    /\ UNCHANGED <<claim, pod>>

----------------------------------------------------------------------------
(* The Pod event handler and the timeout ticker.                            *)

NoMutex(h) == TRUE

\* stepCondMu is held from the first read of completeStep to its return.
MutexFree(h) == \A g \in Handlers \ {h} : job[g].pc \notin {"patch", "release"}

SetJob(h, j) == job' = [job EXCEPT ![h] = j]

\* handlePodEvent up to its own write: the run is read once, and a stopped or
\* terminal run is left alone.
Dispatch(s, ph) ==
    SetJob("events",
           IF Runnable /\ ~isTerminal(Phase)
           THEN [JobIdle EXCEPT !.step = s, !.ph = ph,
                    !.pc = IF ph \in {"Pending", "Running"}
                           THEN "progress" ELSE "complete"]
           ELSE JobIdle)

PodEventFrame ==
    /\ job["events"].pc = "idle"
    /\ UNCHANGED <<specVars, statusVars, ttlVars, userVars, stopVars, pod, cr,
                   worker, stopper, faults>>

\* A created or updated Pod reaches the handler.
PodChanged(s) ==
    /\ PodEventFrame
    /\ view[s] # pod[s] /\ pod[s] # NoPod
    /\ view' = [view EXCEPT ![s] = pod[s]]
    /\ Dispatch(s, pod[s].ph)

\* An update also calls the handler with the old object.
PodChangedOld(s) ==
    /\ PodEventFrame
    /\ view[s] # pod[s] /\ pod[s] # NoPod /\ view[s] # NoPod
    /\ view' = view
    /\ Dispatch(s, view[s].ph)

\* A deletion calls it with the last known object.
PodDeleted(s) ==
    /\ PodEventFrame
    /\ view[s] # NoPod /\ pod[s] = NoPod
    /\ view' = [view EXCEPT ![s] = NoPod]
    /\ Dispatch(s, view[s].ph)

HandlerStep(h, pc) ==
    /\ job[h].pc = pc
    /\ UNCHANGED <<specVars, claim, ttlVars, userVars, stopVars, view, cr,
                   worker, stopper>>

\* patchStepCondition: only an absent or an Unknown condition is written.
patchStepCondition(s, c) ==
    LET t == stepConditionType(s) IN
    IF cond[t].st \in {"True", "False"} \/ cond[t] = c
    THEN UNCHANGED <<cond, analyzedGen>>
    ELSE SetCondition(t, c)

\* A Pod that waits or runs refreshes the condition of its step.
ReportProgress ==
    /\ HandlerStep("events", "progress")
    /\ LET j == job["events"]
           reason == IF j.ph = "Running" THEN "Running" ELSE "WaitingForSandbox"
       IN  \/ /\ Runnable
              /\ patchStepCondition(j.step, Cond("Unknown", reason))
              /\ UNCHANGED faults
           \/ ~Runnable /\ UNCHANGED <<cond, analyzedGen, faults>>
           \/ Fault /\ UNCHANGED <<cond, analyzedGen>>
    /\ SetJob("events", JobIdle)
    /\ UNCHANGED <<results, pod>>

handlePodTimeEventNoTimeout(s) ==
    /\ job["ticker"].pc = "idle" /\ stopper["ticker"] = "idle"
    /\ view[s].ph \in {"Succeeded", "Failed"}
    /\ Runnable /\ isStepInProgress(cond, s)
    /\ SetJob("ticker", [JobIdle EXCEPT !.pc = "complete", !.step = s,
                                        !.ph = view[s].ph])
    /\ UNCHANGED <<specVars, statusVars, ttlVars, userVars, stopVars, podVars,
                   cr, worker, stopper, faults>>

\* The ticker lists the Pods of its cache: a finished Pod whose step is still
\* in progress is completed, a Pod past its deadline is timed out.
handlePodTimeEvent(s) ==
    /\ job["ticker"].pc = "idle" /\ stopper["ticker"] = "idle"
    /\ view[s] # NoPod /\ Runnable /\ isStepInProgress(cond, s)
    /\ SetJob("ticker", [JobIdle EXCEPT !.pc = "complete", !.step = s,
          !.ph = IF view[s].ph \in {"Succeeded", "Failed"}
                 THEN view[s].ph ELSE "Timeout"])
    /\ UNCHANGED <<specVars, statusVars, ttlVars, userVars, stopVars, podVars,
                   cr, worker, stopper, faults>>

validateResultCRTrustsPod(s) == {"ok"}

\* What validateResultCR may find under the step's next index: the cache may not
\* have the CR yet, or have an earlier version.
validateResultCR(s) ==
    {"failed"} \cup
    {c.out : c \in {d \in cr : d.step = s /\ d.idx = nextResultIndex(s)}}

completeStepUnguarded(h) ==
    /\ HandlerStep(h, "complete") /\ MutexFree(h)
    /\ LET s == job[h].step IN
       \/ /\ Runnable
          /\ \E out \in IF job[h].ph = "Succeeded" THEN validateResultCR(s)
                                                   ELSE {"failed"} :
                SetJob(h, [job[h] EXCEPT !.pc = "patch", !.out = out,
                                         !.idx = nextResultIndex(s)])
       \/ ~Runnable /\ SetJob(h, JobIdle)
    /\ UNCHANGED <<cond, analyzedGen, results, pod, faults>>

\* completeStep reads the run and settles on an outcome.
completeStep(h) ==
    /\ HandlerStep(h, "complete") /\ MutexFree(h)
    /\ LET s == job[h].step IN
       \/ /\ Runnable
          /\ cond[stepConditionType(s)].st \in {"Absent", "Unknown"}
          /\ \E out \in IF job[h].ph = "Succeeded" THEN validateResultCR(s)
                                                   ELSE {"failed"} :
                SetJob(h, [job[h] EXCEPT !.pc = "patch", !.out = out,
                                         !.idx = nextResultIndex(s)])
       \/ /\ ~Runnable \/ cond[stepConditionType(s)].st \in {"True", "False"}
          /\ SetJob(h, JobIdle)
    /\ UNCHANGED <<cond, analyzedGen, results, pod, faults>>

FailureReason(ph) == IF ph = "Timeout" THEN "SandboxTimeout" ELSE "SandboxFailed"

\* patchStepResult and patchVerificationFailedEscalating: the run is read again,
\* but its conditions are not looked at.
WriteOutcome(s, j) ==
    CASE j.out = "failed" ->
            /\ patchStepCondition(s, Cond("False", FailureReason(j.ph)))
            /\ UNCHANGED results
      [] j.out \in {"ok", "noaction"} ->
            /\ SetCondition(stepConditionType(s),
                 Cond("True", IF j.out = "noaction" THEN "NoActionRequired"
                              ELSE "Succeeded"))
            /\ LinkResult(s, j.idx, "succeeded")
      [] j.out = "agentfailed" /\ s = "verification" ->
            /\ cond' = [cond EXCEPT
                 !["Verified"]  = Cond("False", "VerificationFailed"),
                 !["Escalated"] = Cond("Unknown", "VerificationFailed")]
            /\ LinkResult(s, j.idx, "failed")
            /\ UNCHANGED analyzedGen
      [] j.out = "agentfailed" /\ s # "verification" ->
            /\ SetCondition(stepConditionType(s), Cond("False", "SandboxFailed"))
            /\ LinkResult(s, j.idx, "failed")

patchStepResult(h) ==
    /\ HandlerStep(h, "patch")
    /\ \/ /\ Runnable
          /\ WriteOutcome(job[h].step, job[h])
          /\ SetJob(h, [job[h] EXCEPT !.pc = "release"])
          /\ UNCHANGED faults
       \/ /\ ~Runnable
          /\ SetJob(h, JobIdle)
          /\ UNCHANGED <<cond, analyzedGen, results, faults>>
       \/ /\ Fault
          /\ SetJob(h, JobIdle)
          /\ UNCHANGED <<cond, analyzedGen, results>>
    /\ UNCHANGED pod

\* The Pod is deleted by name, if the name is recorded; errors are only logged.
releaseSandbox(h) ==
    /\ HandlerStep(h, "release")
    /\ LET s == job[h].step
           kept == Preserve /\ cond[stepConditionType(s)].st = "False"
       IN  \/ /\ pod' = IF Runnable /\ claim[s] /\ ~kept THEN Deleting({s})
                                                         ELSE pod
              /\ UNCHANGED faults
           \/ pod' = pod /\ Fault
    /\ SetJob(h, JobIdle)
    /\ UNCHANGED <<cond, analyzedGen, results>>

----------------------------------------------------------------------------
(* Global stop: handleSuspensionAt, on the worker, or called by the ticker   *)
(* for a run that still has a Pod.                                           *)

StopperReady(a) ==
    /\ stopper[a] = "idle"
    /\ a = "worker" => worker.pc = "idle"
    /\ a = "ticker" => job["ticker"].pc = "idle" /\ \E s \in Steps : view[s] # NoPod

\* Neither Succeeded nor Failed.
activePod(s) == pod[s].ph \in {"Pending", "Running"}

HistoricalTerminal == isTerminal(Phase) /\ ~HasAcceptedStop(cond)

persistRunStopUnchecked(a) ==
    /\ StopperReady(a) /\ suspension = "current" /\ windowOpen
    /\ cond' = [cond EXCEPT !["Stopping"] = Cond("True", "SystemSuspended")]
    /\ stopper' = [stopper EXCEPT ![a] = "cleanup"]
    /\ UNCHANGED <<specVars, analyzedGen, claim, results, ttlVars, userVars,
                   stopVars, podVars, cr, worker, job, faults>>

\* persistRunStop: the stop is accepted inside the activation's window.
persistRunStop(a) ==
    /\ StopperReady(a)
    /\ suspension = "current" /\ windowOpen
    /\ ~isTerminal(Phase) /\ ~HasAcceptedStop(cond)
    /\ cond' = [cond EXCEPT !["Stopping"] = Cond("True", "SystemSuspended")]
    /\ stopper' = [stopper EXCEPT ![a] = "cleanup"]
    /\ UNCHANGED <<specVars, analyzedGen, claim, results, ttlVars, userVars,
                   stopVars, podVars, cr, worker, job, faults>>

\* No step names a sandbox any more.
clearRunSandboxInfo == [s \in Steps |-> FALSE]

\* writeSuspensionOutcome; references are cleared with a confirmed outcome.
writeSuspensionOutcome(confirmed) ==
    /\ cond' = StopOutcome(cond, confirmed)
    /\ analyzedGen' = IF cond'["Analyzed"] # cond["Analyzed"] THEN gen
                      ELSE analyzedGen
    /\ claim' = IF confirmed THEN clearRunSandboxInfo ELSE claim

ResumeCleanupWhileSuspended(a) ==
    /\ StopperReady(a) /\ suspension = "current"
    /\ HasAcceptedStop(cond) \/ isTerminal(Phase)
    /\ IF StopIntent(cond) /\ ~HasFinalStopOutcome(cond) /\ ~windowOpen
       THEN writeSuspensionOutcome(FALSE)
       ELSE UNCHANGED <<cond, analyzedGen, claim>>
    /\ stopper' = [stopper EXCEPT ![a] = "cleanup"]
    /\ UNCHANGED <<specVars, results, ttlVars, userVars, stopVars, podVars, cr,
                   worker, job, faults>>

ResumeCleanupUntilOutcome(a) ==
    /\ StopperReady(a) /\ StopIntent(cond) /\ ~HasFinalStopOutcome(cond)
    /\ IF windowOpen THEN UNCHANGED <<cond, analyzedGen, claim>>
       ELSE writeSuspensionOutcome(FALSE)
    /\ stopper' = [stopper EXCEPT ![a] = "cleanup"]
    /\ UNCHANGED <<specVars, results, ttlVars, userVars, stopVars, podVars, cr,
                   worker, job, faults>>

\* An accepted run, or a terminal run under suspension, is cleaned up again; a
\* run whose window ran out first gets its failed outcome.
ResumeCleanup(a) ==
    /\ StopperReady(a)
    /\ HasAcceptedStop(cond) \/ (suspension = "current" /\ isTerminal(Phase))
    /\ IF StopIntent(cond) /\ ~HasFinalStopOutcome(cond) /\ ~windowOpen
       THEN writeSuspensionOutcome(FALSE)
       ELSE UNCHANGED <<cond, analyzedGen, claim>>
    /\ stopper' = [stopper EXCEPT ![a] = "cleanup"]
    /\ UNCHANGED <<specVars, results, ttlVars, userVars, stopVars, podVars, cr,
                   worker, job, faults>>

\* CleanupSuspension removes the active Pods by the run's label, without grace; a
\* completed Pod stays.  The pass is confirmed only when it saw no active Pod left.
suspensionCleanupPass(a) ==
    /\ stopper[a] = "cleanup"
    /\ \E kept \in SUBSET {s \in Steps : activePod(s)} :
          /\ pod' = [s \in Steps |-> IF activePod(s) /\ s \notin kept THEN NoPod
                                     ELSE pod[s]]
          /\ stopper' = [stopper EXCEPT ![a] =
                            IF kept = {} THEN "confirmed" ELSE "unconfirmed"]
    /\ UNCHANGED <<specVars, statusVars, ttlVars, userVars, stopVars, view, cr,
                   worker, job, faults>>

\* The run is read again and the pass decides: outcome, cleared references, or
\* another pass later.  A terminal run goes on to its terminal record.
FinishPass(a) ==
    /\ stopper[a] \in {"confirmed", "unconfirmed"}
    /\ LET open == StopIntent(cond) /\ ~HasFinalStopOutcome(cond) IN
       CASE open /\ stopper[a] = "confirmed" -> writeSuspensionOutcome(TRUE)
         [] open /\ stopper[a] = "unconfirmed" /\ ~windowOpen ->
               writeSuspensionOutcome(FALSE)
         [] open /\ stopper[a] = "unconfirmed" /\ windowOpen ->
               UNCHANGED <<cond, analyzedGen, claim>>
         [] ~open ->
               /\ claim' = IF /\ stopper[a] = "confirmed"
                              /\ HistoricalTerminal \/ HasFinalStopOutcome(cond)
                           THEN clearRunSandboxInfo ELSE claim
               /\ UNCHANGED <<cond, analyzedGen>>
    /\ stopper' = [stopper EXCEPT ![a] =
          IF isTerminal(DerivePhase(cond')) /\ ~(label /\ stamped)
          THEN "record" ELSE "idle"]
    /\ UNCHANGED <<specVars, results, ttlVars, userVars, stopVars, podVars, cr,
                   worker, job, faults>>

\* The configuration controller marks every run it lists, inside the window or
\* after it; a terminal run too, when its terminal time is missing or not before
\* the start of the activation (both have a precision of one second).
persistRunStopGlobal ==
    /\ suspension = "current" /\ ~HasAcceptedStop(cond)
    /\ cond' = [cond EXCEPT !["Stopping"] = Cond("True", "SystemSuspended")]
    /\ UNCHANGED <<specVars, analyzedGen, claim, results, ttlVars, userVars,
                   stopVars, podVars, cr, worker, stopper, job, faults>>

\* It then removes the active Pods of all runs, of a run it could not mark too.
CleanupSuspension ==
    /\ suspension = "current"
    /\ \E gone \in SUBSET {s \in Steps : activePod(s)} :
          pod' = [s \in Steps |-> IF s \in gone THEN NoPod ELSE pod[s]]
    /\ UNCHANGED <<specVars, statusVars, ttlVars, userVars, stopVars, view, cr,
                   worker, stopper, job, faults>>

----------------------------------------------------------------------------
(* The user, the administrator, the cluster and the process.                *)

\* Revision feedback is written, or another mutable field of spec.
EditSpec ==
    /\ gen < MaxGeneration /\ gen' = gen + 1
    /\ feedback' \in {feedback, TRUE}
    /\ UNCHANGED <<shape, statusVars, ttlVars, userVars, stopVars, podVars, cr,
                   worker, stopper, job, faults>>

\* Stages are append-only and a denial is irrevocable.
Decide(s, d) ==
    /\ \/ approval[s] = "none" /\ approval' = [approval EXCEPT ![s] = d]
       \/ /\ approval[s] = "approved" /\ d = "denied"
          /\ approval' = [approval EXCEPT ![s] = "revoked"]
    /\ UNCHANGED <<specVars, statusVars, ttlVars, seen, stopVars, podVars, cr,
                   worker, stopper, job, faults>>

SyncApproval ==
    /\ seen # approval /\ seen' = approval
    /\ UNCHANGED <<specVars, statusVars, ttlVars, approval, stopVars, podVars,
                   cr, worker, stopper, job, faults>>

Suspend ==
    /\ suspension = "off" /\ suspensions < MaxSuspensions
    /\ suspension' = "requested" /\ suspensions' = suspensions + 1
    /\ UNCHANGED <<specVars, statusVars, ttlVars, userVars, windowOpen, podVars,
                   cr, worker, stopper, job, faults>>

\* The configuration controller records the activation and its start.  A run
\* that already accepted a stop keeps the start it copied.
RecordActivation ==
    /\ suspension = "requested" /\ suspension' = "current"
    /\ windowOpen' = IF StopIntent(cond) THEN windowOpen ELSE TRUE
    /\ UNCHANGED <<specVars, statusVars, ttlVars, userVars, suspensions, podVars,
                   cr, worker, stopper, job, faults>>

Resume ==
    /\ suspension # "off" /\ suspension' = "off"
    /\ UNCHANGED <<specVars, statusVars, ttlVars, userVars, suspensions,
                   windowOpen, podVars, cr, worker, stopper, job, faults>>

WindowElapses ==
    /\ windowOpen /\ windowOpen' = FALSE
    /\ UNCHANGED <<specVars, statusVars, ttlVars, userVars, suspension,
                   suspensions, podVars, cr, worker, stopper, job, faults>>

\* A Pod changes only while the informer is close enough behind the others.
InformerKeepsUp(s) ==
    Cardinality({q \in Steps \ {s} : view[q] # pod[q]}) < MaxLag

OutsideWorld ==
    UNCHANGED <<specVars, statusVars, ttlVars, userVars, stopVars, view,
                worker, stopper, job, faults>>

PodRuns(s) ==
    /\ OutsideWorld /\ UNCHANGED cr /\ InformerKeepsUp(s)
    /\ pod[s].ph = "Pending" /\ ~pod[s].del
    /\ pod' = [pod EXCEPT ![s].ph = "Running"]

\* The agent creates its Result CR under the name its input gives.
AgentReports(s) ==
    /\ OutsideWorld /\ UNCHANGED pod
    /\ pod[s].ph = "Running"
    /\ ~\E c \in cr : c.step = s /\ c.idx = pod[s].idx
    /\ \E out \in Reports :
          /\ out = "noaction" => s = "analysis"
          /\ cr' = cr \cup {[step |-> s, idx |-> pod[s].idx, out |-> out,
                             gen |-> pod[s].gen]}

PodExits(s) ==
    /\ OutsideWorld /\ UNCHANGED cr /\ InformerKeepsUp(s)
    /\ \E ph \in {"Succeeded", "Failed"} :
          /\ pod[s].ph = "Running" \/ (pod[s].ph = "Pending" /\ ph = "Failed")
          /\ pod' = [pod EXCEPT ![s].ph = ph]

PodRemoved(s) ==
    /\ OutsideWorld /\ UNCHANGED cr /\ InformerKeepsUp(s)
    /\ pod[s].del
    /\ pod' = [pod EXCEPT ![s] = NoPod]

\* The process restarts: its goroutines are gone and the informer lists anew.
Crash ==
    /\ worker.pc # "boot" /\ Fault
    /\ worker' = [WorkerIdle EXCEPT !.pc = "boot"]
    /\ stopper' = [a \in Actors |-> "idle"]
    /\ job' = [h \in Handlers |-> JobIdle]
    /\ view' = [s \in Steps |-> NoPod]
    /\ UNCHANGED <<specVars, statusVars, ttlVars, userVars, stopVars, pod, cr>>

\* Workers start once the caches are filled.
Boot ==
    /\ worker.pc = "boot"
    /\ \A s \in Steps : pod[s] # NoPod => view[s] # NoPod
    /\ worker' = WorkerIdle
    /\ UNCHANGED <<specVars, statusVars, ttlVars, userVars, stopVars, podVars,
                   cr, stopper, job, faults>>

----------------------------------------------------------------------------
WorkerNext ==
    \/ ensureAgenticRunApproval \/ ResolutionFails \/ RecordResolutionFailure
    \/ HandlePhase \/ ReviseLabelled \/ handleTerminalCleanup
    \/ LaunchStopped \/ LaunchFails \/ PrepareSandbox \/ createBarePod
    \/ AwaitDeletion \/ AwaitTimesOut \/ patchSandboxInfo \/ failStep
    \/ Boot

HandlerNext ==
    \/ ReportProgress
    \/ \E s \in Steps :
          PodChanged(s) \/ PodChangedOld(s) \/ PodDeleted(s) \/ handlePodTimeEvent(s)
    \/ \E h \in Handlers :
          completeStep(h) \/ patchStepResult(h) \/ releaseSandbox(h)

StopNext ==
    \/ persistRunStopGlobal \/ CleanupSuspension
    \/ \E a \in Actors :
          \/ persistRunStop(a) \/ ResumeCleanup(a) \/ suspensionCleanupPass(a)
          \/ FinishPass(a) \/ handleTerminalRecord(a)

UserNext ==
    \/ EditSpec \/ SyncApproval \/ Suspend \/ RecordActivation \/ Resume
    \/ WindowElapses
    \/ \E d \in Decisions : Decide(d[1], d[2])

ClusterNext ==
    \/ Crash
    \/ \E s \in Steps :
          PodRuns(s) \/ AgentReports(s) \/ PodExits(s) \/ PodRemoved(s)

Next == WorkerNext \/ HandlerNext \/ StopNext \/ UserNext \/ ClusterNext

Spec == Init /\ [][Next]_vars

----------------------------------------------------------------------------
(* Fairness: goroutines and cluster keep running.                           *)

StopProcess(a) ==
    \/ persistRunStop(a) \/ ResumeCleanup(a) \/ suspensionCleanupPass(a)
    \/ FinishPass(a) \/ handleTerminalRecord(a)

\* One worker goroutine serves the run, whatever it has to do next.
WorkerProcess == WorkerNext \/ StopProcess("worker")

EventProcess ==
    \/ ReportProgress
    \/ completeStep("events") \/ patchStepResult("events") \/ releaseSandbox("events")

\* The informer delivers every change in the end.
Delivery == \E s \in Steps : PodChanged(s) \/ PodDeleted(s)

TickerProcess ==
    \/ \E s \in Steps : handlePodTimeEvent(s)
    \/ completeStep("ticker") \/ patchStepResult("ticker") \/ releaseSandbox("ticker")

\* A pass that finds no active Pod: it keeps being tried and the cluster does
\* not withhold it for ever.
CleanupConfirms == suspensionCleanupPass("worker") /\ stopper'["worker"] = "confirmed"

\* What a stop needs to come to its end: the worker, the clock, and a cluster
\* that can delete Pods.
StopFairness ==
    /\ WF_vars(WorkerProcess) /\ WF_vars(WindowElapses)
    /\ SF_vars(CleanupConfirms)

\* What a step needs: also the events of its Pod, the ticker and the caches.
StepFairness ==
    /\ WF_vars(WorkerProcess) /\ WF_vars(EventProcess) /\ SF_vars(Delivery)
    /\ WF_vars(TickerProcess) /\ WF_vars(SyncApproval)

StopFairSpec == Spec /\ StopFairness

StepFairSpec == Spec /\ StepFairness

----------------------------------------------------------------------------
(* Properties.                                                              *)

GateOpened(s) == approval[s] \in {"approved", "revoked"} \/ PolicyOpens(s)

\* A sandbox that can change the cluster, check it or summarise the run exists
\* only after its approval gate was opened by the user or by the policy, however
\* stale the controller's cached approval was (isStageApproved, createBarePod).
GateRespected ==
    \A s \in Steps \ {"analysis"} : pod[s] # NoPod => GateOpened(s)

Reported(s, outs) == \E c \in cr : c.step = s /\ c.out \in outs

\* The steps happen in order across restarts, revisions and late Pods: execution
\* only on an analysis that proposed something, verification only on a reported
\* execution, escalation only on a verification reported as failed (the phase
\* routing of Reconcile on what completeStep wrote).
StepsInOrder ==
    /\ pod["execution"] # NoPod => Reported("analysis", {"ok"})
    /\ pod["verification"] # NoPod =>
          \/ Reported("execution", {"ok"})
          \/ "execution" \notin shape /\ Reported("analysis", {"ok"})
    /\ pod["escalation"] # NoPod => Reported("verification", {"agentfailed"})

\* handleExecution has no retries: work that an execution sandbox reported as done
\* is given to a new sandbox only by a revision, that is after feedback and on an
\* analysis at least as new as the spec that was executed, however Pods are lost,
\* adopted, stopped or resumed in between.
NoReexecution ==
    [][ (pod["execution"] = NoPod /\ pod'["execution"] # NoPod) =>
          \A c \in cr : c.step = "execution" /\ c.out = "ok" =>
             feedback /\ c.gen <= analyzedGen ]_vars

\* No result counts twice as a success (with its token usage), although the Pod
\* handler and the ticker complete the same Pod, Pods are adopted and the same
\* CR may also be linked by failStep (stepCondMu in completeStep).
SuccessLinkedOnce ==
    \A s \in Steps : \A i, j \in DOMAIN results[s] :
       results[s][i] = results[s][j] /\ results[s][i].out = "succeeded" => i = j

\* A timeout racing a late Result CR wins: completeStep never turns a step that
\* was timed out into a successful one.
TimeoutWins ==
    [][ \A t \in WorkflowConditions :
          cond[t] = Cond("False", "SandboxTimeout") => cond'[t].st # "True" ]_vars

\* Once a stop is accepted no late completion, timeout, failed launch or approval
\* moves the run, and no revision begins: its phase changes once, with the stop's
\* outcome (readRunnableRun before every write, HasAcceptedStop in Reconcile).  The
\* one exception is the revision of a labelled run that Reconcile began before: its
\* status patch still reopens the run, once (handleRevision's two patches).
StopIsFinal ==
    [][ HasAcceptedStop(cond) =>
          /\ HasAcceptedStop(cond')
          /\ worker'.pc = "revise" => worker.pc = "revise"
          /\ \/ Phase' = Phase
             \/ ~HasFinalStopOutcome(cond) /\ HasFinalStopOutcome(cond')
             \/ worker.pc = "revise" /\ worker'.pc = "launch" /\ Phase' = "Analyzing" ]_vars

\* An accepted stop reaches a durable outcome, also when the administrator
\* resumes the system first (the accepted branch of Reconcile).
StopReachesOutcome == StopIntent(cond) ~> HasFinalStopOutcome(cond)

\* Whatever Pod a launch still creates behind the stop's back is removed or has
\* come to its own end at last (handleSuspensionAt goes on after the outcome).
StopCleansUp ==
    HasAcceptedStop(cond) ~> [](\A s \in Steps : ~activePod(s))

Waiting(s) == isStepInProgress(cond, s) /\ pod[s] # NoPod

\* A step whose Pod exists does not stay in progress for ever, and the steps do not
\* do so in turn: an event, the ticker's retry or a timeout settles them, unless
\* the run is stopped.
PodSettlesStep ==
    (\E s \in Steps : Waiting(s)) ~> (~\E s \in Steps : Waiting(s)) \/ ~Runnable

\* The stop as GlobalStop specifies it, on the conditions of the run.
stopStage ==
    IF StopIntent(cond) THEN "accepted"
    ELSE IF cond["Stopping"].st # "False" THEN "running"
    ELSE IF cond["Stopping"].rs = "TeardownComplete" THEN "stopped" ELSE "failed"

Stop == INSTANCE GlobalStop WITH
           stage <- stopStage, phase <- Phase, revising <- (worker.pc = "revise")

\* The controllers implement the promise of the global stop: the two
\* persistRunStop and writeSuspensionOutcome are its only steps, and between
\* acceptance and outcome or after it no workflow write moves the run, but for the
\* one revision that was under way.
ImplementsGlobalStop == Stop!Spec

(* What a document says and the code does not keep.                         *)

\* run-lifecycle.md, rule 4: the terminal phases are final, but for revision.
TerminalFinal ==
    [][ isTerminal(Phase) /\ ~(Revisable /\ needsRevision) => Phase' = Phase ]_vars

\* reconciler.md, in-progress idempotency (c): a step in progress without a Pod
\* gets one, so that no step is in progress for ever.
StepSettles ==
    \A s \in Steps : isStepInProgress(cond, s) ~> ~isStepInProgress(cond, s)

\* approval.md, rule 10: analysis passes its gate before it runs.
AnalysisGateRespected == pod["analysis"] # NoPod => GateOpened("analysis")
=============================================================================
