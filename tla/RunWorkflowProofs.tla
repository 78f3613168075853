------------------------- MODULE RunWorkflowProofs -------------------------
(***************************************************************************)
(* Theorems about RunWorkflow, for every choice of its constants.          *)
(***************************************************************************)
EXTENDS RunWorkflow, TLAPS

USE DEF specVars, statusVars, ttlVars, userVars, stopVars, podVars, clearRunSandboxInfo

----------------------------------------------------------------------------
(* The operators the model is built from.                                   *)

\* A step reports on a workflow condition, never on a stop condition.
LEMMA StepConditionIsWorkflow ==
    ASSUME NEW s \in Steps
    PROVE  stepConditionType(s) \in WorkflowConditions
  BY DEF Steps, stepConditionType, WorkflowConditions

\* A failed teardown marks one workflow condition, or none.
LEMMA FailureConditionIsWorkflow ==
    ASSUME NEW p \in Phases
    PROVE  suspensionFailureCondition(p) \subseteq WorkflowConditions
  BY DEF Phases, suspensionFailureCondition, isTerminal, TerminalPhases,
         WorkflowConditions

\* Every list of conditions has a phase.
LEMMA PhaseTyped ==
    ASSUME NEW c \in [ConditionTypes -> Condition]
    PROVE  DerivePhase(c) \in Phases
  <1>1. \A t \in ConditionTypes : c[t].st \in Statuses
    BY DEF Condition
  <1>2. {"Analyzed", "Executed", "Verified"} \subseteq ConditionTypes
    BY DEF ConditionTypes, WorkflowConditions
  <1>3. AnalyzedPhase(c) \in Phases
    BY <1>1, <1>2 DEF AnalyzedPhase, Phases, Statuses
  <1>4. ExecutedPhase(c) \in Phases
    BY <1>1, <1>2, <1>3 DEF ExecutedPhase, Phases, Statuses
  <1>5. VerifiedPhase(c) \in Phases
    BY <1>1, <1>2, <1>4 DEF VerifiedPhase, Phases, Statuses
  <1> QED
    BY <1>5 DEF DerivePhase, Phases

\* The outcome of a stop is a list of conditions again.
LEMMA StopOutcomeTyped ==
    ASSUME NEW c \in [ConditionTypes -> Condition], NEW b \in BOOLEAN
    PROVE  StopOutcome(c, b) \in [ConditionTypes -> Condition]
  BY DEF StopOutcome, ConditionTypes, Condition, Cond, Statuses, Reasons

\* A job that completes is given a step, and so on: the records stay records.
LEMMA DeletingTyped ==
    ASSUME pod \in [Steps -> Pod], NEW S
    PROVE  Deleting(S) \in [Steps -> Pod]
  BY DEF Deleting, Pod, LivePod

----------------------------------------------------------------------------
(* Type correctness.                                                        *)

LEMMA TypeOKInit ==
    ASSUME Init PROVE TypeOK
  <1>1. shape \in Shapes /\ faults \in Nat /\ gen \in Nat /\ analyzedGen \in Nat
    BY BoundsAssumption DEF Init
  <1>2. cond \in [ConditionTypes -> Condition]
    BY DEF Init, NoConditions, Absent, Cond, Condition, Statuses, Reasons
  <1>3. claim \in [Steps -> BOOLEAN] /\ results \in [Steps -> Seq(StepResultRef)]
    BY DEF Init
  <1>4. approval \in [Steps -> Decision] /\ seen \in [Steps -> Decision]
    BY DEF Init, Decision
  <1>5. pod \in [Steps -> Pod] /\ view \in [Steps -> Pod]
    BY DEF Init, Pod
  <1>6. worker \in Worker
    BY DEF Init, WorkerIdle, Worker, WorkerPCs, Steps
  <1>7. stopper \in [Actors -> StopPCs]
    BY DEF Init, StopPCs
  <1>8. job \in [Handlers -> Job]
    BY DEF Init, JobIdle, Job, JobPCs, Steps, PodPhases, Outcomes
  <1> QED
    BY <1>1, <1>2, <1>3, <1>4, <1>5, <1>6, <1>7, <1>8 DEF Init, TypeOK

\* What a status patch writes is typed.
LEMMA SetConditionTyped ==
    ASSUME TypeOK, NEW t \in ConditionTypes, NEW c \in Condition,
           SetCondition(t, c)
    PROVE  cond' \in [ConditionTypes -> Condition] /\ analyzedGen' \in Nat
  BY DEF TypeOK, SetCondition

\* The fault budget stays a number.
LEMMA FaultTyped ==
    ASSUME TypeOK, Fault
    PROVE  faults' \in Nat
  BY DEF TypeOK, Fault

\* Linking a Result CR keeps the lists of results.
LEMMA LinkResultTyped ==
    ASSUME TypeOK, NEW s \in Steps, NEW i \in Nat,
           NEW out \in {"succeeded", "failed"}, LinkResult(s, i, out)
    PROVE  results' \in [Steps -> Seq(StepResultRef)]
  <1>1. [idx |-> i, out |-> out] \in StepResultRef
    BY DEF StepResultRef
  <1> QED
    BY <1>1 DEF TypeOK, LinkResult

\* The next result index is a number.
LEMMA ResultIndexTyped ==
    ASSUME TypeOK, NEW s \in Steps
    PROVE  nextResultIndex(s) \in Nat
  BY DEF TypeOK, nextResultIndex

\* Every workflow condition is a condition type, every reason used is a reason.
LEMMA ConditionValues ==
    /\ WorkflowConditions \subseteq ConditionTypes
    /\ \A st \in Statuses, rs \in Reasons : Cond(st, rs) \in Condition
    /\ Absent \in Condition
  BY DEF WorkflowConditions, ConditionTypes, Cond, Condition, Absent, Statuses,
         Reasons

\* The handlers of the reconcile worker, whose common frame is HandlePhase's.
LEMMA DenyTyped ==
    ASSUME TypeOK, NEW s \in Steps, denyAgenticRun(s)
    PROVE  /\ cond' \in [ConditionTypes -> Condition] /\ analyzedGen' \in Nat
           /\ UNCHANGED <<claim, results, ttlVars, worker, faults>>
  <1>1. "Denied" \in ConditionTypes /\ Cond("True", "UserDenied") \in Condition
    BY ConditionValues DEF ConditionTypes, Statuses, Reasons
  <1> QED
    BY <1>1, SetConditionTyped DEF denyAgenticRun

\* Starting a step, or failing to.
LEMMA StartTyped ==
    ASSUME TypeOK, NEW s \in Steps, StartStep(s) \/ StartFails(s)
    PROVE  /\ cond' \in [ConditionTypes -> Condition] /\ analyzedGen' \in Nat
           /\ worker' \in Worker /\ faults' \in Nat
           /\ UNCHANGED <<claim, results, ttlVars>>
  <1>1. CASE StartStep(s)
    <2>1. /\ stepConditionType(s) \in ConditionTypes
          /\ Cond("Unknown", "InProgress") \in Condition
      BY ConditionValues, StepConditionIsWorkflow DEF Statuses, Reasons
    <2>2. cond' \in [ConditionTypes -> Condition] /\ analyzedGen' \in Nat
      BY <1>1, <2>1, SetConditionTyped DEF StartStep
    <2> QED
      BY <1>1, <2>2 DEF StartStep, TypeOK, Worker, WorkerPCs, WorkerIdle, Steps
  <1>2. CASE StartFails(s)
    <2>1. faults' \in Nat
      BY <1>2, FaultTyped DEF StartFails
    <2>2. worker' \in Worker
      BY <1>2 DEF StartFails, Worker, WorkerPCs, WorkerIdle
    <2> QED
      BY <1>2, <2>1, <2>2 DEF StartFails, TypeOK
  <1> QED
    BY <1>1, <1>2

\* The status patch of a revision.
LEMMA ReviseTyped ==
    ASSUME TypeOK, Revise
    PROVE  /\ cond' \in [ConditionTypes -> Condition] /\ analyzedGen' \in Nat
           /\ claim' \in [Steps -> BOOLEAN] /\ stamped' \in BOOLEAN
           /\ worker' \in Worker /\ UNCHANGED <<results, faults>>
  <1>1. Cond("Unknown", "Revising") \in Condition
    BY ConditionValues DEF Statuses, Reasons
  <1>2. cond' \in [ConditionTypes -> Condition]
    BY <1>1, ConditionValues DEF Revise, TypeOK
  <1>3. claim' \in [Steps -> BOOLEAN]
    BY DEF Revise, TypeOK
  <1>4. worker' \in Worker
    BY DEF Revise, Worker, WorkerPCs, WorkerIdle, Steps
  <1> QED
    BY <1>2, <1>3, <1>4 DEF Revise, TypeOK

\* The phase handlers of the worker.
LEMMA HandlePhaseTyped ==
    ASSUME TypeOK, HandlePhase PROVE TypeOK'
  <1> DEFINE Changed ==
        /\ cond' \in [ConditionTypes -> Condition] /\ analyzedGen' \in Nat
        /\ claim' \in [Steps -> BOOLEAN] /\ results' \in [Steps -> Seq(StepResultRef)]
        /\ stamped' \in BOOLEAN /\ label' \in BOOLEAN
        /\ worker' \in Worker /\ faults' \in Nat
  <1> SUFFICES Changed
    BY DEF HandlePhase, TypeOK
  <1>s. /\ "analysis" \in Steps /\ "execution" \in Steps
        /\ "verification" \in Steps /\ "escalation" \in Steps
    BY DEF Steps
  <1>d. ASSUME NEW s \in Steps, denyAgenticRun(s) PROVE Changed
    BY <1>d, DenyTyped DEF TypeOK
  <1>t. ASSUME NEW s \in Steps, StartStep(s) \/ StartFails(s) PROVE Changed
    BY <1>t, StartTyped DEF TypeOK
  <1>1. CASE handleAnalysis
    BY <1>1, <1>s, <1>d, <1>t DEF handleAnalysis
  <1>2. CASE handleExecution
    <2>1. CASE SkipExecution
      BY <2>1, ConditionValues
      DEF SkipExecution, TypeOK, ConditionTypes, WorkflowConditions, Statuses, Reasons
    <2> QED
      BY <1>2, <2>1, <1>s, <1>d, <1>t DEF handleExecution
  <1>3. CASE handleVerification
    <2>1. CASE /\ SetCondition("Verified", Cond("True", "Skipped"))
               /\ UNCHANGED <<claim, results, ttlVars, worker, faults>>
      <3>1. "Verified" \in ConditionTypes /\ Cond("True", "Skipped") \in Condition
        BY ConditionValues DEF ConditionTypes, WorkflowConditions, Statuses, Reasons
      <3> QED
        BY <2>1, <3>1, SetConditionTyped DEF TypeOK
    <2> QED
      BY <1>3, <2>1, <1>s, <1>d, <1>t DEF handleVerification
  <1>4. CASE handleEscalation
    BY <1>4, <1>s, <1>d, <1>t DEF handleEscalation
  <1>5. CASE handleRevision
    <2>1. CASE Revise /\ UNCHANGED label
      BY <2>1, ReviseTyped DEF TypeOK
    <2>2. CASE /\ worker' = [WorkerIdle EXCEPT !.pc = "revise"]
               /\ UNCHANGED <<statusVars, ttlVars, faults>>
      BY <2>2, <1>s DEF TypeOK, Worker, WorkerPCs, WorkerIdle
    <2> QED
      BY <1>5, <2>1, <2>2 DEF handleRevision
  <1> QED
    BY <1>1, <1>2, <1>3, <1>4, <1>5 DEF HandlePhase

\* Launching a sandbox.
LEMMA LaunchTyped ==
    ASSUME TypeOK,
           \/ LaunchStopped \/ LaunchFails \/ PrepareSandbox \/ createBarePod
           \/ AwaitDeletion \/ AwaitTimesOut \/ patchSandboxInfo \/ failStep
           \/ Boot
    PROVE  TypeOK'
  <1>i. WorkerIdle \in Worker
    BY DEF WorkerIdle, Worker, WorkerPCs, Steps
  <1>w. ASSUME NEW pc \in WorkerPCs PROVE [worker EXCEPT !.pc = pc] \in Worker
    BY DEF TypeOK, Worker
  <1>s. worker.step \in Steps /\ worker.gen \in Nat /\ worker.idx \in Nat
    BY DEF TypeOK, Worker
  <1>1. CASE LaunchStopped
    BY <1>1, <1>i DEF LaunchStopped, TypeOK
  <1>2. CASE LaunchFails
    <2>1. worker' \in Worker
      BY <1>2, <1>w DEF LaunchFails, WorkerPCs
    <2>2. faults' \in Nat
      BY <1>2, FaultTyped DEF LaunchFails
    <2> QED
      BY <1>2, <2>1, <2>2 DEF LaunchFails, Launching, TypeOK
  <1>3. CASE PrepareSandbox
    <2>1. worker' \in Worker
      BY <1>3, <1>s, ResultIndexTyped DEF PrepareSandbox, TypeOK, Worker, WorkerPCs
    <2> QED
      BY <1>3, <2>1 DEF PrepareSandbox, Launching, TypeOK
  <1>4. CASE createBarePod
    <2>1. NewPod \in Pod
      BY <1>s DEF NewPod, Pod, LivePod, PodPhases
    <2>2. pod' \in [Steps -> Pod]
      BY <1>4, <2>1 DEF createBarePod, TypeOK
    <2>3. worker' \in Worker
      BY <1>4, <1>w DEF createBarePod, WorkerPCs
    <2> QED
      BY <1>4, <2>2, <2>3 DEF createBarePod, Launching, TypeOK
  <1>5. CASE AwaitDeletion
    <2>1. worker' \in Worker
      BY <1>5, <1>w, <1>i DEF AwaitDeletion, WorkerPCs
    <2> QED
      BY <1>5, <2>1 DEF AwaitDeletion, Launching, TypeOK
  <1>6. CASE AwaitTimesOut
    <2>1. worker' \in Worker
      BY <1>6, <1>w DEF AwaitTimesOut, WorkerPCs
    <2> QED
      BY <1>6, <2>1 DEF AwaitTimesOut, Launching, TypeOK
  <1>7. CASE patchSandboxInfo
    BY <1>7, <1>i DEF patchSandboxInfo, Launching, TypeOK
  <1>8. CASE failStep
    <2> DEFINE s == worker.step
               i == nextResultIndex(s)
    <2>1. /\ stepConditionType(s) \in ConditionTypes
          /\ Cond("False", "Failed") \in Condition
      BY <1>s, ConditionValues, StepConditionIsWorkflow DEF Statuses, Reasons
    <2>2. cond' \in [ConditionTypes -> Condition] /\ analyzedGen' \in Nat
      BY <1>8, <2>1, SetConditionTyped DEF failStep, TypeOK
    <2>3. results' \in [Steps -> Seq(StepResultRef)]
      BY <1>8, <1>s, LinkResultTyped, ResultIndexTyped DEF failStep, TypeOK
    <2>4. FailureCR(s, i) \in ResultCR
      BY <1>s, ResultIndexTyped DEF TypeOK, FailureCR, ResultCR, Outcomes
    <2>5. cr' \subseteq ResultCR
      BY <1>8, <2>4 DEF failStep, createIdempotent, TypeOK
    <2>6. faults' \in Nat
      BY <1>8, FaultTyped DEF failStep, TypeOK
    <2> QED
      BY <1>8, <1>i, <2>2, <2>3, <2>5, <2>6 DEF failStep, Launching, TypeOK
  <1>9. CASE Boot
    BY <1>9, <1>i DEF Boot, TypeOK
  <1> QED
    BY <1>1, <1>2, <1>3, <1>4, <1>5, <1>6, <1>7, <1>8, <1>9

\* The worker, launches included.
LEMMA WorkerTyped ==
    ASSUME TypeOK, WorkerNext PROVE TypeOK'
  <1>1. CASE ensureAgenticRunApproval
    BY <1>1 DEF ensureAgenticRunApproval, TypeOK, Decision
  <1>2. CASE RecordResolutionFailure
    <2>1. /\ "Analyzed" \in ConditionTypes
          /\ Cond("False", "WorkflowFailed") \in Condition
      BY ConditionValues DEF ConditionTypes, WorkflowConditions, Statuses, Reasons
    <2>2. cond' \in [ConditionTypes -> Condition] /\ analyzedGen' \in Nat
      BY <1>2, <2>1, SetConditionTyped DEF RecordResolutionFailure
    <2>3. worker' \in Worker
      BY <1>2 DEF RecordResolutionFailure, Worker, WorkerPCs, WorkerIdle, Steps
    <2> QED
      BY <1>2, <2>2, <2>3 DEF RecordResolutionFailure, TypeOK
  <1>3. CASE handleTerminalCleanup
    <2>1. pod' \in [Steps -> Pod]
      BY <1>3, DeletingTyped DEF handleTerminalCleanup, TypeOK
    <2>2. faults' \in Nat
      BY <1>3, FaultTyped DEF handleTerminalCleanup, TypeOK
    <2> QED
      BY <1>3, <2>1, <2>2 DEF handleTerminalCleanup, TypeOK, StopPCs
  <1>4. CASE ResolutionFails
    <2>1. worker' \in Worker
      BY <1>4 DEF ResolutionFails, Worker, WorkerPCs, WorkerIdle, Steps
    <2>2. faults' \in Nat
      BY <1>4, FaultTyped DEF ResolutionFails
    <2> QED
      BY <1>4, <2>1, <2>2 DEF ResolutionFails, TypeOK
  <1>5. CASE ReviseLabelled
    <2>1. CASE Revise /\ label' = FALSE
      BY <1>5, <2>1, ReviseTyped DEF ReviseLabelled, TypeOK
    <2>2. CASE /\ worker' = WorkerIdle /\ label' = FALSE
               /\ UNCHANGED <<statusVars, stamped, faults>>
      BY <1>5, <2>2 DEF ReviseLabelled, TypeOK, Worker, WorkerPCs, WorkerIdle, Steps
    <2>3. CASE Fault /\ worker' = WorkerIdle /\ UNCHANGED <<statusVars, ttlVars>>
      BY <1>5, <2>3, FaultTyped
      DEF ReviseLabelled, TypeOK, Worker, WorkerPCs, WorkerIdle, Steps
    <2> QED
      BY <1>5, <2>1, <2>2, <2>3 DEF ReviseLabelled
  <1> QED
    BY <1>1, <1>2, <1>3, <1>4, <1>5, HandlePhaseTyped, LaunchTyped DEF WorkerNext

\* The Pod event handler and the timeout ticker.
LEMMA PatchStepConditionTyped ==
    ASSUME TypeOK, NEW s \in Steps, NEW c \in Condition, patchStepCondition(s, c)
    PROVE  cond' \in [ConditionTypes -> Condition] /\ analyzedGen' \in Nat
  <1>1. stepConditionType(s) \in ConditionTypes
    BY ConditionValues, StepConditionIsWorkflow
  <1> QED
    BY <1>1, SetConditionTyped DEF patchStepCondition, TypeOK

\* What completeStep writes.
LEMMA WriteOutcomeTyped ==
    ASSUME TypeOK, NEW s \in Steps, NEW j \in Job, WriteOutcome(s, j)
    PROVE  /\ cond' \in [ConditionTypes -> Condition] /\ analyzedGen' \in Nat
           /\ results' \in [Steps -> Seq(StepResultRef)]
  <1>0. /\ j.idx \in Nat /\ j.out \in Outcomes \cup {"failed"}
        /\ stepConditionType(s) \in ConditionTypes
        /\ "Verified" \in ConditionTypes /\ "Escalated" \in ConditionTypes
    BY ConditionValues, StepConditionIsWorkflow
    DEF Job, ConditionTypes, WorkflowConditions
  <1>1. CASE j.out = "failed"
    <2>1. Cond("False", FailureReason(j.ph)) \in Condition
      BY ConditionValues DEF FailureReason, Statuses, Reasons
    <2>2. patchStepCondition(s, Cond("False", FailureReason(j.ph)))
          /\ UNCHANGED results
      BY <1>1 DEF WriteOutcome
    <2> QED
      BY <2>1, <2>2, PatchStepConditionTyped DEF TypeOK
  <1>2. CASE j.out \in {"ok", "noaction"}
    <2> DEFINE c == Cond("True", IF j.out = "noaction" THEN "NoActionRequired"
                                 ELSE "Succeeded")
    <2>1. c \in Condition
      BY ConditionValues DEF Statuses, Reasons
    <2>2. SetCondition(stepConditionType(s), c) /\ LinkResult(s, j.idx, "succeeded")
      BY <1>2 DEF WriteOutcome
    <2> HIDE DEF c
    <2> QED
      BY <1>0, <2>1, <2>2, SetConditionTyped, LinkResultTyped
  <1>3. CASE j.out = "agentfailed" /\ s = "verification"
    <2>1. /\ Cond("False", "VerificationFailed") \in Condition
          /\ Cond("Unknown", "VerificationFailed") \in Condition
      BY ConditionValues DEF Statuses, Reasons
    <2>2. /\ cond' = [cond EXCEPT
               !["Verified"]  = Cond("False", "VerificationFailed"),
               !["Escalated"] = Cond("Unknown", "VerificationFailed")]
          /\ LinkResult(s, j.idx, "failed") /\ UNCHANGED analyzedGen
      BY <1>3 DEF WriteOutcome
    <2>3. cond' \in [ConditionTypes -> Condition]
      BY <1>0, <2>1, <2>2 DEF TypeOK
    <2> QED
      BY <1>0, <2>2, <2>3, LinkResultTyped DEF TypeOK
  <1>4. CASE j.out = "agentfailed" /\ s # "verification"
    <2>1. Cond("False", "SandboxFailed") \in Condition
      BY ConditionValues DEF Statuses, Reasons
    <2>2. /\ SetCondition(stepConditionType(s), Cond("False", "SandboxFailed"))
          /\ LinkResult(s, j.idx, "failed")
      BY <1>4 DEF WriteOutcome
    <2> QED
      BY <1>0, <2>1, <2>2, SetConditionTyped, LinkResultTyped
  <1> QED
    BY <1>0, <1>1, <1>2, <1>3, <1>4 DEF Outcomes

\* The handlers' records: an idle job, a dispatched Pod, a settled outcome.
LEMMA JobTyped ==
    ASSUME TypeOK, NEW h \in Handlers, NEW j \in Job, SetJob(h, j)
    PROVE  job' \in [Handlers -> Job]
  BY DEF TypeOK, SetJob

\* An idle handler is a handler.
LEMMA JobIdleTyped ==
    JobIdle \in Job
  BY DEF JobIdle, Job, JobPCs, Steps, PodPhases, Outcomes

\* What handlePodEvent leaves for the handler to do.
LEMMA DispatchTyped ==
    ASSUME TypeOK, NEW s \in Steps, NEW ph \in PodPhases, Dispatch(s, ph)
    PROVE  job' \in [Handlers -> Job]
  <1> DEFINE j == [JobIdle EXCEPT !.step = s, !.ph = ph,
                     !.pc = IF ph \in {"Pending", "Running"}
                            THEN "progress" ELSE "complete"]
  <1>1. j \in Job
    BY JobIdleTyped DEF Job, JobPCs
  <1>2. "events" \in Handlers
    BY DEF Handlers
  <1>3. SetJob("events", j) \/ SetJob("events", JobIdle)
    BY DEF Dispatch
  <1> HIDE DEF j
  <1> QED
    BY <1>1, <1>2, <1>3, JobTyped, JobIdleTyped

\* The Pod event handler and the ticker.
LEMMA HandlerTyped ==
    ASSUME TypeOK, HandlerNext PROVE TypeOK'
  <1>p. ASSUME NEW p \in Pod, p # NoPod PROVE p.ph \in PodPhases
    BY <1>p DEF Pod, LivePod
  <1>1. CASE ReportProgress
    <2> DEFINE j == job["events"]
               c == Cond("Unknown", IF j.ph = "Running" THEN "Running"
                                    ELSE "WaitingForSandbox")
    <2>1. j.step \in Steps /\ "events" \in Handlers
      BY DEF TypeOK, Job, Handlers
    <2>2. c \in Condition
      BY ConditionValues DEF Statuses, Reasons
    <2>3. \/ patchStepCondition(j.step, c) /\ UNCHANGED faults
          \/ UNCHANGED <<cond, analyzedGen, faults>>
          \/ Fault /\ UNCHANGED <<cond, analyzedGen>>
      BY <1>1 DEF ReportProgress
    <2>4. SetJob("events", JobIdle) /\ UNCHANGED <<results, pod>>
          /\ UNCHANGED <<specVars, claim, ttlVars, userVars, stopVars, view, cr,
                         worker, stopper>>
      BY <1>1 DEF ReportProgress, HandlerStep
    <2> HIDE DEF c, j
    <2>5. /\ cond' \in [ConditionTypes -> Condition] /\ analyzedGen' \in Nat
          /\ faults' \in Nat
      BY <2>1, <2>2, <2>3, PatchStepConditionTyped, FaultTyped DEF TypeOK
    <2>6. job' \in [Handlers -> Job]
      BY <2>1, <2>4, JobTyped, JobIdleTyped
    <2> QED
      BY <2>4, <2>5, <2>6 DEF TypeOK
  <1>2. ASSUME NEW s \in Steps, PodChanged(s) PROVE TypeOK'
    <2>1. pod[s].ph \in PodPhases
      BY <1>2, <1>p DEF PodChanged, TypeOK
    <2>2. job' \in [Handlers -> Job]
      BY <1>2, <2>1, DispatchTyped DEF PodChanged
    <2> QED
      BY <1>2, <2>2 DEF PodChanged, PodEventFrame, TypeOK
  <1>3. ASSUME NEW s \in Steps, PodChangedOld(s) PROVE TypeOK'
    <2>1. view[s].ph \in PodPhases
      BY <1>3, <1>p DEF PodChangedOld, TypeOK
    <2>2. job' \in [Handlers -> Job]
      BY <1>3, <2>1, DispatchTyped DEF PodChangedOld
    <2> QED
      BY <1>3, <2>2 DEF PodChangedOld, PodEventFrame, TypeOK
  <1>4. ASSUME NEW s \in Steps, PodDeleted(s) PROVE TypeOK'
    <2>1. view[s].ph \in PodPhases
      BY <1>4, <1>p DEF PodDeleted, TypeOK
    <2>2. job' \in [Handlers -> Job]
      BY <1>4, <2>1, DispatchTyped DEF PodDeleted
    <2> QED
      BY <1>4, <2>2 DEF PodDeleted, PodEventFrame, TypeOK, Pod
  <1>5. ASSUME NEW s \in Steps, handlePodTimeEvent(s) PROVE TypeOK'
    <2> DEFINE j == [JobIdle EXCEPT !.pc = "complete", !.step = s,
                       !.ph = IF view[s].ph \in {"Succeeded", "Failed"}
                              THEN view[s].ph ELSE "Timeout"]
    <2>1. j \in Job /\ "ticker" \in Handlers
      BY JobIdleTyped DEF Job, JobPCs, PodPhases, Handlers
    <2>2. SetJob("ticker", j)
      BY <1>5 DEF handlePodTimeEvent
    <2> HIDE DEF j
    <2>3. job' \in [Handlers -> Job]
      BY <2>1, <2>2, JobTyped
    <2> QED
      BY <1>5, <2>3 DEF handlePodTimeEvent, TypeOK
  <1>6. ASSUME NEW h \in Handlers, completeStep(h) PROVE TypeOK'
    <2> DEFINE s == job[h].step
               settled(out) == [job[h] EXCEPT !.pc = "patch", !.out = out,
                                              !.idx = nextResultIndex(s)]
    <2>1. job[h] \in Job /\ s \in Steps /\ nextResultIndex(s) \in Nat
      BY ResultIndexTyped DEF TypeOK, Job
    <2>2. ASSUME NEW out \in Outcomes \cup {"failed"} PROVE settled(out) \in Job
      BY <2>1 DEF Job, JobPCs
    <2>3. validateResultCR(s) \subseteq Outcomes \cup {"failed"}
      BY DEF validateResultCR, TypeOK, ResultCR
    <2>4. \/ \E out \in Outcomes \cup {"failed"} : SetJob(h, settled(out))
          \/ SetJob(h, JobIdle)
      BY <1>6, <2>3 DEF completeStep
    <2> HIDE DEF settled
    <2>5. job' \in [Handlers -> Job]
      BY <2>2, <2>4, JobTyped, JobIdleTyped
    <2> QED
      BY <1>6, <2>5 DEF completeStep, HandlerStep, TypeOK
  <1>7. ASSUME NEW h \in Handlers, patchStepResult(h) PROVE TypeOK'
    <2>1. /\ job[h] \in Job /\ job[h].step \in Steps
          /\ [job[h] EXCEPT !.pc = "release"] \in Job
      BY DEF TypeOK, Job, JobPCs
    <2>2. job' \in [Handlers -> Job]
      BY <1>7, <2>1, JobTyped, JobIdleTyped DEF patchStepResult
    <2>3. /\ cond' \in [ConditionTypes -> Condition] /\ analyzedGen' \in Nat
          /\ results' \in [Steps -> Seq(StepResultRef)]
      BY <1>7, <2>1, WriteOutcomeTyped DEF patchStepResult, TypeOK
    <2>4. faults' \in Nat
      BY <1>7, FaultTyped DEF patchStepResult, TypeOK
    <2> QED
      BY <1>7, <2>2, <2>3, <2>4 DEF patchStepResult, HandlerStep, TypeOK
  <1>8. ASSUME NEW h \in Handlers, releaseSandbox(h) PROVE TypeOK'
    <2>1. job' \in [Handlers -> Job]
      BY <1>8, JobTyped, JobIdleTyped DEF releaseSandbox
    <2>2. pod' \in [Steps -> Pod]
      BY <1>8, DeletingTyped DEF releaseSandbox, TypeOK
    <2>3. faults' \in Nat
      BY <1>8, FaultTyped DEF releaseSandbox, TypeOK
    <2> QED
      BY <1>8, <2>1, <2>2, <2>3 DEF releaseSandbox, HandlerStep, TypeOK
  <1> QED
    BY <1>1, <1>2, <1>3, <1>4, <1>5, <1>6, <1>7, <1>8 DEF HandlerNext

\* The global-stop path.
LEMMA WriteSuspensionOutcomeTyped ==
    ASSUME TypeOK, NEW b \in BOOLEAN, writeSuspensionOutcome(b)
    PROVE  /\ cond' \in [ConditionTypes -> Condition] /\ analyzedGen' \in Nat
           /\ claim' \in [Steps -> BOOLEAN]
  <1>1. cond' \in [ConditionTypes -> Condition]
    BY StopOutcomeTyped DEF writeSuspensionOutcome, TypeOK
  <1> QED
    BY <1>1 DEF writeSuspensionOutcome, TypeOK

\* The global-stop path.
LEMMA StopTyped ==
    ASSUME TypeOK, StopNext PROVE TypeOK'
  <1>a. Cond("True", "SystemSuspended") \in Condition
    BY ConditionValues DEF Statuses, Reasons
  <1>b. CASE persistRunStopGlobal
    BY <1>a, <1>b DEF persistRunStopGlobal, TypeOK
  <1>c. CASE CleanupSuspension
    <2>1. pod' \in [Steps -> Pod]
      BY <1>c DEF CleanupSuspension, TypeOK, Pod
    <2> QED
      BY <1>c, <2>1 DEF CleanupSuspension, TypeOK
  <1> SUFFICES ASSUME NEW a \in Actors, StopProcess(a) PROVE TypeOK'
    BY <1>b, <1>c DEF StopNext, StopProcess
  <1>1. CASE persistRunStop(a)
    BY <1>1, <1>a DEF persistRunStop, TypeOK, StopPCs
  <1>2. CASE ResumeCleanup(a)
    <2>1. /\ cond' \in [ConditionTypes -> Condition] /\ analyzedGen' \in Nat
          /\ claim' \in [Steps -> BOOLEAN]
      BY <1>2, WriteSuspensionOutcomeTyped DEF ResumeCleanup, TypeOK
    <2> QED
      BY <1>2, <2>1 DEF ResumeCleanup, TypeOK, StopPCs
  <1>3. CASE suspensionCleanupPass(a)
    <2>1. pod' \in [Steps -> Pod]
      BY <1>3 DEF suspensionCleanupPass, TypeOK, Pod
    <2>2. stopper' \in [Actors -> StopPCs]
      BY <1>3 DEF suspensionCleanupPass, TypeOK, StopPCs
    <2> QED
      BY <1>3, <2>1, <2>2 DEF suspensionCleanupPass, TypeOK
  <1>4. CASE FinishPass(a)
    <2>1. \/ \E b \in BOOLEAN : writeSuspensionOutcome(b)
          \/ UNCHANGED <<cond, analyzedGen, claim>>
          \/ /\ UNCHANGED <<cond, analyzedGen>>
             /\ claim' \in {[s \in Steps |-> FALSE], claim}
      BY <1>4 DEF FinishPass
    <2>2. /\ cond' \in [ConditionTypes -> Condition] /\ analyzedGen' \in Nat
          /\ claim' \in [Steps -> BOOLEAN]
      BY <2>1, WriteSuspensionOutcomeTyped DEF TypeOK
    <2>3. stopper' \in [Actors -> StopPCs]
      BY <1>4 DEF FinishPass, TypeOK, StopPCs
    <2> QED
      BY <1>4, <2>2, <2>3 DEF FinishPass, TypeOK
  <1>5. CASE handleTerminalRecord(a)
    <2>1. faults' \in Nat
      BY <1>5, FaultTyped DEF handleTerminalRecord, TypeOK
    <2> QED
      BY <1>5, <2>1 DEF handleTerminalRecord, TypeOK, StopPCs
  <1> QED
    BY <1>1, <1>2, <1>3, <1>4, <1>5 DEF StopProcess

\* The user and the administrator.
LEMMA UserTyped ==
    ASSUME TypeOK, UserNext PROVE TypeOK'
  <1>1. CASE EditSpec
    <2>1. feedback' \in BOOLEAN
      BY <1>1, Zenon DEF EditSpec, TypeOK
    <2>2. gen' \in Nat
      BY <1>1 DEF EditSpec, TypeOK
    <2> QED
      BY <1>1, <2>1, <2>2 DEF EditSpec, TypeOK
  <1>2. CASE SyncApproval
    BY <1>2 DEF SyncApproval, TypeOK
  <1>3. CASE Suspend
    BY <1>3 DEF Suspend, TypeOK
  <1>4. CASE RecordActivation
    BY <1>4 DEF RecordActivation, TypeOK
  <1>5. CASE Resume
    BY <1>5 DEF Resume, TypeOK
  <1>6. CASE WindowElapses
    BY <1>6 DEF WindowElapses, TypeOK
  <1>7. ASSUME NEW d \in Decisions, Decide(d[1], d[2]) PROVE TypeOK'
    <2>1. d[1] \in Steps /\ d[2] \in Decision
      BY BoundsAssumption DEF Decision
    <2> QED
      BY <1>7, <2>1 DEF Decide, TypeOK, Decision
  <1> QED
    BY <1>1, <1>2, <1>3, <1>4, <1>5, <1>6, <1>7 DEF UserNext

\* A Pod that changes its phase is a Pod.
LEMMA PodPhaseTyped ==
    ASSUME pod \in [Steps -> Pod], NEW s \in Steps, pod[s] \in LivePod,
           NEW ph \in PodPhases
    PROVE  [pod EXCEPT ![s].ph = ph] \in [Steps -> Pod]
  <1>1. [pod[s] EXCEPT !.ph = ph] \in LivePod
    BY DEF LivePod
  <1>2. [pod EXCEPT ![s] = [pod[s] EXCEPT !.ph = ph]] \in [Steps -> Pod]
    BY <1>1 DEF Pod
  <1> QED
    BY <1>2

\* The cluster and the process.
LEMMA ClusterTyped ==
    ASSUME TypeOK, ClusterNext PROVE TypeOK'
  <1>p. ASSUME NEW p \in Pod, p.ph # "None" PROVE p \in LivePod
    BY <1>p DEF Pod, NoPod
  <1>1. CASE Crash
    <2>1. faults' \in Nat
      BY <1>1, FaultTyped DEF Crash
    <2>2. worker' \in Worker
      BY <1>1 DEF Crash, Worker, WorkerPCs, WorkerIdle, Steps
    <2>3. job' \in [Handlers -> Job]
      BY <1>1, JobIdleTyped DEF Crash
    <2>4. view' \in [Steps -> Pod] /\ stopper' \in [Actors -> StopPCs]
      BY <1>1 DEF Crash, Pod, StopPCs
    <2> QED
      BY <1>1, <2>1, <2>2, <2>3, <2>4 DEF Crash, TypeOK
  <1>2. ASSUME NEW s \in Steps, PodRuns(s) PROVE TypeOK'
    <2>0. pod[s] \in LivePod
      BY <1>2, <1>p DEF PodRuns, TypeOK
    <2>1. pod' \in [Steps -> Pod]
      BY <1>2, <2>0, PodPhaseTyped DEF PodRuns, TypeOK, PodPhases
    <2> QED
      BY <1>2, <2>1 DEF PodRuns, OutsideWorld, TypeOK
  <1>3. ASSUME NEW s \in Steps, AgentReports(s) PROVE TypeOK'
    <2>1. pod[s].idx \in Nat /\ pod[s].gen \in Nat
      BY <1>3, <1>p DEF AgentReports, TypeOK, LivePod
    <2>2. PICK out \in Reports :
             cr' = cr \cup {[step |-> s, idx |-> pod[s].idx, out |-> out,
                             gen |-> pod[s].gen]}
      BY <1>3 DEF AgentReports
    <2>3. out \in Outcomes
      BY BoundsAssumption DEF Outcomes
    <2>4. cr' \subseteq ResultCR
      BY <2>1, <2>2, <2>3 DEF TypeOK, ResultCR
    <2> QED
      BY <1>3, <2>4 DEF AgentReports, OutsideWorld, TypeOK
  <1>4. ASSUME NEW s \in Steps, PodExits(s) PROVE TypeOK'
    <2>1. pod[s] \in LivePod
      BY <1>4, <1>p DEF PodExits, TypeOK
    <2>2. PICK ph \in PodPhases : pod' = [pod EXCEPT ![s].ph = ph]
      BY <1>4 DEF PodExits, PodPhases
    <2>3. pod' \in [Steps -> Pod]
      BY <2>1, <2>2, PodPhaseTyped DEF TypeOK
    <2> QED
      BY <1>4, <2>3 DEF PodExits, OutsideWorld, TypeOK
  <1>5. ASSUME NEW s \in Steps, PodRemoved(s) PROVE TypeOK'
    BY <1>5 DEF PodRemoved, OutsideWorld, TypeOK, Pod
  <1> QED
    BY <1>1, <1>2, <1>3, <1>4, <1>5 DEF ClusterNext

\* Every step keeps the types.
LEMMA TypeOKStep ==
    ASSUME TypeOK, [Next]_vars PROVE TypeOK'
  <1>1. CASE UNCHANGED vars
    BY <1>1 DEF vars, TypeOK
  <1> QED
    BY <1>1, WorkerTyped, HandlerTyped, StopTyped, UserTyped, ClusterTyped DEF Next

\* Every status, cached view and goroutine state stays well formed, whatever the
\* policy, the shapes, the bounds and the interleaving of the goroutines.
THEOREM TypeCorrect == Spec => []TypeOK
  <1>1. Init => TypeOK
    BY TypeOKInit
  <1>2. TypeOK /\ [Next]_vars => TypeOK'
    BY TypeOKStep
  <1> QED
    BY <1>1, <1>2, PTL DEF Spec

----------------------------------------------------------------------------
(* The approval gate.                                                       *)

\* What GateRespected rests on: the cache never shows an approval the server
\* did not have, and a launch is under way only behind an open gate.
GateInv ==
    /\ approval["analysis"] = "missing" =>
          \A s \in Steps : approval[s] = "missing"
    /\ \A s \in Steps : seen[s] = "approved" => approval[s] \in {"approved", "revoked"}
    /\ (worker.pc \notin {"boot", "idle"} /\ worker.step # "analysis") =>
          GateOpened(worker.step)
    /\ GateRespected

\* Nothing is approved, and nothing runs, at the start.
LEMMA GateInvInit ==
    ASSUME Init PROVE GateInv
  BY DEF Init, GateInv, GateRespected, WorkerIdle, Steps

\* An approval is only ever added, or revoked: an open gate stays open, and the
\* cache lags behind the server without running ahead of it.
LEMMA ApprovalStep ==
    ASSUME TypeOK, GateInv, [Next]_vars
    PROVE  /\ \A s \in Steps : GateOpened(s) => GateOpened(s)'
           /\ approval'["analysis"] = "missing" =>
                 \A s \in Steps : approval'[s] = "missing"
           /\ \A s \in Steps : seen'[s] = "approved" =>
                 approval'[s] \in {"approved", "revoked"}
  <1>1. CASE UNCHANGED <<approval, seen>>
    BY <1>1 DEF GateInv, GateOpened, PolicyOpens
  <1>2. CASE ensureAgenticRunApproval
    <2>1. \A s \in Steps : approval[s] = "missing"
      BY <1>2 DEF ensureAgenticRunApproval, GateInv
    <2>2. approval'["analysis"] # "missing" /\ seen' = approval'
      BY <1>2 DEF ensureAgenticRunApproval, Steps
    <2> QED
      BY <2>1, <2>2 DEF GateOpened, PolicyOpens
  <1>3. CASE SyncApproval
    BY <1>3 DEF SyncApproval, GateInv, GateOpened, PolicyOpens
  <1>4. ASSUME NEW d \in Decisions, Decide(d[1], d[2])
        PROVE  /\ \A s \in Steps : GateOpened(s) => GateOpened(s)'
               /\ approval'["analysis"] = "missing" =>
                     \A s \in Steps : approval'[s] = "missing"
               /\ \A s \in Steps : seen'[s] = "approved" =>
                     approval'[s] \in {"approved", "revoked"}
    <2>1. d[1] \in Steps /\ d[2] \in {"approved", "denied"} /\ seen' = seen
      BY <1>4, BoundsAssumption DEF Decide
    <2>2. approval' = [approval EXCEPT ![d[1]] = approval'[d[1]]]
      BY <1>4, <2>1 DEF Decide, TypeOK
    <2>3. /\ approval[d[1]] # "missing" /\ approval'[d[1]] # "missing"
          /\ approval[d[1]] \in {"approved", "revoked"} =>
                approval'[d[1]] \in {"approved", "revoked"}
      BY <1>4, <2>1 DEF Decide, TypeOK
    <2>4. approval["analysis"] # "missing" /\ approval'["analysis"] # "missing"
      BY <2>1, <2>2, <2>3 DEF GateInv, TypeOK, Steps
    <2> QED
      BY <2>1, <2>2, <2>3, <2>4 DEF GateInv, GateOpened, PolicyOpens, TypeOK
  <1>5. \/ UNCHANGED <<approval, seen>> \/ ensureAgenticRunApproval
        \/ SyncApproval \/ \E d \in Decisions : Decide(d[1], d[2])
    <2>1. CASE UNCHANGED vars
      BY <2>1 DEF vars
    <2>2. CASE WorkerNext
      BY <2>2 DEF WorkerNext, ResolutionFails, RecordResolutionFailure,
         HandlePhase, ReviseLabelled, handleTerminalCleanup,
         LaunchStopped, LaunchFails, PrepareSandbox, createBarePod, AwaitDeletion,
         AwaitTimesOut, patchSandboxInfo, failStep, Boot, Launching
    <2>3. CASE HandlerNext
      BY <2>3 DEF HandlerNext, ReportProgress, PodChanged, PodChangedOld, PodDeleted,
         PodEventFrame, handlePodTimeEvent, completeStep, patchStepResult,
         releaseSandbox, HandlerStep
    <2>4. CASE StopNext
      BY <2>4 DEF StopNext, persistRunStopGlobal, CleanupSuspension, persistRunStop,
         ResumeCleanup, suspensionCleanupPass, FinishPass, handleTerminalRecord
    <2>5. CASE UserNext
      BY <2>5 DEF UserNext, EditSpec, Suspend, RecordActivation, Resume, WindowElapses
    <2>6. CASE ClusterNext
      BY <2>6 DEF ClusterNext, Crash, PodRuns, AgentReports, PodExits, PodRemoved,
         OutsideWorld
    <2> QED
      BY <2>1, <2>2, <2>3, <2>4, <2>5, <2>6 DEF Next
  <1> QED
    BY <1>1, <1>2, <1>3, <1>4, <1>5

\* A launch begins with the analysis or behind a gate the cache shows open; until
\* it ends it stays with its step.
LEMMA LaunchStep ==
    ASSUME TypeOK, [Next]_vars
    PROVE  \/ worker'.pc \in {"boot", "idle"}
           \/ worker'.step = "analysis"
           \/ worker.pc \notin {"boot", "idle"} /\ worker'.step = worker.step
           \/ worker'.step \in Steps /\ isStageApproved(worker'.step)
  <1> DEFINE Goal == \/ worker'.pc \in {"boot", "idle"}
                     \/ worker'.step = "analysis"
                     \/ worker.pc \notin {"boot", "idle"} /\ worker'.step = worker.step
                     \/ worker'.step \in Steps /\ isStageApproved(worker'.step)
  <1>1. CASE UNCHANGED worker
    BY <1>1
  <1>2. CASE HandlePhase
    <2>1. ASSUME NEW s \in Steps, StartStep(s) \/ StartFails(s)
          PROVE  worker'.step = s /\ isStageApproved(s)
      BY <2>1 DEF StartStep, StartFails, WorkerIdle
    <2>2. ASSUME NEW s \in Steps, denyAgenticRun(s) PROVE UNCHANGED worker
      BY <2>2 DEF denyAgenticRun
    <2>3. ASSUME SkipExecution PROVE UNCHANGED worker
      BY <2>3 DEF SkipExecution
    <2>4. ASSUME handleRevision PROVE UNCHANGED worker \/ worker'.step = "analysis"
      BY <2>4 DEF handleRevision, Revise, WorkerIdle
    <2>5. \/ UNCHANGED worker \/ worker'.step = "analysis"
          \/ \E s \in Steps : worker'.step = s /\ isStageApproved(s)
      BY <1>2, <2>1, <2>2, <2>3, <2>4
      DEF HandlePhase, handleAnalysis, handleExecution, handleVerification,
          handleEscalation, Steps
    <2> QED
      BY <2>5, <1>1
  <1>3. CASE LaunchFails \/ PrepareSandbox \/ createBarePod \/ AwaitDeletion
             \/ AwaitTimesOut
    <2>1. \/ worker' = WorkerIdle
          \/ /\ worker.pc \in {"launch", "create", "await", "info"}
             /\ worker'.step = worker.step
      BY <1>3 DEF LaunchFails, PrepareSandbox, createBarePod, AwaitDeletion,
         AwaitTimesOut, Launching, TypeOK, Worker
    <2> QED
      BY <2>1 DEF WorkerIdle
  <1>4. CASE \/ LaunchStopped \/ patchSandboxInfo \/ failStep \/ Boot \/ Crash
             \/ ResolutionFails \/ RecordResolutionFailure \/ ReviseLabelled
    BY <1>4 DEF LaunchStopped, patchSandboxInfo, failStep, Boot, Crash, WorkerIdle,
       ResolutionFails, RecordResolutionFailure, ReviseLabelled, Revise
  <1>5. \/ UNCHANGED worker \/ HandlePhase
        \/ LaunchFails \/ PrepareSandbox \/ createBarePod \/ AwaitDeletion
        \/ AwaitTimesOut
        \/ LaunchStopped \/ patchSandboxInfo \/ failStep \/ Boot \/ Crash
        \/ ResolutionFails \/ RecordResolutionFailure \/ ReviseLabelled
    <2>1. CASE UNCHANGED vars
      BY <2>1 DEF vars
    <2>2. CASE WorkerNext
      BY <2>2 DEF WorkerNext, ensureAgenticRunApproval, handleTerminalCleanup
    <2>3. CASE HandlerNext
      BY <2>3 DEF HandlerNext, ReportProgress, PodChanged, PodChangedOld, PodDeleted,
         PodEventFrame, handlePodTimeEvent, completeStep, patchStepResult,
         releaseSandbox, HandlerStep
    <2>4. CASE StopNext
      BY <2>4 DEF StopNext, persistRunStopGlobal, CleanupSuspension, persistRunStop,
         ResumeCleanup, suspensionCleanupPass, FinishPass, handleTerminalRecord
    <2>5. CASE UserNext
      BY <2>5 DEF UserNext, EditSpec, SyncApproval, Suspend, RecordActivation, Resume,
         WindowElapses, Decide
    <2>6. CASE ClusterNext
      BY <2>6 DEF ClusterNext, PodRuns, AgentReports, PodExits, PodRemoved,
         OutsideWorld
    <2> QED
      BY <2>1, <2>2, <2>3, <2>4, <2>5, <2>6 DEF Next
  <1> QED
    BY <1>1, <1>2, <1>3, <1>4, <1>5

\* Only createBarePod makes a Pod, for the step of the launch under way.
LEMMA PodStep ==
    ASSUME TypeOK, [Next]_vars, NEW s \in Steps,
           pod[s] = NoPod, pod'[s] # NoPod
    PROVE  worker.pc = "create" /\ worker.step = s
  <1>0. ASSUME CleanupSuspension PROVE FALSE
    BY <1>0 DEF CleanupSuspension
  <1>1. ASSUME NEW S, pod' = Deleting(S) PROVE pod'[s] = NoPod
    BY <1>1 DEF Deleting
  <1>2. CASE UNCHANGED pod
    BY <1>2
  <1>3. CASE createBarePod
    BY <1>3 DEF createBarePod, Launching, TypeOK
  <1>4. CASE handleTerminalCleanup
    BY <1>4, <1>1 DEF handleTerminalCleanup
  <1>5. ASSUME NEW h \in Handlers, releaseSandbox(h) PROVE FALSE
    BY <1>5, <1>1 DEF releaseSandbox
  <1>6. ASSUME NEW a \in Actors, suspensionCleanupPass(a) PROVE FALSE
    BY <1>6 DEF suspensionCleanupPass
  <1>7. ASSUME NEW q \in Steps, PodRuns(q) \/ PodExits(q) \/ PodRemoved(q)
        PROVE  FALSE
    <2>1. q = s => PodRemoved(q)
      BY <1>7 DEF PodRuns, PodExits, NoPod
    <2> QED
      BY <1>7, <2>1 DEF PodRuns, PodExits, PodRemoved, TypeOK
  <1>8. \/ UNCHANGED pod \/ createBarePod \/ handleTerminalCleanup
        \/ CleanupSuspension
        \/ \E h \in Handlers : releaseSandbox(h)
        \/ \E a \in Actors : suspensionCleanupPass(a)
        \/ \E q \in Steps : PodRuns(q) \/ PodExits(q) \/ PodRemoved(q)
    <2>1. CASE UNCHANGED vars
      BY <2>1 DEF vars
    <2>2. CASE WorkerNext
      BY <2>2 DEF WorkerNext, ensureAgenticRunApproval, ResolutionFails,
         RecordResolutionFailure, HandlePhase, ReviseLabelled,
         LaunchStopped, LaunchFails, PrepareSandbox, AwaitDeletion, AwaitTimesOut,
         patchSandboxInfo, failStep, Boot
    <2>3. CASE HandlerNext
      BY <2>3 DEF HandlerNext, ReportProgress, PodChanged, PodChangedOld, PodDeleted,
         PodEventFrame, handlePodTimeEvent, completeStep, patchStepResult
    <2>4. CASE StopNext
      BY <2>4 DEF StopNext, persistRunStopGlobal, persistRunStop, ResumeCleanup,
         FinishPass, handleTerminalRecord
    <2>5. CASE UserNext
      BY <2>5 DEF UserNext, EditSpec, SyncApproval, Suspend, RecordActivation, Resume,
         WindowElapses, Decide
    <2>6. CASE ClusterNext
      BY <2>6 DEF ClusterNext, Crash, AgentReports
    <2> QED
      BY <2>1, <2>2, <2>3, <2>4, <2>5, <2>6 DEF Next
  <1> QED
    BY <1>0, <1>2, <1>3, <1>4, <1>5, <1>6, <1>7, <1>8

\* Every step keeps the gates.
LEMMA GateInvStep ==
    ASSUME TypeOK, GateInv, [Next]_vars PROVE GateInv'
  <1>1. \A s \in Steps : GateOpened(s) => GateOpened(s)'
    BY ApprovalStep
  <1>2. ASSUME NEW s \in Steps, isStageApproved(s) PROVE GateOpened(s)
    BY <1>2 DEF isStageApproved, GateInv, GateOpened
  <1>3. ASSUME worker'.pc \notin {"boot", "idle"}, worker'.step # "analysis"
        PROVE  GateOpened(worker.step)'
    <2>1. worker.step \in Steps
      BY DEF TypeOK, Worker
    <2>2. PICK s \in Steps : s = worker'.step /\ GateOpened(s)
      BY <1>2, <1>3, <2>1, LaunchStep DEF GateInv
    <2>3. GateOpened(s)'
      BY <1>1, <2>2
    <2> QED
      BY <2>2, <2>3 DEF GateOpened
  <1>4. ASSUME NEW s \in Steps \ {"analysis"}, pod'[s] # NoPod
        PROVE  GateOpened(s)'
    <2>1. CASE pod[s] # NoPod
      BY <1>1, <2>1 DEF GateInv, GateRespected
    <2>2. CASE pod[s] = NoPod
      <3>1. worker.pc = "create" /\ worker.step = s
        BY <1>4, <2>2, PodStep
      <3> QED
        BY <1>1, <3>1 DEF GateInv
    <2> QED
      BY <2>1, <2>2
  <1>5. GateRespected'
    BY <1>4 DEF GateRespected
  <1>6. (worker'.pc \notin {"boot", "idle"} /\ worker'.step # "analysis") =>
           GateOpened(worker.step)'
    BY <1>3
  <1> QED
    BY <1>5, <1>6, ApprovalStep DEF GateInv

\* No execution, verification or escalation sandbox exists before its gate was
\* opened, for every policy, workflow shape, staleness of the cached approval and
\* number of revisions, stops, faults and restarts.
THEOREM GateRespectedAlways == Spec => []GateRespected
  <1>1. Init => TypeOK /\ GateInv
    BY TypeOKInit, GateInvInit
  <1>2. TypeOK /\ GateInv /\ [Next]_vars => (TypeOK /\ GateInv)'
    BY TypeOKStep, GateInvStep
  <1>3. GateInv => GateRespected
    BY DEF GateInv
  <1> QED
    BY <1>1, <1>2, <1>3, PTL DEF Spec
=============================================================================
