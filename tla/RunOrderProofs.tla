--------------------------- MODULE RunOrderProofs ---------------------------
(***************************************************************************)
(* The order of the steps of a run, and the races between those who settle *)
(* a step: nothing runs before what it follows was reported, no result     *)
(* counts twice, a timeout is never turned into a success, and an          *)
(* execution that was carried out is repeated only by a revision.          *)
(***************************************************************************)
EXTENDS GlobalStopProofs

USE DEF specVars, statusVars, ttlVars, userVars, stopVars, podVars, clearRunSandboxInfo

----------------------------------------------------------------------------
(* The conditions behind a phase, and who writes a workflow condition.      *)

\* Two steps never report on the same condition.
LEMMA StepConditionInjective ==
    ASSUME NEW s \in Steps, NEW q \in Steps,
           stepConditionType(s) = stepConditionType(q)
    PROVE  s = q
  BY DEF Steps, stepConditionType

\* The names of the steps, and of the conditions they report on.
LEMMA NamedSteps ==
    /\ "analysis" \in Steps /\ "execution" \in Steps
    /\ "verification" \in Steps /\ "escalation" \in Steps
    /\ stepConditionType("analysis") = "Analyzed"
    /\ stepConditionType("execution") = "Executed"
    /\ stepConditionType("verification") = "Verified"
    /\ stepConditionType("escalation") = "Escalated"
  BY DEF Steps, stepConditionType

\* What DerivePhase has seen when it answers with a phase that is in progress.
LEMMA PhaseConditions ==
    ASSUME TypeOK
    PROVE  /\ Phase = "Proposed" =>
                /\ cond["Analyzed"].st = "True"
                /\ cond["Analyzed"].rs # "NoActionRequired"
                /\ cond["Executed"].st = "Absent" /\ cond["Verified"].st = "Absent"
           /\ Phase = "Executing" =>
                cond["Executed"].st = "Unknown" /\ cond["Verified"].st = "Absent"
           /\ Phase = "Verifying" =>
                \/ cond["Verified"].st = "Unknown"
                \/ cond["Verified"].st = "Absent" /\ cond["Executed"].st = "True"
           /\ Phase = "Escalating" => cond["Escalated"].st = "Unknown"
  <1>1. \A t \in ConditionTypes : cond[t].st \in Statuses
    BY DEF TypeOK, Condition
  <1>a. /\ AnalyzedPhase(cond) \in {"Completed", "Proposed", "Analyzing", "Failed", "Pending"}
        /\ AnalyzedPhase(cond) = "Proposed" =>
              cond["Analyzed"].st = "True" /\ cond["Analyzed"].rs # "NoActionRequired"
    BY <1>1, NamedConditions DEF AnalyzedPhase, Statuses
  <1>e. /\ ExecutedPhase(cond) = "Verifying" => cond["Executed"].st = "True"
        /\ ExecutedPhase(cond) = "Executing" => cond["Executed"].st = "Unknown"
        /\ ExecutedPhase(cond) = "Proposed" =>
              cond["Executed"].st = "Absent" /\ AnalyzedPhase(cond) = "Proposed"
        /\ ExecutedPhase(cond) # "Escalating"
    BY <1>1, <1>a, NamedConditions DEF ExecutedPhase, Statuses
  <1>v. /\ VerifiedPhase(cond) = "Verifying" =>
              \/ cond["Verified"].st = "Unknown"
              \/ cond["Verified"].st = "Absent" /\ ExecutedPhase(cond) = "Verifying"
        /\ VerifiedPhase(cond) \in {"Executing", "Proposed"} =>
              /\ cond["Verified"].st = "Absent"
              /\ ExecutedPhase(cond) = VerifiedPhase(cond)
        /\ VerifiedPhase(cond) # "Escalating"
    BY <1>1, <1>e, NamedConditions DEF VerifiedPhase, Statuses
  <1> QED
    BY <1>a, <1>e, <1>v DEF Phase, DerivePhase

\* When the worker starts a step, in terms of the conditions it has read.
Due(s) ==
    /\ s = "execution" => Phase = "Proposed" /\ cond["Executed"].st = "Absent"
    /\ s = "verification" => Phase = "Verifying" /\ cond["Verified"].st # "Unknown"
    /\ s = "escalation" => Phase = "Escalating"

Starts(s) == Due(s) /\ (StartStep(s) \/ StartFails(s))

Skips ==
    \/ Phase \in {"Proposed", "Executing"} /\ SkipExecution
    \/ /\ Phase = "Verifying" /\ SetCondition("Verified", Cond("True", "Skipped"))
       /\ UNCHANGED worker

Revises ==
    /\ needsRevision \/ worker.pc = "revise"
    /\ UNCHANGED <<gen, feedback>>
    /\ cond' = [cond EXCEPT !["Executed"] = Absent, !["Verified"] = Absent,
                            !["Escalated"] = Absent,
                            !["Analyzed"] = Cond("Unknown", "Revising")]
    /\ analyzedGen' = gen
    /\ worker' = [WorkerIdle EXCEPT !.pc = "launch"]

\* A revision of a labelled run has its label patched first.
Postpones ==
    /\ worker' = [WorkerIdle EXCEPT !.pc = "revise"]
    /\ UNCHANGED <<cond, analyzedGen>>

\* A phase handler starts a step, skips one, denies the run or revises it, now or
\* with its next patch.
LEMMA HandlePhaseMoves ==
    ASSUME TypeOK, HandlePhase
    PROVE  \/ \E s \in Steps : Starts(s)
           \/ Skips
           \/ SetCondition("Denied", Cond("True", "UserDenied")) /\ UNCHANGED worker
           \/ Revises \/ Postpones
  <1>d. ASSUME NEW s \in Steps, denyAgenticRun(s)
        PROVE  SetCondition("Denied", Cond("True", "UserDenied")) /\ UNCHANGED worker
    BY <1>d DEF denyAgenticRun
  <1>1. CASE handleAnalysis
    BY <1>1, <1>d, NamedSteps DEF handleAnalysis, Starts, Due
  <1>2. CASE handleExecution
    <2>1. CASE cond["Executed"].st = "Absent" /\
               (StartStep("execution") \/ StartFails("execution"))
      <3>1. Phase = "Proposed"
        BY <1>2, <2>1, PhaseConditions DEF handleExecution
      <3> QED
        BY <2>1, <3>1, NamedSteps DEF Starts, Due
    <2> QED
      BY <1>2, <2>1, <1>d, NamedSteps DEF handleExecution, Skips
  <1>3. CASE handleVerification
    BY <1>3, <1>d, NamedSteps DEF handleVerification, Starts, Due, Skips
  <1>4. CASE handleEscalation
    BY <1>4, <1>d, NamedSteps DEF handleEscalation, Starts, Due
  <1>5. CASE handleRevision
    BY <1>5 DEF handleRevision, HandlePhase, Revise, Revises, Postpones
  <1> QED
    BY <1>1, <1>2, <1>3, <1>4, <1>5 DEF HandlePhase

\* The two patches of a labelled revision.
LEMMA ReviseLabelledMoves ==
    ASSUME ReviseLabelled
    PROVE  Revises \/ (UNCHANGED <<cond, analyzedGen>> /\ worker' = WorkerIdle)
  BY DEF ReviseLabelled, Revise, Revises

\* What completeStep writes on the condition of one step, for every outcome.
LEMMA OutcomeMoves ==
    ASSUME TypeOK, NEW s \in Steps, NEW j \in Job, WriteOutcome(s, j),
           NEW t \in WorkflowConditions
    PROVE  \/ cond'[t] = cond[t]
           \/ t = stepConditionType(s) /\ cond'[t].st = "False"
           \/ /\ t = stepConditionType(s) /\ j.out \in {"ok", "noaction"}
              /\ cond'[t].st = "True"
              /\ j.out = "noaction" => cond'[t].rs = "NoActionRequired"
           \/ /\ s = "verification" /\ j.out = "agentfailed" /\ t = "Escalated"
              /\ cond'[t].st = "Unknown"
  <1>0. /\ j.out \in Outcomes \cup {"failed"} /\ t \in ConditionTypes
        /\ stepConditionType(s) \in ConditionTypes
    BY StepConditionIsWorkflow, ConditionValues DEF Job
  <1>1. CASE j.out = "failed"
    <2>1. patchStepCondition(s, Cond("False", FailureReason(j.ph)))
      BY <1>1 DEF WriteOutcome
    <2> QED
      BY <1>0, <2>1 DEF patchStepCondition, SetCondition, TypeOK, Cond
  <1>2. CASE j.out \in {"ok", "noaction"}
    <2>1. SetCondition(stepConditionType(s),
             Cond("True", IF j.out = "noaction" THEN "NoActionRequired"
                          ELSE "Succeeded"))
      BY <1>2 DEF WriteOutcome
    <2> QED
      BY <1>0, <1>2, <2>1 DEF SetCondition, TypeOK, Cond
  <1>3. CASE j.out = "agentfailed" /\ s = "verification"
    <2>1. cond' = [cond EXCEPT
             !["Verified"]  = Cond("False", "VerificationFailed"),
             !["Escalated"] = Cond("Unknown", "VerificationFailed")]
      BY <1>3 DEF WriteOutcome
    <2> QED
      BY <1>0, <1>3, <2>1, NamedSteps DEF TypeOK, Cond
  <1>4. CASE j.out = "agentfailed" /\ s # "verification"
    <2>1. SetCondition(stepConditionType(s), Cond("False", "SandboxFailed"))
      BY <1>4 DEF WriteOutcome
    <2> QED
      BY <1>0, <2>1 DEF SetCondition, TypeOK, Cond
  <1> QED
    BY <1>0, <1>1, <1>2, <1>3, <1>4 DEF Outcomes

\* The patch of a settled step, as far as it writes.
Patches(h) ==
    patchStepResult(h) /\ job[h].pc = "patch" /\ WriteOutcome(job[h].step, job[h])

\* The four ways a workflow condition changes, each with those who may do it.
Forgotten(t) == cond'[t].st = "Absent" /\ Revises

Failed(t) ==
    /\ cond'[t].st = "False"
    /\ cond'[t].rs = "SandboxTimeout" =>
          \E h \in Handlers : Patches(h) /\ t = stepConditionType(job[h].step)

Progresses(t) ==
    /\ cond'[t].st = "Unknown"
    /\ \/ t = "Analyzed"
       \/ \E s \in Steps : Starts(s) /\ t = stepConditionType(s)
       \/ job["events"].pc = "progress" /\ t = stepConditionType(job["events"].step)
       \/ \E h \in Handlers :
             /\ Patches(h) /\ t = "Escalated"
             /\ job[h].step = "verification" /\ job[h].out = "agentfailed"

Succeeds(t) ==
    /\ cond'[t].st = "True"
    /\ \/ Skips /\ t \in {"Executed", "Verified"}
       \/ \E h \in Handlers :
             /\ Patches(h) /\ t = stepConditionType(job[h].step)
             /\ job[h].out \in {"ok", "noaction"}
             /\ job[h].out = "noaction" => cond'[t].rs = "NoActionRequired"

\* There is no fifth way: this is every write of a workflow condition.
LEMMA CondMoves ==
    ASSUME TypeOK, [Next]_vars, NEW t \in WorkflowConditions
    PROVE  \/ cond'[t] = cond[t]
           \/ Forgotten(t) \/ Failed(t) \/ Progresses(t) \/ Succeeds(t)
  <1> DEFINE Goal == \/ cond'[t] = cond[t]
                     \/ Forgotten(t) \/ Failed(t) \/ Progresses(t) \/ Succeeds(t)
  <1>t. t \in ConditionTypes /\ t \notin {"Denied", "Stopping", "EmergencyStopped"}
    BY ConditionValues DEF WorkflowConditions
  <1>c. cond \in [ConditionTypes -> Condition]
    BY DEF TypeOK
  <1>f. ASSUME NEW q, NEW rs, rs # "SandboxTimeout",
               SetCondition(q, Cond("False", rs))
        PROVE  Goal
    BY <1>f, <1>t, <1>c DEF SetCondition, Cond, Failed
  <1>u. CASE UNCHANGED cond
    BY <1>u
  <1>1. CASE RecordResolutionFailure
    BY <1>1, <1>f DEF RecordResolutionFailure
  <1>2. CASE HandlePhase \/ ReviseLabelled
    <2>1. ASSUME NEW s \in Steps, Starts(s) PROVE Goal
      <3>1. \/ SetCondition(stepConditionType(s), Cond("Unknown", "InProgress"))
            \/ UNCHANGED cond
        BY <2>1 DEF Starts, StartStep, StartFails
      <3>2. \/ t = stepConditionType(s) /\ cond'[t].st = "Unknown"
            \/ cond'[t] = cond[t]
        BY <3>1, <1>t, <1>c DEF SetCondition, Cond
      <3> QED
        BY <3>2, <2>1 DEF Progresses
    <2>2. CASE Skips
      <3>1. \/ t \in {"Executed", "Verified"} /\ cond'[t].st = "True"
            \/ cond'[t] = cond[t]
        BY <2>2, <1>t, <1>c DEF Skips, SkipExecution, SetCondition, Cond
      <3> QED
        BY <3>1, <2>2 DEF Succeeds
    <2>3. CASE SetCondition("Denied", Cond("True", "UserDenied"))
      BY <2>3, <1>t, <1>c DEF SetCondition
    <2>4. CASE Revises
      <3>1. \/ cond'[t] = Absent
            \/ t = "Analyzed" /\ cond'[t] = Cond("Unknown", "Revising")
        BY <2>4, <1>t, <1>c DEF Revises, WorkflowConditions
      <3>2. cond'[t].st = "Absent" \/ (t = "Analyzed" /\ cond'[t].st = "Unknown")
        <4>1. Absent.st = "Absent" /\ Cond("Unknown", "Revising").st = "Unknown"
          BY DEF Absent, Cond
        <4> QED
          BY <3>1, <4>1
      <3> QED
        BY <3>2, <2>4 DEF Forgotten, Progresses
    <2> QED
      BY <1>2, <2>1, <2>2, <2>3, <2>4, <1>u, HandlePhaseMoves, ReviseLabelledMoves
      DEF Postpones
  <1>3. CASE failStep
    <2>1. \/ SetCondition(stepConditionType(worker.step), Cond("False", "Failed"))
          \/ UNCHANGED cond
      BY <1>3 DEF failStep
    <2> QED
      BY <2>1, <1>f
  <1>4. CASE ReportProgress
    <2> DEFINE s == job["events"].step
    <2>1. job["events"].pc = "progress"
      BY <1>4 DEF ReportProgress, HandlerStep
    <2>2. \/ UNCHANGED cond
          \/ \E rs : SetCondition(stepConditionType(s), Cond("Unknown", rs))
      BY <1>4 DEF ReportProgress, patchStepCondition
    <2>3. \/ cond'[t] = cond[t]
          \/ t = stepConditionType(s) /\ cond'[t].st = "Unknown"
      <3>1. \A rs : Cond("Unknown", rs).st = "Unknown"
        BY DEF Cond
      <3> QED
        BY <2>2, <3>1, <1>t, <1>c DEF SetCondition
    <2> QED
      BY <2>1, <2>3 DEF Progresses
  <1>5. ASSUME NEW h \in Handlers, patchStepResult(h) PROVE Goal
    <2>1. job[h] \in Job /\ job[h].step \in Steps
      BY DEF TypeOK, Job
    <2>2. UNCHANGED cond \/ Patches(h)
      BY <1>5 DEF patchStepResult, HandlerStep, Patches
    <2>3. CASE Patches(h)
      <3>1. WriteOutcome(job[h].step, job[h])
        BY <2>3 DEF Patches
      <3> QED
        BY <2>1, <2>3, <3>1, OutcomeMoves DEF Failed, Progresses, Succeeds
    <2> QED
      BY <2>2, <2>3
  <1>6. ASSUME NEW a \in Actors, persistRunStop(a) PROVE Goal
    BY <1>6, <1>t, <1>c DEF persistRunStop
  <1>7. CASE persistRunStopGlobal
    BY <1>7, <1>t, <1>c DEF persistRunStopGlobal
  <1>8. ASSUME NEW b \in BOOLEAN, writeSuspensionOutcome(b) PROVE Goal
    <2>1. \/ cond'[t] = cond[t]
          \/ cond'[t] = Cond("False", "EmergencyStopFailed")
      BY <1>8, <1>t, <1>c DEF writeSuspensionOutcome, StopOutcome
    <2> QED
      BY <2>1 DEF Failed, Cond
  <1>9. \/ UNCHANGED cond
        \/ RecordResolutionFailure \/ HandlePhase \/ ReviseLabelled \/ failStep
        \/ ReportProgress
        \/ \E h \in Handlers : patchStepResult(h)
        \/ \E a \in Actors : persistRunStop(a)
        \/ persistRunStopGlobal
        \/ \E b \in BOOLEAN : writeSuspensionOutcome(b)
    <2>1. CASE UNCHANGED vars
      BY <2>1 DEF vars
    <2>2. CASE WorkerNext
      BY <2>2 DEF WorkerNext, ensureAgenticRunApproval, ResolutionFails,
         handleTerminalCleanup, LaunchStopped, LaunchFails, PrepareSandbox,
         createBarePod, AwaitDeletion, AwaitTimesOut, patchSandboxInfo, Boot
    <2>3. CASE HandlerNext
      BY <2>3 DEF HandlerNext, PodChanged, PodChangedOld, PodDeleted, PodEventFrame,
         handlePodTimeEvent, completeStep, releaseSandbox
    <2>4. CASE StopNext
      BY <2>4 DEF StopNext, CleanupSuspension, ResumeCleanup, suspensionCleanupPass,
         FinishPass, handleTerminalRecord
    <2>5. CASE UserNext
      BY <2>5 DEF UserNext, EditSpec, SyncApproval, Suspend, RecordActivation, Resume,
         WindowElapses, Decide
    <2>6. CASE ClusterNext
      BY <2>6 DEF ClusterNext, Crash, PodRuns, AgentReports, PodExits, PodRemoved,
         OutsideWorld
    <2> QED
      BY <2>1, <2>2, <2>3, <2>4, <2>5, <2>6 DEF Next
  <1> QED
    BY <1>1, <1>2, <1>3, <1>4, <1>5, <1>6, <1>7, <1>8, <1>9, <1>u

----------------------------------------------------------------------------
(* The Pod event handler and the ticker settle steps one at a time.         *)

Settling(h) == job[h].pc \in {"patch", "release"}

\* stepCondMu: the two never settle a step at the same time.
MutexInv == \A g, h \in Handlers : Settling(g) /\ Settling(h) => g = h

\* Handler h turns to a Pod of step s that it has seen.
Turns(h) ==
    /\ job'[h].pc \in {"progress", "complete"} /\ job'[h].step \in Steps
    /\ view[job'[h].step] # NoPod \/ pod[job'[h].step] # NoPod

Settles(h) == completeStep(h) /\ job'[h].pc = "patch"

\* What becomes of a handler in one step of the system.
LEMMA JobStep ==
    ASSUME TypeOK, [Next]_vars, NEW h \in Handlers
    PROVE  \/ job'[h] = job[h]
           \/ job'[h] = JobIdle
           \/ Turns(h)
           \/ Settles(h)
           \/ patchStepResult(h) /\ job'[h] = [job[h] EXCEPT !.pc = "release"]
  <1> DEFINE Goal == \/ job'[h] = job[h]
                     \/ job'[h] = JobIdle
                     \/ Turns(h)
                     \/ Settles(h)
                     \/ patchStepResult(h) /\ job'[h] = [job[h] EXCEPT !.pc = "release"]
  <1>j. job \in [Handlers -> Job]
    BY DEF TypeOK
  <1>i. ASSUME NEW g \in Handlers, SetJob(g, JobIdle) PROVE Goal
    BY <1>i, <1>j DEF SetJob
  <1>d. ASSUME NEW s \in Steps, NEW ph, Dispatch(s, ph),
               view[s] # NoPod \/ pod[s] # NoPod
        PROVE  Goal
    <2> DEFINE j == [JobIdle EXCEPT !.step = s, !.ph = ph,
                       !.pc = IF ph \in {"Pending", "Running"}
                              THEN "progress" ELSE "complete"]
    <2>1. j.pc \in {"progress", "complete"} /\ j.step = s
      BY DEF JobIdle
    <2>2. SetJob("events", j) \/ SetJob("events", JobIdle)
      BY <1>d DEF Dispatch
    <2> HIDE DEF j
    <2>3. job'[h] \in {job[h], JobIdle, j}
      BY <2>2, <1>j DEF SetJob
    <2> QED
      BY <2>1, <2>3, <1>d DEF Turns
  <1>1. ASSUME NEW s \in Steps, handlePodTimeEvent(s) PROVE Goal
    <2> DEFINE j == [JobIdle EXCEPT !.pc = "complete", !.step = s,
                       !.ph = IF view[s].ph \in {"Succeeded", "Failed"}
                              THEN view[s].ph ELSE "Timeout"]
    <2>1. j.pc = "complete" /\ j.step = s
      BY DEF JobIdle
    <2>2. SetJob("ticker", j) /\ view[s] # NoPod
      BY <1>1 DEF handlePodTimeEvent
    <2> HIDE DEF j
    <2>3. job'[h] \in {job[h], j}
      BY <2>2, <1>j DEF SetJob
    <2> QED
      BY <2>1, <2>2, <2>3 DEF Turns
  <1>2. ASSUME NEW g \in Handlers, completeStep(g) PROVE Goal
    <2>1. \/ SetJob(g, JobIdle)
          \/ \E j : SetJob(g, [job[g] EXCEPT !.pc = "patch", !.out = j,
                                  !.idx = nextResultIndex(job[g].step)])
      BY <1>2 DEF completeStep
    <2>2. CASE \E j : SetJob(g, [job[g] EXCEPT !.pc = "patch", !.out = j,
                                    !.idx = nextResultIndex(job[g].step)])
      <3>1. job'[h] = job[h] \/ (g = h /\ job'[h].pc = "patch")
        BY <2>2, <1>j DEF SetJob, Job
      <3> QED
        BY <3>1, <1>2 DEF Settles
    <2> QED
      BY <2>1, <2>2, <1>i
  <1>3. ASSUME NEW g \in Handlers, patchStepResult(g) PROVE Goal
    <2>1. \/ SetJob(g, JobIdle)
          \/ SetJob(g, [job[g] EXCEPT !.pc = "release"])
      BY <1>3 DEF patchStepResult
    <2>2. CASE SetJob(g, [job[g] EXCEPT !.pc = "release"])
      BY <2>2, <1>3, <1>j DEF SetJob
    <2> QED
      BY <2>1, <2>2, <1>i
  <1>4. CASE HandlerNext
    <2>1. ASSUME NEW s \in Steps, PodChanged(s) \/ PodChangedOld(s) \/ PodDeleted(s)
          PROVE  Goal
      BY <2>1, <1>d DEF PodChanged, PodChangedOld, PodDeleted
    <2>2. ASSUME NEW g \in Handlers, releaseSandbox(g) PROVE Goal
      BY <2>2, <1>i DEF releaseSandbox
    <2>3. CASE ReportProgress
      <3>1. SetJob("events", JobIdle) /\ "events" \in Handlers
        BY <2>3 DEF ReportProgress, Handlers
      <3> QED
        BY <3>1, <1>i
    <2> QED
      BY <1>4, <1>1, <1>2, <1>3, <2>1, <2>2, <2>3 DEF HandlerNext
  <1>5. CASE Crash
    BY <1>5 DEF Crash
  <1>6. CASE UNCHANGED job
    BY <1>6
  <1>7. HandlerNext \/ Crash \/ UNCHANGED job
    <2>1. CASE UNCHANGED vars
      BY <2>1 DEF vars
    <2>2. CASE WorkerNext
      BY <2>2 DEF WorkerNext, ensureAgenticRunApproval, ResolutionFails,
         RecordResolutionFailure, HandlePhase, ReviseLabelled, handleTerminalCleanup,
         LaunchStopped, LaunchFails, PrepareSandbox, createBarePod, AwaitDeletion, AwaitTimesOut,
         patchSandboxInfo, failStep, Boot, Launching
    <2>4. CASE StopNext
      BY <2>4 DEF StopNext, persistRunStopGlobal, CleanupSuspension, persistRunStop,
         ResumeCleanup, suspensionCleanupPass, FinishPass, handleTerminalRecord
    <2>5. CASE UserNext
      BY <2>5 DEF UserNext, EditSpec, SyncApproval, Suspend, RecordActivation, Resume,
         WindowElapses, Decide
    <2>6. CASE ClusterNext
      BY <2>6 DEF ClusterNext, PodRuns, AgentReports, PodExits, PodRemoved,
         OutsideWorld
    <2> QED
      BY <2>1, <2>2, <2>4, <2>5, <2>6 DEF Next
  <1> QED
    BY <1>4, <1>5, <1>6, <1>7

\* A handler that settles a step had the mutex for itself, and leaves the other
\* handler alone.
LEMMA SettlesAlone ==
    ASSUME TypeOK, NEW h \in Handlers, completeStep(h) \/ patchStepResult(h)
    PROVE  /\ \A g \in Handlers \ {h} : job'[g] = job[g]
           /\ completeStep(h) => \A g \in Handlers \ {h} : ~Settling(g)
           /\ patchStepResult(h) => job[h].pc = "patch"
  <1>1. \E j : SetJob(h, j)
    BY DEF completeStep, patchStepResult
  <1> QED
    BY <1>1 DEF SetJob, TypeOK, completeStep, patchStepResult, MutexFree, Settling,
       HandlerStep

\* What completeStep settles on: the step was open, and the outcome is what the
\* Result CR under the next index says, or a failure.
LEMMA SettlesMoves ==
    ASSUME TypeOK, NEW h \in Handlers, Settles(h)
    PROVE  /\ UNCHANGED <<cond, results, cr>>
           /\ job[h].pc = "complete" /\ job'[h].step = job[h].step
           /\ cond[stepConditionType(job[h].step)].st \in {"Absent", "Unknown"}
           /\ job'[h].idx = nextResultIndex(job[h].step)
           /\ job'[h].out \in validateResultCR(job[h].step)
  <1> DEFINE s == job[h].step
             settled(out) == [job[h] EXCEPT !.pc = "patch", !.out = out,
                                            !.idx = nextResultIndex(s)]
  <1>1. job \in [Handlers -> Job] /\ job[h] \in Job
    BY DEF TypeOK
  <1>2. ASSUME NEW out
        PROVE  /\ settled(out).step = s /\ settled(out).out = out
               /\ settled(out).idx = nextResultIndex(s)
    BY <1>1 DEF Job
  <1>3. ~SetJob(h, JobIdle)
    BY <1>1 DEF Settles, SetJob, JobIdle
  <1>4. "failed" \in validateResultCR(s)
    BY DEF validateResultCR
  <1>5. /\ UNCHANGED <<cond, results, cr>> /\ job[h].pc = "complete"
        /\ cond[stepConditionType(s)].st \in {"Absent", "Unknown"}
        /\ \E out \in validateResultCR(s) : SetJob(h, settled(out))
    BY <1>3, <1>4 DEF Settles, completeStep, HandlerStep
  <1> HIDE DEF settled, s
  <1>6. PICK out \in validateResultCR(s) : job'[h] = settled(out)
    BY <1>1, <1>5 DEF SetJob
  <1> QED
    BY <1>2, <1>5, <1>6 DEF s

\* The mutex is kept by every step.
LEMMA MutexStep ==
    ASSUME TypeOK, MutexInv, [Next]_vars PROVE MutexInv'
  <1>1. SUFFICES ASSUME NEW g \in Handlers, NEW h \in Handlers, g # h,
                        Settling(g)', Settling(h)'
                 PROVE  FALSE
    BY DEF MutexInv
  <1>2. ASSUME NEW k \in Handlers, Settling(k)'
        PROVE  Settling(k) \/ completeStep(k)
    <2>1. job'[k].pc \in {"patch", "release"}
      BY <1>2 DEF Settling
    <2>2. job'[k] # JobIdle /\ ~Turns(k)
      BY <2>1 DEF JobIdle, Turns
    <2>3. CASE patchStepResult(k)
      BY <2>3, SettlesAlone DEF Settling
    <2> QED
      BY <2>1, <2>2, <2>3, JobStep DEF Settles, Settling
  <1>3. ASSUME NEW k \in Handlers, completeStep(k)
        PROVE  \A i \in Handlers \ {k} : ~Settling(i)'
    BY <1>3, SettlesAlone DEF Settling
  <1> QED
    BY <1>1, <1>2, <1>3 DEF MutexInv

----------------------------------------------------------------------------
(* A timeout is never turned into a success.                                *)

\* A handler about to write an outcome does so on a step nobody has timed out.
TimeoutInv ==
    \A h \in Handlers :
       job[h].pc = "patch" =>
          cond[stepConditionType(job[h].step)] # Cond("False", "SandboxTimeout")

\* A condition turns to a timeout only under the mutex, when no other handler is
\* about to write.
LEMMA TimeoutStep ==
    ASSUME TypeOK, MutexInv, TimeoutInv, [Next]_vars PROVE TimeoutInv'
  <1>1. SUFFICES ASSUME NEW h \in Handlers, job'[h].pc = "patch",
                        cond'[stepConditionType(job'[h].step)] =
                           Cond("False", "SandboxTimeout")
                 PROVE  FALSE
    BY DEF TimeoutInv
  <1> DEFINE t == stepConditionType(job'[h].step)
  <1>t. t \in WorkflowConditions
    <2>1. job'[h].step \in Steps
      BY TypeOKStep DEF TypeOK, Job
    <2> QED
      BY <2>1, StepConditionIsWorkflow
  <1>2. CASE Settles(h)
    <2>1. /\ cond' = cond /\ job'[h].step = job[h].step
          /\ cond[stepConditionType(job[h].step)].st \in {"Absent", "Unknown"}
      BY <1>2, SettlesMoves
    <2> QED
      BY <1>1, <2>1 DEF Cond
  <1>3. CASE job'[h] = job[h]
    <2>1. cond[t] # Cond("False", "SandboxTimeout")
      BY <1>1, <1>3 DEF TimeoutInv
    <2>2. cond'[t] # cond[t] /\ cond'[t].st = "False" /\ cond'[t].rs = "SandboxTimeout"
      BY <1>1, <2>1 DEF Cond
    <2> HIDE DEF t
    <2>3. Failed(t)
      BY <1>t, <2>2, CondMoves DEF Forgotten, Progresses, Succeeds
    <2>4. PICK g \in Handlers : Patches(g)
      BY <2>2, <2>3 DEF Failed
    <2>5. g = h
      BY <1>1, <1>3, <2>4 DEF MutexInv, Settling, Patches
    <2>6. job'[h].pc # "patch"
      BY <2>4, <2>5 DEF Patches, patchStepResult, SetJob, TypeOK, Job, JobIdle
    <2> QED
      BY <1>1, <2>6
  <1>4. job'[h] # JobIdle /\ ~Turns(h)
    BY <1>1 DEF JobIdle, Turns
  <1>5. CASE patchStepResult(h) /\ job'[h] = [job[h] EXCEPT !.pc = "release"]
    BY <1>1, <1>5 DEF TypeOK, Job
  <1> QED
    BY <1>2, <1>3, <1>4, <1>5, JobStep

\* What the two handlers rely on, in every reachable state.
LEMMA HandlersExclude ==
    Spec => [](TypeOK /\ MutexInv /\ TimeoutInv)
  <1>1. Init => TypeOK /\ MutexInv /\ TimeoutInv
    <2>1. ASSUME Init PROVE MutexInv /\ TimeoutInv
      BY <2>1 DEF Init, MutexInv, TimeoutInv, Settling, JobIdle
    <2> QED
      BY <2>1, TypeOKInit
  <1>2. TypeOK /\ MutexInv /\ TimeoutInv /\ [Next]_vars
        => (TypeOK /\ MutexInv /\ TimeoutInv)'
    BY TypeOKStep, MutexStep, TimeoutStep
  <1> QED
    BY <1>1, <1>2, PTL DEF Spec

\* Whichever of the event handler and the ticker comes first, and however many
\* cached, lost and repeated events there are: a step that was timed out is never
\* recorded as successful afterwards, by a completion or by a skip.
THEOREM TimeoutWinsAlways == Spec => TimeoutWins
  <1>1. ASSUME TypeOK, TimeoutInv, [Next]_vars, NEW t \in WorkflowConditions,
               cond[t] = Cond("False", "SandboxTimeout")
        PROVE  cond'[t].st # "True"
    <2>0. cond[t].st = "False"
      BY <1>1 DEF Cond
    <2>1. SUFFICES ASSUME Succeeds(t) PROVE FALSE
      BY <1>1, <2>0, CondMoves DEF Forgotten, Progresses, Failed
    <2>2. CASE Skips /\ t \in {"Executed", "Verified"}
      <3>1. /\ Phase \in {"Proposed", "Executing"} => cond["Executed"].st # "False"
            /\ Phase \in {"Proposed", "Executing", "Verifying"} => cond["Verified"].st # "False"
        BY <1>1, PhaseConditions
      <3>2. t = "Executed" => Phase \in {"Proposed", "Executing"}
        <4>1. CASE SetCondition("Verified", Cond("True", "Skipped")) /\ t = "Executed"
          BY <4>1, <1>1, <2>0, <2>1 DEF SetCondition, TypeOK, Succeeds
        <4> QED
          BY <2>2, <4>1 DEF Skips
      <3> QED
        BY <2>0, <2>2, <3>1, <3>2 DEF Skips
    <2>3. ASSUME NEW h \in Handlers, Patches(h), t = stepConditionType(job[h].step)
          PROVE  FALSE
      BY <1>1, <2>3 DEF TimeoutInv, Patches
    <2> QED
      BY <2>1, <2>2, <2>3 DEF Succeeds
  <1>2. TypeOK /\ MutexInv /\ TimeoutInv /\ [Next]_vars =>
          [\A t \in WorkflowConditions :
             cond[t] = Cond("False", "SandboxTimeout") => cond'[t].st # "True"]_vars
    BY <1>1
  <1> QED
    BY <1>2, HandlersExclude, PTL DEF Spec, TimeoutWins

----------------------------------------------------------------------------
(* No result counts twice.                                                  *)

\* An entry is never listed before its index, so the next index is new to the
\* list; a handler keeps the index it settled on while failStep may add others.
LinkInv ==
    /\ \A s \in Steps : \A i \in DOMAIN results[s] : results[s][i].idx <= i
    /\ \A h \in Handlers : job[h].pc = "patch" =>
          /\ job[h].idx <= Len(results[job[h].step]) + 1
          /\ \A i \in DOMAIN results[job[h].step] :
                results[job[h].step][i].out = "succeeded" =>
                   results[job[h].step][i].idx # job[h].idx
    /\ SuccessLinkedOnce

\* Two writers add to the list of results: failStep a failure, and a handler with
\* the mutex the outcome it has settled on.
LEMMA ResultsStep ==
    ASSUME TypeOK, [Next]_vars
    PROVE  \/ UNCHANGED results
           \/ LinkResult(worker.step, nextResultIndex(worker.step), "failed")
              /\ UNCHANGED job
           \/ \E h \in Handlers, out \in {"succeeded", "failed"} :
                 patchStepResult(h) /\ LinkResult(job[h].step, job[h].idx, out)
  <1>1. CASE UNCHANGED vars
    BY <1>1 DEF vars
  <1>2. CASE WorkerNext
    <2>1. CASE failStep
      BY <2>1 DEF failStep, Launching
    <2>2. CASE HandlePhase
      BY <2>2 DEF HandlePhase, handleAnalysis, handleExecution, handleVerification,
         handleEscalation, handleRevision, denyAgenticRun, SkipExecution, StartStep,
         StartFails, Revise
    <2> QED
      BY <1>2, <2>1, <2>2
      DEF WorkerNext, ensureAgenticRunApproval, ResolutionFails,
          RecordResolutionFailure, handleTerminalCleanup, LaunchStopped, LaunchFails,
          PrepareSandbox, createBarePod, AwaitDeletion, AwaitTimesOut,
          patchSandboxInfo, Boot, ReviseLabelled, Revise
  <1>3. CASE HandlerNext
    <2>1. ASSUME NEW h \in Handlers, patchStepResult(h)
          PROVE  \/ UNCHANGED results
                 \/ \E out \in {"succeeded", "failed"} :
                       LinkResult(job[h].step, job[h].idx, out)
      <3>1. UNCHANGED results \/ WriteOutcome(job[h].step, job[h])
        BY <2>1 DEF patchStepResult
      <3>2. job[h].out \in Outcomes \cup {"failed"}
        BY DEF TypeOK, Job
      <3> QED
        BY <3>1, <3>2 DEF WriteOutcome, Outcomes
    <2> QED
      BY <1>3, <2>1
      DEF HandlerNext, ReportProgress, PodChanged, PodChangedOld, PodDeleted,
          PodEventFrame, handlePodTimeEvent, completeStep, releaseSandbox
  <1>4. CASE StopNext
    BY <1>4 DEF StopNext, persistRunStopGlobal, CleanupSuspension, persistRunStop,
       ResumeCleanup, suspensionCleanupPass, FinishPass, handleTerminalRecord
  <1>5. CASE UserNext
    BY <1>5 DEF UserNext, EditSpec, SyncApproval, Suspend, RecordActivation, Resume,
       WindowElapses, Decide
  <1>6. CASE ClusterNext
    BY <1>6 DEF ClusterNext, Crash, PodRuns, AgentReports, PodExits, PodRemoved,
       OutsideWorld
  <1> QED
    BY <1>1, <1>2, <1>3, <1>4, <1>5, <1>6 DEF Next

\* What linking one more result does to the lists.
LEMMA LinkGrows ==
    ASSUME TypeOK, NEW s \in Steps, NEW i \in Nat, NEW out, LinkResult(s, i, out)
    PROVE  /\ \A q \in Steps \ {s} : results'[q] = results[q]
           /\ Len(results[s]) \in Nat /\ Len(results'[s]) = Len(results[s]) + 1
           /\ DOMAIN results'[s] = 1 .. Len(results[s]) + 1
           /\ DOMAIN results[s] = 1 .. Len(results[s])
           /\ \A k \in DOMAIN results[s] : results'[s][k] = results[s][k]
           /\ results'[s][Len(results[s]) + 1] = [idx |-> i, out |-> out]
  <1>1. results'[s] = Append(results[s], [idx |-> i, out |-> out])
    BY DEF LinkResult, TypeOK
  <1>2. results[s] \in Seq(StepResultRef)
    BY DEF TypeOK
  <1>3. \A q \in Steps \ {s} : results'[q] = results[q]
    BY DEF LinkResult, TypeOK
  <1> QED
    BY <1>1, <1>2, <1>3

\* One more entry keeps every entry at or after its index, and keeps successes
\* apart, when it is a failure or its index is new among the successes.
LEMMA LinkKeeps ==
    ASSUME TypeOK, LinkInv, NEW s \in Steps, NEW i \in Nat,
           NEW out \in {"succeeded", "failed"}, LinkResult(s, i, out),
           i <= Len(results[s]) + 1,
           out = "succeeded" =>
              \A k \in DOMAIN results[s] :
                 results[s][k].out = "succeeded" => results[s][k].idx # i
    PROVE  /\ \A q \in Steps : \A k \in DOMAIN results'[q] : results'[q][k].idx <= k
           /\ SuccessLinkedOnce'
  <1> DEFINE n == Len(results[s]) + 1
             new == [idx |-> i, out |-> out]
  <1>1. /\ \A q \in Steps \ {s} : results'[q] = results[q]
        /\ n \in Nat /\ n \notin DOMAIN results[s]
        /\ DOMAIN results'[s] = DOMAIN results[s] \cup {n}
        /\ \A k \in DOMAIN results[s] : results'[s][k] = results[s][k]
        /\ results'[s][n] = new
    BY LinkGrows
  <1>2. new.idx = i /\ new.out = out
    OBVIOUS
  <1> HIDE DEF n, new
  <1>3. ASSUME NEW q \in Steps, NEW k \in DOMAIN results'[q]
        PROVE  results'[q][k].idx <= k
    <2>1. CASE q = s /\ k = n
      BY <1>1, <1>2, <2>1 DEF n
    <2>2. CASE ~(q = s /\ k = n)
      BY <1>1, <1>3, <2>2 DEF LinkInv
    <2> QED
      BY <2>1, <2>2
  <1>4. ASSUME NEW q \in Steps, NEW k \in DOMAIN results'[q], NEW l \in DOMAIN results'[q],
               results'[q][k] = results'[q][l], results'[q][k].out = "succeeded"
        PROVE  k = l
    <2>1. CASE q # s
      BY <1>1, <1>4, <2>1 DEF LinkInv, SuccessLinkedOnce
    <2>2. CASE q = s /\ k \in DOMAIN results[s] /\ l \in DOMAIN results[s]
      BY <1>1, <1>4, <2>2 DEF LinkInv, SuccessLinkedOnce
    <2>3. ASSUME NEW m \in DOMAIN results[s], results[s][m] = new, new.out = "succeeded"
          PROVE  FALSE
      BY <1>2, <2>3
    <2>4. CASE q = s /\ ~(k \in DOMAIN results[s] /\ l \in DOMAIN results[s])
      BY <1>1, <1>4, <2>3, <2>4
    <2> QED
      BY <2>1, <2>2, <2>4
  <1>5. SuccessLinkedOnce'
    BY <1>4 DEF SuccessLinkedOnce
  <1> QED
    BY <1>3, <1>5

\* Every step keeps the lists of results.
LEMMA LinkStep ==
    ASSUME TypeOK, MutexInv, LinkInv, [Next]_vars PROVE LinkInv'
  <1>r. results \in [Steps -> Seq(StepResultRef)]
    BY DEF TypeOK
  <1>j. \A h \in Handlers : job[h] \in Job /\ job[h].step \in Steps /\ job[h].idx \in Nat
    BY DEF TypeOK, Job
  <1>p. ASSUME NEW h \in Handlers, job'[h].pc = "patch", ~Settles(h)
        PROVE  job'[h] = job[h]
    <2>1. job'[h] # JobIdle /\ ~Turns(h)
      BY <1>p DEF JobIdle, Turns
    <2>2. job'[h] # [job[h] EXCEPT !.pc = "release"]
      BY <1>p, <1>j DEF Job
    <2> QED
      BY <1>p, <2>1, <2>2, JobStep
  <1> DEFINE Waits(h) ==
        /\ job'[h].idx <= Len(results'[job'[h].step]) + 1
        /\ \A i \in DOMAIN results'[job'[h].step] :
              results'[job'[h].step][i].out = "succeeded" =>
                 results'[job'[h].step][i].idx # job'[h].idx
  <1>1. CASE UNCHANGED results
    <2>1. ASSUME NEW h \in Handlers, job'[h].pc = "patch" PROVE Waits(h)
      <3>1. CASE Settles(h)
        <4> DEFINE s == job[h].step
        <4>1. /\ s \in Steps /\ job'[h].step = s
              /\ job'[h].idx = Len(results[s]) + 1
          BY <3>1, <1>j, SettlesMoves DEF nextResultIndex
        <4>2. Len(results[s]) \in Nat /\ DOMAIN results[s] = 1 .. Len(results[s])
          BY <4>1, <1>r
        <4>3. \A i \in DOMAIN results[s] : results[s][i].idx <= i
          BY <4>1 DEF LinkInv
        <4>4. \A i \in DOMAIN results[s] : results[s][i].idx \in Nat
          <5>1. results[s] \in Seq(StepResultRef)
            BY <4>1, <1>r
          <5>2. \A i \in DOMAIN results[s] : results[s][i] \in StepResultRef
            BY <5>1
          <5> QED
            BY <5>2 DEF StepResultRef
        <4> HIDE DEF s
        <4> QED
          BY <1>1, <4>1, <4>2, <4>3, <4>4
      <3>2. CASE ~Settles(h)
        BY <1>1, <2>1, <3>2, <1>p DEF LinkInv
      <3> QED
        BY <3>1, <3>2
    <2> QED
      BY <1>1, <2>1 DEF LinkInv, SuccessLinkedOnce
  <1>2. CASE /\ LinkResult(worker.step, nextResultIndex(worker.step), "failed")
             /\ UNCHANGED job
    <2> DEFINE s == worker.step
    <2>1. s \in Steps /\ nextResultIndex(s) \in Nat
          /\ nextResultIndex(s) <= Len(results[s]) + 1
      <3>1. s \in Steps
        BY DEF TypeOK, Worker
      <3> QED
        BY <3>1, <1>r DEF nextResultIndex
    <2>2. /\ \A q \in Steps : \A k \in DOMAIN results'[q] : results'[q][k].idx <= k
          /\ SuccessLinkedOnce'
      BY <1>2, <2>1, LinkKeeps
    <2>3. ASSUME NEW h \in Handlers, job'[h].pc = "patch" PROVE Waits(h)
      <3>0. job[h].pc = "patch" /\ job'[h] = job[h]
        BY <1>2, <2>3
      <3>1. CASE job[h].step = s
        <4>1. /\ Len(results'[s]) = Len(results[s]) + 1 /\ Len(results[s]) \in Nat
              /\ DOMAIN results'[s] = 1 .. Len(results[s]) + 1
              /\ DOMAIN results[s] = 1 .. Len(results[s])
              /\ \A k \in DOMAIN results[s] : results'[s][k] = results[s][k]
              /\ results'[s][Len(results[s]) + 1].out = "failed"
          <5>1. results'[s][Len(results[s]) + 1] =
                   [idx |-> nextResultIndex(s), out |-> "failed"]
            BY <1>2, <2>1, LinkGrows
          <5>2. results'[s][Len(results[s]) + 1].out = "failed"
            BY <5>1
          <5> QED
            BY <1>2, <2>1, <5>2, LinkGrows
        <4>2. /\ job[h].idx <= Len(results[s]) + 1 /\ job[h].idx \in Nat
              /\ \A i \in DOMAIN results[s] :
                    results[s][i].out = "succeeded" => results[s][i].idx # job[h].idx
          BY <3>0, <3>1, <1>j DEF LinkInv
        <4>3. job'[h].step = s /\ job'[h].idx = job[h].idx
          BY <3>0, <3>1
        <4> HIDE DEF s
        <4>4. job'[h].idx <= Len(results'[s]) + 1
          BY <4>1, <4>2, <4>3
        <4>5. \A i \in DOMAIN results'[s] :
                 results'[s][i].out = "succeeded" => results'[s][i].idx # job'[h].idx
          BY <4>1, <4>2, <4>3
        <4> QED
          BY <4>3, <4>4, <4>5
      <3>2. CASE job[h].step # s
        <4>1. results'[job[h].step] = results[job[h].step]
          BY <1>2, <2>1, <3>2, <1>j, LinkGrows
        <4> QED
          BY <3>0, <4>1 DEF LinkInv
      <3> QED
        BY <3>1, <3>2
    <2> QED
      BY <2>2, <2>3 DEF LinkInv
  <1>3. ASSUME NEW h \in Handlers, NEW out \in {"succeeded", "failed"},
               patchStepResult(h), LinkResult(job[h].step, job[h].idx, out)
        PROVE  LinkInv'
    <2>1. job[h].pc = "patch"
      BY <1>3, SettlesAlone
    <2>2. /\ \A q \in Steps : \A k \in DOMAIN results'[q] : results'[q][k].idx <= k
          /\ SuccessLinkedOnce'
      BY <1>3, <2>1, <1>j, LinkKeeps DEF LinkInv
    <2>3. ASSUME NEW g \in Handlers, job'[g].pc = "patch" PROVE FALSE
      <3>1. CASE g = h
        BY <1>3, <2>3, <3>1, <1>j DEF patchStepResult, SetJob, TypeOK, Job, JobIdle
      <3>2. CASE g # h
        BY <1>3, <2>1, <2>3, <3>2, SettlesAlone DEF MutexInv, Settling
      <3> QED
        BY <3>1, <3>2
    <2> QED
      BY <2>2, <2>3 DEF LinkInv
  <1> QED
    BY <1>1, <1>2, <1>3, ResultsStep

\* A Result CR is counted as a success at most once, for every number of revisions,
\* restarts, adopted Pods and failed patches, and although the event handler, the
\* ticker and failStep all add to the same list.
THEOREM SuccessLinkedOnceAlways == Spec => []SuccessLinkedOnce
  <1>1. Init => LinkInv
    <2>1. ASSUME Init PROVE LinkInv
      BY <2>1 DEF Init, LinkInv, SuccessLinkedOnce, JobIdle
    <2> QED
      BY <2>1
  <1>2. TypeOK /\ MutexInv /\ TimeoutInv /\ LinkInv /\ [Next]_vars => LinkInv'
    BY LinkStep
  <1>3. LinkInv => SuccessLinkedOnce
    BY DEF LinkInv
  <1> QED
    BY <1>1, <1>2, <1>3, HandlersExclude, PTL DEF Spec

----------------------------------------------------------------------------
(* The worker, the Pods and the Result CRs.                                 *)

LaunchPCs == {"launch", "create", "await"}

\* The worker comes to a step by starting it, or by revising the run, and stays
\* with it until the launch is over.
LEMMA WorkerStep ==
    ASSUME TypeOK, [Next]_vars
    PROVE  \/ worker'.pc \in {"boot", "idle"}
           \/ worker'.step = "analysis"
           \/ /\ worker.pc \notin {"boot", "idle"} /\ worker'.step = worker.step
              /\ worker'.pc \in LaunchPCs => worker.pc \in LaunchPCs
           \/ \E s \in Steps :
                 /\ Starts(s) /\ worker'.step = s
                 /\ worker'.pc \in LaunchPCs => StartStep(s)
  <1>1. CASE UNCHANGED worker
    BY <1>1
  <1>2. CASE HandlePhase
    <2>1. ASSUME NEW s \in Steps, Starts(s)
          PROVE  worker'.step = s /\ (worker'.pc \in LaunchPCs => StartStep(s))
      BY <2>1 DEF Starts, StartStep, StartFails, WorkerIdle, LaunchPCs
    <2>2. ASSUME Skips PROVE UNCHANGED worker
      BY <2>2 DEF Skips, SkipExecution
    <2>3. ASSUME Revises \/ Postpones PROVE worker'.step = "analysis"
      BY <2>3 DEF Revises, Postpones, WorkerIdle
    <2> QED
      BY <1>1, <1>2, <2>1, <2>2, <2>3, HandlePhaseMoves
  <1>3. CASE LaunchFails \/ PrepareSandbox \/ createBarePod \/ AwaitDeletion
             \/ AwaitTimesOut
    <2>1. \/ worker' = WorkerIdle
          \/ /\ worker.pc \in {"launch", "create", "await", "info"}
             /\ worker'.step = worker.step
             /\ worker'.pc \in LaunchPCs => worker.pc \in LaunchPCs
      BY <1>3 DEF LaunchFails, PrepareSandbox, createBarePod, AwaitDeletion,
         AwaitTimesOut, Launching, TypeOK, Worker, LaunchPCs
    <2> QED
      BY <2>1 DEF WorkerIdle
  <1>4. CASE \/ LaunchStopped \/ patchSandboxInfo \/ failStep \/ Boot \/ Crash
             \/ ResolutionFails \/ RecordResolutionFailure \/ ReviseLabelled
    BY <1>4 DEF LaunchStopped, patchSandboxInfo, failStep, Boot, Crash, WorkerIdle,
       ResolutionFails, RecordResolutionFailure, ReviseLabelled, Revise
  <1>5. \/ UNCHANGED worker \/ HandlePhase
        \/ LaunchFails \/ PrepareSandbox \/ createBarePod \/ AwaitDeletion
        \/ AwaitTimesOut
        \/ LaunchStopped \/ patchSandboxInfo \/ failStep \/ Boot \/ Crash
        \/ ResolutionFails \/ RecordResolutionFailure \/ ReviseLabelled
    <2>1. CASE UNCHANGED vars
      BY <2>1 DEF vars
    <2>2. CASE WorkerNext
      BY <2>2 DEF WorkerNext, ensureAgenticRunApproval, handleTerminalCleanup
    <2>3. CASE HandlerNext
      BY <2>3 DEF HandlerNext, ReportProgress, PodChanged, PodChangedOld, PodDeleted,
         PodEventFrame, handlePodTimeEvent, completeStep, patchStepResult,
         releaseSandbox, HandlerStep
    <2>4. CASE StopNext
      BY <2>4 DEF StopNext, persistRunStopGlobal, CleanupSuspension, persistRunStop,
         ResumeCleanup, suspensionCleanupPass, FinishPass, handleTerminalRecord
    <2>5. CASE UserNext
      BY <2>5 DEF UserNext, EditSpec, SyncApproval, Suspend, RecordActivation, Resume,
         WindowElapses, Decide
    <2>6. CASE ClusterNext
      BY <2>6 DEF ClusterNext, PodRuns, AgentReports, PodExits, PodRemoved,
         OutsideWorld
    <2> QED
      BY <2>1, <2>2, <2>3, <2>4, <2>5, <2>6 DEF Next
  <1> QED
    BY <1>1, <1>2, <1>3, <1>4, <1>5

\* The informer cache shows a Pod that exists or that it has shown before.
LEMMA ViewStep ==
    ASSUME TypeOK, [Next]_vars, NEW s \in Steps, view'[s] # NoPod
    PROVE  view[s] # NoPod \/ pod[s] # NoPod
  <1>1. CASE UNCHANGED view
    BY <1>1
  <1>2. ASSUME NEW q \in Steps, PodChanged(q) \/ PodChangedOld(q) \/ PodDeleted(q)
        PROVE  view[s] # NoPod \/ pod[s] # NoPod
    BY <1>2 DEF PodChanged, PodChangedOld, PodDeleted, TypeOK
  <1>3. CASE Crash
    BY <1>3 DEF Crash
  <1>4. \/ UNCHANGED view \/ Crash
        \/ \E q \in Steps : PodChanged(q) \/ PodChangedOld(q) \/ PodDeleted(q)
    <2>1. CASE UNCHANGED vars
      BY <2>1 DEF vars
    <2>2. CASE WorkerNext
      BY <2>2 DEF WorkerNext, ensureAgenticRunApproval, ResolutionFails,
         RecordResolutionFailure, HandlePhase, ReviseLabelled, handleTerminalCleanup,
         LaunchStopped, LaunchFails, PrepareSandbox, createBarePod, AwaitDeletion, AwaitTimesOut,
         patchSandboxInfo, failStep, Boot, Launching
    <2>3. CASE HandlerNext
      BY <2>3 DEF HandlerNext, ReportProgress, handlePodTimeEvent, completeStep,
         patchStepResult, releaseSandbox, HandlerStep
    <2>4. CASE StopNext
      BY <2>4 DEF StopNext, persistRunStopGlobal, CleanupSuspension, persistRunStop,
         ResumeCleanup, suspensionCleanupPass, FinishPass, handleTerminalRecord
    <2>5. CASE UserNext
      BY <2>5 DEF UserNext, EditSpec, SyncApproval, Suspend, RecordActivation, Resume,
         WindowElapses, Decide
    <2>6. CASE ClusterNext
      BY <2>6 DEF ClusterNext, PodRuns, AgentReports, PodExits, PodRemoved,
         OutsideWorld
    <2> QED
      BY <2>1, <2>2, <2>3, <2>4, <2>5, <2>6 DEF Next
  <1> QED
    BY <1>1, <1>2, <1>3, <1>4

\* Result CRs are only added: by failStep for the generation it reads, or by the
\* agent of an existing Pod for the generation of its input.
LEMMA CrStep ==
    ASSUME TypeOK, [Next]_vars
    PROVE  /\ cr \subseteq cr'
           /\ \A c \in cr' \ cr :
                \/ c.out = "agentfailed" /\ c.gen = gen
                \/ /\ c.step \in Steps /\ pod[c.step] # NoPod
                   /\ c.gen = pod[c.step].gen
                   /\ c.out = "noaction" => c.step = "analysis"
  <1>1. CASE UNCHANGED cr
    BY <1>1
  <1>2. CASE failStep
    <2>1. \/ UNCHANGED cr
          \/ cr' = cr \cup {FailureCR(worker.step, nextResultIndex(worker.step))}
      BY <1>2 DEF failStep, createIdempotent
    <2>2. \A s, i : FailureCR(s, i).out = "agentfailed" /\ FailureCR(s, i).gen = gen
      BY DEF FailureCR
    <2> QED
      BY <2>1, <2>2
  <1>3. ASSUME NEW s \in Steps, AgentReports(s)
        PROVE  /\ cr \subseteq cr'
               /\ \A c \in cr' \ cr :
                    /\ c.step \in Steps /\ pod[c.step] # NoPod
                    /\ c.gen = pod[c.step].gen
                    /\ c.out = "noaction" => c.step = "analysis"
    <2>1. PICK out \in Reports :
             /\ out = "noaction" => s = "analysis"
             /\ cr' = cr \cup {[step |-> s, idx |-> pod[s].idx, out |-> out,
                                gen |-> pod[s].gen]}
      BY <1>3 DEF AgentReports
    <2>2. pod[s] # NoPod
      BY <1>3 DEF AgentReports, NoPod
    <2> QED
      BY <2>1, <2>2
  <1>4. \/ UNCHANGED cr \/ failStep \/ \E s \in Steps : AgentReports(s)
    <2>1. CASE UNCHANGED vars
      BY <2>1 DEF vars
    <2>2. CASE WorkerNext
      BY <2>2 DEF WorkerNext, ensureAgenticRunApproval, ResolutionFails,
         RecordResolutionFailure, HandlePhase, ReviseLabelled, handleTerminalCleanup,
         LaunchStopped, LaunchFails, PrepareSandbox, createBarePod, AwaitDeletion, AwaitTimesOut,
         patchSandboxInfo, Boot
    <2>3. CASE HandlerNext
      BY <2>3 DEF HandlerNext, ReportProgress, PodChanged, PodChangedOld, PodDeleted,
         PodEventFrame, handlePodTimeEvent, completeStep, patchStepResult,
         releaseSandbox, HandlerStep
    <2>4. CASE StopNext
      BY <2>4 DEF StopNext, persistRunStopGlobal, CleanupSuspension, persistRunStop,
         ResumeCleanup, suspensionCleanupPass, FinishPass, handleTerminalRecord
    <2>5. CASE UserNext
      BY <2>5 DEF UserNext, EditSpec, SyncApproval, Suspend, RecordActivation, Resume,
         WindowElapses, Decide
    <2>6. CASE ClusterNext
      BY <2>6 DEF ClusterNext, Crash, PodRuns, PodExits, PodRemoved
    <2> QED
      BY <2>1, <2>2, <2>3, <2>4, <2>5, <2>6 DEF Next
  <1> QED
    BY <1>1, <1>2, <1>3, <1>4

\* The workflow shape is immutable, the generation only grows, feedback stays.
LEMMA SpecStep ==
    ASSUME TypeOK, [Next]_vars
    PROVE  /\ shape' = shape /\ gen' \in Nat /\ gen <= gen'
           /\ feedback => feedback'
  <1>1. CASE EditSpec
    <2>1. feedback => feedback'
      BY <1>1, Zenon DEF EditSpec, TypeOK
    <2> QED
      BY <1>1, <2>1 DEF EditSpec, TypeOK
  <1>2. CASE UNCHANGED specVars
    BY <1>2 DEF TypeOK
  <1>3. EditSpec \/ UNCHANGED specVars
    <2>1. CASE UNCHANGED vars
      BY <2>1 DEF vars
    <2>2. CASE WorkerNext
      BY <2>2 DEF WorkerNext, ensureAgenticRunApproval, ResolutionFails,
         RecordResolutionFailure, HandlePhase, ReviseLabelled, handleTerminalCleanup,
         LaunchStopped, LaunchFails, PrepareSandbox, createBarePod, AwaitDeletion, AwaitTimesOut,
         patchSandboxInfo, failStep, Boot, Launching
    <2>3. CASE HandlerNext
      BY <2>3 DEF HandlerNext, ReportProgress, PodChanged, PodChangedOld, PodDeleted,
         PodEventFrame, handlePodTimeEvent, completeStep, patchStepResult,
         releaseSandbox, HandlerStep
    <2>4. CASE StopNext
      BY <2>4 DEF StopNext, persistRunStopGlobal, CleanupSuspension, persistRunStop,
         ResumeCleanup, suspensionCleanupPass, FinishPass, handleTerminalRecord
    <2>5. CASE UserNext
      BY <2>5 DEF UserNext, SyncApproval, Suspend, RecordActivation, Resume,
         WindowElapses, Decide
    <2>6. CASE ClusterNext
      BY <2>6 DEF ClusterNext, Crash, PodRuns, AgentReports, PodExits, PodRemoved,
         OutsideWorld
    <2> QED
      BY <2>1, <2>2, <2>3, <2>4, <2>5, <2>6 DEF Next
  <1> QED
    BY <1>1, <1>2, <1>3

----------------------------------------------------------------------------
(* The steps happen in order.                                               *)

\* What must have been reported before a step may be under way.
Earned(s) ==
    /\ s = "execution" => Reported("analysis", {"ok"})
    /\ s = "verification" =>
          \/ Reported("execution", {"ok"})
          \/ "execution" \notin shape /\ Reported("analysis", {"ok"})
    /\ s = "escalation" => Reported("verification", {"agentfailed"})

\* Everything that keeps a step going: its Pod, the cached Pod, a handler's job,
\* the worker's launch and the condition in progress.
Under(s) ==
    \/ pod[s] # NoPod \/ view[s] # NoPod
    \/ \E h \in Handlers : job[h].pc # "idle" /\ job[h].step = s
    \/ worker.pc \notin {"boot", "idle"} /\ worker.step = s
    \/ cond[stepConditionType(s)].st = "Unknown"

OrderInv ==
    /\ \A s \in Steps : Under(s) => Earned(s)
    /\ (cond["Analyzed"].st = "True" /\ cond["Analyzed"].rs # "NoActionRequired") =>
          Reported("analysis", {"ok"})
    /\ cond["Executed"].st = "True" => Earned("verification")
    /\ \A h \in Handlers : (job[h].pc = "patch" /\ job[h].out # "failed") =>
          Reported(job[h].step, {job[h].out})
    /\ \A c \in cr : c.out = "noaction" => c.step = "analysis"

\* What was reported stays reported.
LEMMA EarnedStays ==
    ASSUME TypeOK, [Next]_vars
    PROVE  /\ \A s, outs : Reported(s, outs) => Reported(s, outs)'
           /\ \A s : Earned(s) => Earned(s)'
  <1>1. cr \subseteq cr' /\ shape' = shape
    BY CrStep, SpecStep
  <1>2. \A s, outs : Reported(s, outs) => Reported(s, outs)'
    BY <1>1 DEF Reported
  <1> QED
    BY <1>1, <1>2 DEF Earned

\* The worker starts a step only when the conditions it has read were earned.
LEMMA DueIsEarned ==
    ASSUME TypeOK, OrderInv, NEW s \in Steps, Due(s)
    PROVE  Earned(s)
  <1>1. CASE s = "execution"
    BY <1>1, PhaseConditions DEF Due, Earned, OrderInv
  <1>2. CASE s = "verification"
    BY <1>2, PhaseConditions DEF Due, OrderInv
  <1>3. CASE s = "escalation"
    <2>1. cond[stepConditionType(s)].st = "Unknown"
      BY <1>3, PhaseConditions, NamedSteps DEF Due
    <2> QED
      BY <2>1 DEF OrderInv, Under
  <1> QED
    BY <1>1, <1>2, <1>3 DEF Earned, Steps

\* A handler works on a step that was already under way.
LEMMA JobUnder ==
    ASSUME TypeOK, [Next]_vars, NEW h \in Handlers, job'[h].pc # "idle"
    PROVE  job'[h].step \in Steps /\ Under(job'[h].step)
  <1>0. job[h] \in Job /\ job[h].step \in Steps
    BY DEF TypeOK, Job
  <1>1. job'[h] # JobIdle
    BY DEF JobIdle
  <1>2. CASE Turns(h)
    BY <1>2 DEF Turns, Under
  <1>3. CASE Settles(h)
    <2>1. job[h].pc = "complete" /\ job'[h].step = job[h].step
      BY <1>3, SettlesMoves
    <2> QED
      BY <1>0, <2>1 DEF Under
  <1>4. CASE patchStepResult(h) /\ job'[h] = [job[h] EXCEPT !.pc = "release"]
    <2>1. job[h].pc = "patch" /\ job'[h].step = job[h].step
      BY <1>0, <1>4, SettlesAlone DEF Job
    <2> QED
      BY <1>0, <2>1 DEF Under
  <1>5. CASE job'[h] = job[h]
    BY <1>0, <1>5 DEF Under
  <1> QED
    BY <1>1, <1>2, <1>3, <1>4, <1>5, JobStep

\* A condition turns Unknown for a step that was under way, or that was earned.
LEMMA ConditionUnder ==
    ASSUME TypeOK, OrderInv, [Next]_vars, NEW s \in Steps,
           cond'[stepConditionType(s)].st = "Unknown"
    PROVE  Earned(s)
  <1> DEFINE t == stepConditionType(s)
  <1>t. t \in WorkflowConditions
    BY StepConditionIsWorkflow
  <1>1. CASE cond'[t] = cond[t]
    BY <1>1 DEF OrderInv, Under
  <1>2. CASE t = "Analyzed"
    <2>1. s = "analysis"
      BY <1>2, NamedSteps, StepConditionInjective
    <2> QED
      BY <2>1 DEF Earned
  <1>3. ASSUME NEW q \in Steps, Starts(q), t = stepConditionType(q) PROVE Earned(s)
    BY <1>3, StepConditionInjective, DueIsEarned DEF Starts
  <1>4. CASE job["events"].pc = "progress" /\ t = stepConditionType(job["events"].step)
    <2>1. "events" \in Handlers /\ job["events"].step \in Steps
      BY DEF TypeOK, Job, Handlers
    <2>2. Under(s)
      BY <1>4, <2>1, StepConditionInjective DEF Under
    <2> QED
      BY <2>2 DEF OrderInv
  <1>5. ASSUME NEW h \in Handlers, Patches(h), t = "Escalated",
               job[h].step = "verification", job[h].out = "agentfailed"
        PROVE  Earned(s)
    <2>1. s = "escalation"
      BY <1>5, NamedSteps, StepConditionInjective
    <2>2. Reported("verification", {"agentfailed"})
      BY <1>5 DEF OrderInv, Patches
    <2> QED
      BY <2>1, <2>2 DEF Earned
  <1>6. cond'[t] = cond[t] \/ Progresses(t)
    BY <1>t, CondMoves DEF Forgotten, Failed, Succeeds
  <1> QED
    BY <1>1, <1>2, <1>3, <1>4, <1>5, <1>6 DEF Progresses

\* Every step keeps what is under way behind what was reported.
LEMMA OrderStep ==
    ASSUME TypeOK, OrderInv, [Next]_vars PROVE OrderInv'
  <1>e. ASSUME NEW s \in Steps, Under(s)' PROVE Earned(s)
    <2>1. CASE pod'[s] # NoPod
      <3>1. pod[s] # NoPod \/ (worker.pc = "create" /\ worker.step = s)
        BY <2>1, PodStep
      <3> QED
        BY <3>1 DEF OrderInv, Under
    <2>2. CASE view'[s] # NoPod
      BY <2>2, ViewStep DEF OrderInv, Under
    <2>3. ASSUME NEW h \in Handlers, job'[h].pc # "idle", job'[h].step = s
          PROVE  Earned(s)
      BY <2>3, JobUnder DEF OrderInv
    <2>4. CASE worker'.pc \notin {"boot", "idle"} /\ worker'.step = s
      <3>1. CASE s = "analysis"
        BY <3>1 DEF Earned
      <3>2. CASE worker.pc \notin {"boot", "idle"} /\ worker.step = s
        BY <3>2 DEF OrderInv, Under
      <3>3. CASE Starts(s)
        BY <3>3, DueIsEarned DEF Starts
      <3> QED
        BY <2>4, <3>1, <3>2, <3>3, WorkerStep
    <2>5. CASE cond'[stepConditionType(s)].st = "Unknown"
      BY <2>5, ConditionUnder
    <2> QED
      BY <1>e, <2>1, <2>2, <2>3, <2>4, <2>5 DEF Under
  <1>1. \A s \in Steps : Under(s)' => Earned(s)'
    BY <1>e, EarnedStays
  <1>w. "Analyzed" \in WorkflowConditions /\ "Executed" \in WorkflowConditions
    BY DEF WorkflowConditions
  <1>p. ASSUME NEW h \in Handlers, Patches(h), job[h].out \in {"ok", "noaction"}
        PROVE  /\ job[h].step \in Steps /\ Reported(job[h].step, {job[h].out})
               /\ job[h].out = "noaction" => job[h].step = "analysis"
    <2>1. Reported(job[h].step, {job[h].out})
      BY <1>p DEF OrderInv, Patches
    <2>2. job[h].out = "noaction" => job[h].step = "analysis"
      BY <2>1 DEF OrderInv, Reported
    <2> QED
      BY <2>1, <2>2 DEF TypeOK, Job
  <1>2. ASSUME cond'["Analyzed"].st = "True", cond'["Analyzed"].rs # "NoActionRequired"
        PROVE  Reported("analysis", {"ok"})
    <2>1. CASE cond'["Analyzed"] = cond["Analyzed"]
      BY <1>2, <2>1 DEF OrderInv
    <2>2. ASSUME NEW h \in Handlers, Patches(h),
                 "Analyzed" = stepConditionType(job[h].step), job[h].out = "ok"
          PROVE  Reported("analysis", {"ok"})
      <3>1. job[h].step = "analysis"
        BY <2>2, <1>p, NamedSteps, StepConditionInjective
      <3> QED
        BY <2>2, <3>1, <1>p
    <2>3. cond'["Analyzed"] = cond["Analyzed"] \/ Succeeds("Analyzed")
      BY <1>2, <1>w, CondMoves DEF Forgotten, Failed, Progresses
    <2> QED
      BY <1>2, <2>1, <2>2, <2>3 DEF Succeeds
  <1>3. ASSUME cond'["Executed"].st = "True" PROVE Earned("verification")
    <2>1. CASE cond'["Executed"] = cond["Executed"]
      BY <1>3, <2>1 DEF OrderInv
    <2>2. CASE Skips
      <3>1. CASE SetCondition("Verified", Cond("True", "Skipped"))
        BY <3>1, <2>1, NamedConditions DEF SetCondition, TypeOK
      <3>2. CASE Phase \in {"Proposed", "Executing"} /\ SkipExecution
        <4>1. Reported("analysis", {"ok"})
          <5>1. CASE Phase = "Proposed"
            BY <5>1, PhaseConditions DEF OrderInv
          <5>2. CASE Phase = "Executing"
            <6>1. Under("execution")
              BY <5>2, PhaseConditions, NamedSteps DEF Under
            <6> QED
              BY <6>1, NamedSteps DEF OrderInv, Earned
          <5> QED
            BY <3>2, <5>1, <5>2
        <4> QED
          BY <3>2, <4>1 DEF SkipExecution, Earned
      <3> QED
        BY <2>2, <3>1, <3>2 DEF Skips
    <2>3. ASSUME NEW h \in Handlers, Patches(h),
                 "Executed" = stepConditionType(job[h].step),
                 job[h].out \in {"ok", "noaction"}
          PROVE  Earned("verification")
      <3>1. job[h].step = "execution"
        BY <2>3, <1>p, NamedSteps, StepConditionInjective
      <3> QED
        BY <2>3, <3>1, <1>p DEF Earned
    <2>4. cond'["Executed"] = cond["Executed"] \/ Succeeds("Executed")
      BY <1>3, <1>w, CondMoves DEF Forgotten, Failed, Progresses
    <2> QED
      BY <2>1, <2>2, <2>3, <2>4 DEF Succeeds
  <1>4. ASSUME NEW h \in Handlers, job'[h].pc = "patch", job'[h].out # "failed"
        PROVE  Reported(job'[h].step, {job'[h].out})
    <2>1. job'[h] # JobIdle /\ ~Turns(h)
      BY <1>4 DEF JobIdle, Turns
    <2>2. CASE Settles(h)
      <3>1. job'[h].step = job[h].step /\ job'[h].out \in validateResultCR(job[h].step)
        BY <2>2, SettlesMoves
      <3> QED
        BY <1>4, <3>1 DEF validateResultCR, Reported
    <2>3. job'[h] # [job[h] EXCEPT !.pc = "release"]
      BY <1>4 DEF TypeOK, Job
    <2>4. CASE job'[h] = job[h]
      BY <1>4, <2>4 DEF OrderInv
    <2> QED
      BY <2>1, <2>2, <2>3, <2>4, JobStep
  <1>5. \A c \in cr' : c.out = "noaction" => c.step = "analysis"
    BY CrStep DEF OrderInv
  <1>6. /\ (cond'["Analyzed"].st = "True" /\ cond'["Analyzed"].rs # "NoActionRequired") =>
              Reported("analysis", {"ok"})'
        /\ cond'["Executed"].st = "True" => Earned("verification")'
    BY <1>2, <1>3, EarnedStays
  <1>7. ASSUME NEW h \in Handlers, job'[h].pc = "patch", job'[h].out # "failed"
        PROVE  Reported(job[h].step, {job[h].out})'
    <2>1. Reported(job'[h].step, {job'[h].out})
      BY <1>4, <1>7
    <2> QED
      BY <2>1, CrStep DEF Reported
  <1> QED
    BY <1>1, <1>5, <1>6, <1>7 DEF OrderInv

\* For every shape, policy and number of edits, faults and suspensions: an
\* execution sandbox exists only behind a reported proposal, a verification only
\* behind a reported execution (or a proposal of a run without one), and an
\* escalation only behind a verification that was reported as failed.
THEOREM StepsInOrderAlways == Spec => []StepsInOrder
  <1>1. Init => TypeOK /\ OrderInv
    <2>1. ASSUME Init PROVE OrderInv
      <3>1. ASSUME NEW s \in Steps PROVE ~Under(s)
        <4>1. cond[stepConditionType(s)].st = "Absent"
          BY <2>1, StepConditionIsWorkflow, ConditionValues
          DEF Init, NoConditions, Absent, Cond
        <4> QED
          BY <2>1, <4>1 DEF Init, Under, WorkerIdle, JobIdle
      <3>2. cond["Analyzed"].st = "Absent" /\ cond["Executed"].st = "Absent"
        BY <2>1, NamedConditions DEF Init, NoConditions, Absent, Cond
      <3> QED
        BY <2>1, <3>1, <3>2 DEF Init, OrderInv, JobIdle
    <2> QED
      BY <2>1, TypeOKInit
  <1>2. TypeOK /\ OrderInv /\ [Next]_vars => (TypeOK /\ OrderInv)'
    BY TypeOKStep, OrderStep
  <1>3. OrderInv => StepsInOrder
    BY NamedSteps DEF OrderInv, Under, Earned, StepsInOrder
  <1> QED
    BY <1>1, <1>2, <1>3, PTL DEF Spec

----------------------------------------------------------------------------
(* An execution is repeated only by a revision.                             *)

\* The Analyzed condition remembers the generation at which it was last written.
LEMMA AnalyzedGenStep ==
    ASSUME TypeOK, [Next]_vars
    PROVE  analyzedGen' \in {analyzedGen, gen}
  <1>s. ASSUME NEW t, NEW c, SetCondition(t, c) PROVE analyzedGen' \in {analyzedGen, gen}
    BY <1>s DEF SetCondition
  <1>p. ASSUME NEW s, NEW c, patchStepCondition(s, c)
        PROVE  analyzedGen' \in {analyzedGen, gen}
    BY <1>p, <1>s DEF patchStepCondition
  <1>w. ASSUME NEW b, writeSuspensionOutcome(b) PROVE analyzedGen' \in {analyzedGen, gen}
    BY <1>w DEF writeSuspensionOutcome
  <1>1. CASE UNCHANGED vars
    BY <1>1 DEF vars
  <1>2. CASE WorkerNext
    <2>1. CASE RecordResolutionFailure
      BY <2>1, <1>s DEF RecordResolutionFailure
    <2>2. CASE HandlePhase
      BY <2>2, <1>s, HandlePhaseMoves
      DEF Starts, StartStep, StartFails, Skips, SkipExecution, Revises, Postpones
    <2>3. CASE failStep
      BY <2>3, <1>s DEF failStep
    <2>4. CASE ReviseLabelled
      BY <2>4, ReviseLabelledMoves DEF Revises
    <2> QED
      BY <1>2, <2>1, <2>2, <2>3, <2>4
      DEF WorkerNext, ensureAgenticRunApproval, ResolutionFails,
          handleTerminalCleanup, LaunchStopped, LaunchFails, PrepareSandbox,
          createBarePod, AwaitDeletion, AwaitTimesOut, patchSandboxInfo, Boot
  <1>3. CASE HandlerNext
    <2>1. CASE ReportProgress
      BY <2>1, <1>p DEF ReportProgress
    <2>2. ASSUME NEW h \in Handlers, patchStepResult(h)
          PROVE  analyzedGen' \in {analyzedGen, gen}
      <3>1. UNCHANGED analyzedGen \/ WriteOutcome(job[h].step, job[h])
        BY <2>2 DEF patchStepResult
      <3>2. job[h].out \in Outcomes \cup {"failed"}
        BY DEF TypeOK, Job
      <3> QED
        BY <3>1, <3>2, <1>p, <1>s DEF WriteOutcome, Outcomes
    <2> QED
      BY <1>3, <2>1, <2>2
      DEF HandlerNext, PodChanged, PodChangedOld, PodDeleted, PodEventFrame,
          handlePodTimeEvent, completeStep, releaseSandbox
  <1>4. CASE StopNext
    BY <1>4, <1>w DEF StopNext, persistRunStopGlobal, CleanupSuspension,
       persistRunStop, ResumeCleanup, suspensionCleanupPass, FinishPass,
       handleTerminalRecord
  <1>5. CASE UserNext
    BY <1>5 DEF UserNext, EditSpec, SyncApproval, Suspend, RecordActivation, Resume,
       WindowElapses, Decide
  <1>6. CASE ClusterNext
    BY <1>6 DEF ClusterNext, Crash, PodRuns, AgentReports, PodExits, PodRemoved,
       OutsideWorld
  <1> QED
    BY <1>1, <1>2, <1>3, <1>4, <1>5, <1>6 DEF Next

\* The input of a sandbox is built from the generation the worker has read.
LEMMA WorkerGenStep ==
    ASSUME TypeOK, [Next]_vars
    PROVE  worker'.gen \in {0, worker.gen, gen}
  <1>0. worker \in Worker
    BY DEF TypeOK
  <1>i. /\ WorkerIdle.gen = 0
        /\ \A pc : [WorkerIdle EXCEPT !.pc = pc].gen = 0
        /\ \A pc : [worker EXCEPT !.pc = pc].gen = worker.gen
    BY <1>0 DEF WorkerIdle, Worker
  <1>1. CASE UNCHANGED vars
    BY <1>1 DEF vars
  <1>2. CASE WorkerNext
    <2>1. CASE HandlePhase
      <3>1. ASSUME NEW s \in Steps, Starts(s) PROVE worker'.gen = 0
        BY <3>1 DEF Starts, StartStep, StartFails, WorkerIdle
      <3>2. ASSUME Skips PROVE UNCHANGED worker
        BY <3>2 DEF Skips, SkipExecution
      <3>3. ASSUME Revises \/ Postpones PROVE worker'.gen = 0
        BY <3>3 DEF Revises, Postpones, WorkerIdle
      <3> QED
        BY <2>1, <3>1, <3>2, <3>3, HandlePhaseMoves
    <2>2. CASE PrepareSandbox
      BY <2>2, <1>0 DEF PrepareSandbox, Worker
    <2>3. CASE createBarePod \/ LaunchFails \/ AwaitDeletion \/ AwaitTimesOut
      BY <2>3, <1>i DEF createBarePod, LaunchFails, AwaitDeletion, AwaitTimesOut
    <2> QED
      BY <1>2, <1>i, <2>1, <2>2, <2>3
      DEF WorkerNext, ensureAgenticRunApproval, ResolutionFails,
          RecordResolutionFailure, ReviseLabelled, Revise, handleTerminalCleanup,
          LaunchStopped, patchSandboxInfo, failStep, Boot
  <1>3. CASE HandlerNext
    BY <1>3 DEF HandlerNext, ReportProgress, PodChanged, PodChangedOld, PodDeleted,
       PodEventFrame, handlePodTimeEvent, completeStep, patchStepResult,
       releaseSandbox, HandlerStep
  <1>4. CASE StopNext
    BY <1>4 DEF StopNext, persistRunStopGlobal, CleanupSuspension, persistRunStop,
       ResumeCleanup, suspensionCleanupPass, FinishPass, handleTerminalRecord
  <1>5. CASE UserNext
    BY <1>5 DEF UserNext, EditSpec, SyncApproval, Suspend, RecordActivation, Resume,
       WindowElapses, Decide
  <1>6. CASE ClusterNext
    BY <1>6, <1>i DEF ClusterNext, Crash, PodRuns, AgentReports, PodExits, PodRemoved,
       OutsideWorld
  <1> QED
    BY <1>1, <1>2, <1>3, <1>4, <1>5, <1>6 DEF Next

Creates(s) ==
    /\ pod[s] = NoPod /\ worker.pc = "create" /\ worker.step = s
    /\ pod'[s].gen = worker.gen /\ worker'.pc = "info"
    /\ UNCHANGED <<cond, cr>>

\* A Pod keeps the generation of its input until it is gone.
LEMMA PodMoves ==
    ASSUME TypeOK, [Next]_vars, NEW s \in Steps
    PROVE  \/ pod'[s] = NoPod
           \/ pod[s] # NoPod /\ pod'[s].gen = pod[s].gen
           \/ Creates(s)
  <1> DEFINE Kept == pod'[s] = NoPod \/ (pod[s] # NoPod /\ pod'[s].gen = pod[s].gen)
  <1>p. pod \in [Steps -> Pod]
    BY DEF TypeOK
  <1>g. /\ \A p \in LivePod : [p EXCEPT !.del = TRUE].gen = p.gen
        /\ \A p \in LivePod : \A ph : [p EXCEPT !.ph = ph].gen = p.gen
    BY DEF LivePod
  <1>l. pod[s] # NoPod => pod[s] \in LivePod
    BY <1>p DEF Pod
  <1>d. ASSUME NEW S, pod' = Deleting(S) PROVE Kept
    BY <1>d, <1>p, <1>g, <1>l DEF Deleting
  <1>1. CASE UNCHANGED pod
    BY <1>1
  <1>2. CASE createBarePod
    <2>1. CASE pod[worker.step] = NoPod /\ worker.step = s
      <3>1. pod'[s] = NewPod /\ worker' = [worker EXCEPT !.pc = "info"]
            /\ worker.pc = "create" /\ UNCHANGED <<cond, cr>>
        BY <1>2, <2>1, <1>p DEF createBarePod, Launching
      <3>2. NewPod.gen = worker.gen
        BY DEF NewPod
      <3>3. worker'.pc = "info"
        BY <3>1 DEF TypeOK, Worker
      <3> QED
        BY <2>1, <3>1, <3>2, <3>3 DEF Creates
    <2>2. CASE ~(pod[worker.step] = NoPod /\ worker.step = s)
      BY <1>2, <2>2, <1>p DEF createBarePod
    <2> QED
      BY <2>1, <2>2
  <1>3. CASE handleTerminalCleanup
    BY <1>3, <1>d DEF handleTerminalCleanup
  <1>4. ASSUME NEW h \in Handlers, releaseSandbox(h) PROVE Kept
    BY <1>4, <1>d DEF releaseSandbox
  <1>5. ASSUME NEW a \in Actors, suspensionCleanupPass(a) PROVE Kept
    BY <1>5 DEF suspensionCleanupPass
  <1>6. CASE CleanupSuspension
    BY <1>6 DEF CleanupSuspension
  <1>7. ASSUME NEW q \in Steps, PodRuns(q) \/ PodExits(q) PROVE Kept
    <2>1. PICK ph : pod' = [pod EXCEPT ![q].ph = ph]
      BY <1>7 DEF PodRuns, PodExits
    <2>2. q = s => pod[s] # NoPod
      BY <1>7 DEF PodRuns, PodExits, NoPod
    <2>3. CASE q = s
      <3>1. pod'[s] = [pod[s] EXCEPT !.ph = ph]
        BY <2>1, <2>3, <1>p
      <3> QED
        BY <2>2, <2>3, <3>1, <1>g, <1>l
    <2>4. CASE q # s
      BY <2>1, <2>4, <1>p
    <2> QED
      BY <2>3, <2>4
  <1>8. ASSUME NEW q \in Steps, PodRemoved(q) PROVE Kept
    BY <1>8, <1>p DEF PodRemoved
  <1>9. \/ UNCHANGED pod \/ createBarePod \/ handleTerminalCleanup
        \/ CleanupSuspension
        \/ \E h \in Handlers : releaseSandbox(h)
        \/ \E a \in Actors : suspensionCleanupPass(a)
        \/ \E q \in Steps : PodRuns(q) \/ PodExits(q) \/ PodRemoved(q)
    <2>1. CASE UNCHANGED vars
      BY <2>1 DEF vars
    <2>2. CASE WorkerNext
      BY <2>2 DEF WorkerNext, ensureAgenticRunApproval, ResolutionFails,
         RecordResolutionFailure, HandlePhase, ReviseLabelled,
         LaunchStopped, LaunchFails, PrepareSandbox, AwaitDeletion, AwaitTimesOut,
         patchSandboxInfo, failStep, Boot
    <2>3. CASE HandlerNext
      BY <2>3 DEF HandlerNext, ReportProgress, PodChanged, PodChangedOld, PodDeleted,
         PodEventFrame, handlePodTimeEvent, completeStep, patchStepResult
    <2>4. CASE StopNext
      BY <2>4 DEF StopNext, persistRunStopGlobal, persistRunStop, ResumeCleanup,
         FinishPass, handleTerminalRecord
    <2>5. CASE UserNext
      BY <2>5 DEF UserNext, EditSpec, SyncApproval, Suspend, RecordActivation, Resume,
         WindowElapses, Decide
    <2>6. CASE ClusterNext
      BY <2>6 DEF ClusterNext, Crash, AgentReports
    <2> QED
      BY <2>1, <2>2, <2>3, <2>4, <2>5, <2>6 DEF Next
  <1> QED
    BY <1>1, <1>2, <1>3, <1>4, <1>5, <1>6, <1>7, <1>8, <1>9

\* A generation that no revision has caught up with.
Newer(g) == g > analyzedGen \/ ~feedback

\* An execution of such a generation was carried out, or may still be.
Executing ==
    \/ \E c \in cr : c.step = "execution" /\ c.out = "ok" /\ Newer(c.gen)
    \/ pod["execution"] # NoPod /\ Newer(pod["execution"].gen)

Starting == worker.step = "execution" /\ worker.pc \in LaunchPCs

\* While it is, the Executed condition keeps the worker from starting another one.
ExecInv ==
    /\ Executing => cond["Executed"].st # "Absent" /\ ~Starting
    /\ Starting => cond["Executed"].st # "Absent"
    /\ worker.pc = "revise" => feedback

\* Nothing is newer than the spec.
GenInv ==
    /\ analyzedGen <= gen /\ worker.gen <= gen
    /\ \A s \in Steps : pod[s].gen <= gen
    /\ \A c \in cr : c.gen <= gen

\* Every step keeps the generations below the one of the spec.
LEMMA GenStep ==
    ASSUME TypeOK, GenInv, [Next]_vars PROVE GenInv'
  <1>0. gen \in Nat /\ gen' \in Nat /\ gen <= gen'
    BY SpecStep DEF TypeOK
  <1>n. /\ worker.gen \in Nat /\ analyzedGen \in Nat
        /\ \A s \in Steps : pod[s].gen \in Nat
        /\ \A c \in cr : c.gen \in Nat
    BY DEF TypeOK, Worker, Pod, LivePod, NoPod, ResultCR
  <1>1. analyzedGen' <= gen'
    BY <1>0, <1>n, AnalyzedGenStep DEF GenInv
  <1>2. worker'.gen <= gen'
    BY <1>0, <1>n, WorkerGenStep DEF GenInv
  <1>3. ASSUME NEW s \in Steps PROVE pod'[s].gen <= gen'
    <2>1. NoPod.gen = 0
      BY DEF NoPod
    <2>2. pod'[s].gen \in {0, pod[s].gen, worker.gen}
      BY <2>1, PodMoves DEF Creates
    <2> QED
      BY <1>0, <1>n, <2>2 DEF GenInv
  <1>4. ASSUME NEW c \in cr' PROVE c.gen <= gen'
    <2>1. \/ c \in cr \/ c.gen = gen
          \/ c.step \in Steps /\ c.gen = pod[c.step].gen
      BY CrStep
    <2> QED
      BY <1>0, <1>n, <2>1 DEF GenInv
  <1> QED
    BY <1>1, <1>2, <1>3, <1>4 DEF GenInv

\* Every step keeps a carried-out execution from being started again, but for a
\* revision, which raises the generation of the analysis above it.
LEMMA ExecStep ==
    ASSUME TypeOK, GenInv, ExecInv, [Next]_vars PROVE ExecInv'
  <1>0. "execution" \in Steps /\ "Executed" \in WorkflowConditions
    BY DEF Steps, WorkflowConditions
  <1>n. ASSUME NEW g \in Nat, Newer(g)' PROVE Newer(g)
    <2>1. /\ gen \in Nat /\ analyzedGen \in Nat /\ analyzedGen <= gen
          /\ analyzedGen' \in {analyzedGen, gen}
      BY AnalyzedGenStep DEF TypeOK, GenInv
    <2>2. feedback => feedback'
      BY SpecStep
    <2>3. g > analyzedGen' \/ ~feedback'
      BY <1>n DEF Newer
    <2>4. CASE ~feedback'
      BY <2>2, <2>4 DEF Newer
    <2>5. CASE g > analyzedGen'
      BY <2>1, <2>5 DEF Newer
    <2> QED
      BY <2>3, <2>4, <2>5
  <1>r. ASSUME cond'["Executed"].st = "Absent", cond["Executed"].st # "Absent"
        PROVE  Revises
    BY <1>0, <1>r, CondMoves DEF Forgotten, Failed, Progresses, Succeeds
  <1>v. ASSUME Revises PROVE ~Executing' /\ ~Starting'
    <2>1. GenInv'
      BY GenStep
    <2>2. /\ feedback' /\ analyzedGen' = gen' /\ gen' \in Nat
      BY <1>v, SpecStep DEF Revises, needsRevision, ExecInv
    <2>3. ASSUME NEW g \in Nat, g <= gen' PROVE ~Newer(g)'
      BY <2>2, <2>3 DEF Newer
    <2>4. /\ pod'["execution"].gen \in Nat
          /\ \A c \in cr' : c.gen \in Nat
      BY <1>0, TypeOKStep DEF TypeOK, Pod, LivePod, NoPod, ResultCR
    <2>5. ~Executing'
      BY <1>0, <2>1, <2>3, <2>4 DEF GenInv, Executing, Newer
    <2>6. worker'.step # "execution"
      BY <1>v DEF Revises, WorkerIdle
    <2> QED
      BY <2>5, <2>6 DEF Starting
  <1>s. ASSUME Starting'
        PROVE  \/ Starting
               \/ cond["Executed"].st = "Absent" /\ cond'["Executed"].st = "Unknown"
    <2>1. worker'.step = "execution" /\ worker'.pc \in LaunchPCs
      BY <1>s DEF Starting
    <2>2. CASE Starts("execution") /\ StartStep("execution")
      <3>1. SetCondition("Executed", Cond("Unknown", "InProgress"))
        BY <2>2, NamedSteps DEF StartStep
      <3>2. Cond("Unknown", "InProgress").st = "Unknown"
        BY DEF Cond
      <3>3. cond'["Executed"].st = "Unknown"
        BY <3>1, <3>2, NamedConditions DEF SetCondition, TypeOK
      <3> QED
        BY <2>2, <3>3 DEF Starts, Due
    <2> QED
      BY <2>1, <2>2, WorkerStep DEF Starting, LaunchPCs
  <1>e. ASSUME Executing', ~Executing PROVE Creates("execution")
    <2>g. /\ pod'["execution"].gen \in Nat
          /\ \A c \in cr' : c.gen \in Nat
      BY <1>0, TypeOKStep DEF TypeOK, Pod, LivePod, NoPod, ResultCR
    <2>1. ASSUME NEW c \in cr', c.step = "execution", c.out = "ok", Newer(c.gen)'
          PROVE  Executing
      <3>1. Newer(c.gen)
        BY <1>n, <2>g, <2>1
      <3>2. c \in cr \/ (pod["execution"] # NoPod /\ c.gen = pod["execution"].gen)
        BY <2>1, CrStep
      <3> QED
        BY <2>1, <3>1, <3>2 DEF Executing
    <2>2. ASSUME NEW g \in Nat, g = pod'["execution"].gen,
                 pod'["execution"] # NoPod, Newer(g)'
          PROVE  Executing \/ Creates("execution")
      <3>1. Newer(g)
        BY <1>n, <2>2
      <3>2. \/ pod["execution"] # NoPod /\ g = pod["execution"].gen
            \/ Creates("execution")
        BY <1>0, <2>2, PodMoves
      <3> QED
        BY <3>1, <3>2 DEF Executing
    <2>3. \/ \E c \in cr' : c.step = "execution" /\ c.out = "ok" /\ Newer(c.gen)'
          \/ \E g \in Nat : /\ g = pod'["execution"].gen
                           /\ pod'["execution"] # NoPod /\ Newer(g)'
      BY <1>e, <2>g DEF Executing, Newer
    <2> QED
      BY <1>e, <2>1, <2>2, <2>3
  <1>1. ASSUME Executing' PROVE cond'["Executed"].st # "Absent" /\ ~Starting'
    <2>1. CASE Executing
      BY <1>1, <2>1, <1>r, <1>v, <1>s DEF ExecInv
    <2>2. CASE Creates("execution")
      <3>1. Starting
        BY <2>2 DEF Creates, Starting, LaunchPCs
      <3> QED
        BY <2>2, <3>1 DEF ExecInv, Creates, Starting, LaunchPCs
    <2> QED
      BY <1>1, <2>1, <2>2, <1>e
  <1>2. ASSUME Starting' PROVE cond'["Executed"].st # "Absent"
    BY <1>2, <1>r, <1>v, <1>s DEF ExecInv
  <1>3. ASSUME worker'.pc = "revise" PROVE feedback'
    BY <1>3, RevisionBegins, SpecStep DEF ExecInv
  <1> QED
    BY <1>1, <1>2, <1>3 DEF ExecInv

\* Work an execution sandbox reported as done is given to a new sandbox only after
\* feedback, on an analysis of a spec at least as new, for every interleaving of
\* edits, lost or adopted Pods, suspensions, faults and restarts.
THEOREM NoReexecutionAlways == Spec => NoReexecution
  <1>1. Init => TypeOK /\ GenInv /\ ExecInv
    <2>1. ASSUME Init PROVE GenInv /\ ExecInv
      BY <2>1, NamedSteps
      DEF Init, GenInv, ExecInv, Executing, Starting, NoPod, WorkerIdle, LaunchPCs
    <2> QED
      BY <2>1, TypeOKInit
  <1>2. TypeOK /\ GenInv /\ ExecInv /\ [Next]_vars => (TypeOK /\ GenInv /\ ExecInv)'
    BY TypeOKStep, GenStep, ExecStep
  <1>3. ASSUME TypeOK, ExecInv, [Next]_vars,
               pod["execution"] = NoPod, pod'["execution"] # NoPod,
               NEW c \in cr, c.step = "execution", c.out = "ok"
        PROVE  feedback /\ c.gen <= analyzedGen
    <2>1. Starting
      BY <1>3, PodStep, NamedSteps DEF Starting, LaunchPCs
    <2>2. ~Newer(c.gen)
      BY <1>3, <2>1 DEF ExecInv, Executing
    <2>3. c.gen \in Nat /\ analyzedGen \in Nat
      BY <1>3 DEF TypeOK, ResultCR
    <2>4. feedback
      BY <2>2 DEF Newer
    <2>5. c.gen <= analyzedGen
      BY <2>2, <2>3 DEF Newer
    <2> QED
      BY <2>4, <2>5
  <1>4. TypeOK /\ GenInv /\ ExecInv /\ [Next]_vars =>
          [ (pod["execution"] = NoPod /\ pod'["execution"] # NoPod) =>
              \A c \in cr : c.step = "execution" /\ c.out = "ok" =>
                 feedback /\ c.gen <= analyzedGen ]_vars
    BY <1>3
  <1> QED
    BY <1>1, <1>2, <1>4, PTL DEF Spec, NoReexecution
=============================================================================
