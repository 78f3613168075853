-------------------------- MODULE GlobalStopProofs --------------------------
(***************************************************************************)
(* The controller keeps the promise of the global stop: every step of      *)
(* RunWorkflow is a step of GlobalStop or leaves its state alone, and once *)
(* a stop is accepted nothing but its outcome moves the run, apart from a  *)
(* revision that was under way.                                            *)
(***************************************************************************)
EXTENDS RunWorkflowProofs

USE DEF specVars, statusVars, ttlVars, userVars, stopVars, podVars, clearRunSandboxInfo

----------------------------------------------------------------------------
(* What the steps of the controller do to the conditions.                   *)

\* A write of the workflow leaves the stop's conditions alone and uses none of
\* the stop's reasons.
WorkflowWrite(c, d) ==
    \A t \in ConditionTypes :
       d[t] = c[t] \/ (t \notin {"Stopping", "EmergencyStopped"}
                       /\ d[t].rs # "EmergencyStopFailed")

Accepting(c, d) ==
    /\ ~HasAcceptedStop(c)
    /\ d = [c EXCEPT !["Stopping"] = Cond("True", "SystemSuspended")]

Deciding(c, d) ==
    /\ StopIntent(c) /\ ~HasFinalStopOutcome(c)
    /\ \E b \in BOOLEAN : d = StopOutcome(c, b)

Revising(c, d) ==
    d = [c EXCEPT !["Executed"] = Absent, !["Verified"] = Absent,
                  !["Escalated"] = Absent,
                  !["Analyzed"] = Cond("Unknown", "Revising")]

\* The condition types the code names.
LEMMA NamedConditions ==
    /\ "Analyzed" \in ConditionTypes /\ "Executed" \in ConditionTypes
    /\ "Verified" \in ConditionTypes /\ "Escalated" \in ConditionTypes
    /\ "Denied" \in ConditionTypes /\ "Stopping" \in ConditionTypes
    /\ "EmergencyStopped" \in ConditionTypes
  BY DEF ConditionTypes, WorkflowConditions

\* The status patch of a revision is a write of the workflow.
LEMMA RevisingWrites ==
    ASSUME NEW c \in [ConditionTypes -> Condition], NEW d, Revising(c, d)
    PROVE  /\ WorkflowWrite(c, d)
           /\ d["Denied"] = c["Denied"] /\ d["Stopping"] = c["Stopping"]
           /\ d["EmergencyStopped"] = c["EmergencyStopped"]
  <1>1. /\ Absent.rs # "EmergencyStopFailed"
        /\ Cond("Unknown", "Revising").rs # "EmergencyStopFailed"
    BY DEF Absent, Cond
  <1> QED
    BY <1>1, NamedConditions DEF Revising, WorkflowWrite

\* A single condition of the workflow, written with a reason of the workflow.
LEMMA SetConditionWrites ==
    ASSUME TypeOK, NEW t \in WorkflowConditions \cup {"Denied"}, NEW st, NEW rs,
           rs # "EmergencyStopFailed", SetCondition(t, Cond(st, rs))
    PROVE  /\ WorkflowWrite(cond, cond')
           /\ t # "Denied" => cond'["Denied"] = cond["Denied"]
  BY DEF TypeOK, SetCondition, WorkflowWrite, Cond, WorkflowConditions

\* patchStepCondition, whether it writes or finds the step complete.
LEMMA PatchWrites ==
    ASSUME TypeOK, NEW s \in Steps, NEW st, NEW rs, rs # "EmergencyStopFailed",
           patchStepCondition(s, Cond(st, rs))
    PROVE  WorkflowWrite(cond, cond') /\ cond'["Denied"] = cond["Denied"]
  <1>1. stepConditionType(s) \in WorkflowConditions /\ "Denied" \notin WorkflowConditions
    BY StepConditionIsWorkflow DEF WorkflowConditions
  <1>2. CASE UNCHANGED cond
    BY <1>2 DEF WorkflowWrite
  <1>3. CASE SetCondition(stepConditionType(s), Cond(st, rs))
    BY <1>1, <1>3, SetConditionWrites
  <1> QED
    BY <1>2, <1>3 DEF patchStepCondition

\* What completeStep writes, for every outcome.
LEMMA OutcomeWrites ==
    ASSUME TypeOK, NEW s \in Steps, NEW j \in Job, WriteOutcome(s, j)
    PROVE  WorkflowWrite(cond, cond') /\ cond'["Denied"] = cond["Denied"]
  <1>0. /\ j.out \in Outcomes \cup {"failed"}
        /\ stepConditionType(s) \in WorkflowConditions
        /\ "Denied" \notin WorkflowConditions
    BY StepConditionIsWorkflow DEF Job, WorkflowConditions
  <1>1. CASE j.out = "failed"
    <2>1. FailureReason(j.ph) # "EmergencyStopFailed"
      BY DEF FailureReason
    <2>2. patchStepCondition(s, Cond("False", FailureReason(j.ph)))
      BY <1>1 DEF WriteOutcome
    <2> QED
      BY <2>1, <2>2, PatchWrites
  <1>2. CASE j.out \in {"ok", "noaction"}
    <2>1. PICK rs \in {"NoActionRequired", "Succeeded"} :
             SetCondition(stepConditionType(s), Cond("True", rs))
      BY <1>2 DEF WriteOutcome
    <2> QED
      BY <1>0, <2>1, SetConditionWrites
  <1>3. CASE j.out = "agentfailed" /\ s = "verification"
    <2>1. cond' = [cond EXCEPT
             !["Verified"]  = Cond("False", "VerificationFailed"),
             !["Escalated"] = Cond("Unknown", "VerificationFailed")]
      BY <1>3 DEF WriteOutcome
    <2>2. WorkflowWrite(cond, cond')
      BY <2>1 DEF TypeOK, WorkflowWrite, Cond
    <2>3. cond'["Denied"] = cond["Denied"]
      BY <2>1, NamedConditions DEF TypeOK
    <2> QED
      BY <2>2, <2>3
  <1>4. CASE j.out = "agentfailed" /\ s # "verification"
    <2>1. SetCondition(stepConditionType(s), Cond("False", "SandboxFailed"))
      BY <1>4 DEF WriteOutcome
    <2> QED
      BY <1>0, <2>1, SetConditionWrites
  <1> QED
    BY <1>0, <1>1, <1>2, <1>3, <1>4 DEF Outcomes

\* What a phase handler of the worker writes.
LEMMA HandlePhaseWrites ==
    ASSUME TypeOK, HandlePhase
    PROVE  WorkflowWrite(cond, cond')
  <1>s. /\ "analysis" \in Steps /\ "execution" \in Steps
        /\ "verification" \in Steps /\ "escalation" \in Steps
    BY DEF Steps
  <1>u. ASSUME UNCHANGED cond PROVE WorkflowWrite(cond, cond')
    BY <1>u DEF WorkflowWrite
  <1>d. ASSUME NEW s \in Steps, denyAgenticRun(s) PROVE WorkflowWrite(cond, cond')
    <2>1. SetCondition("Denied", Cond("True", "UserDenied"))
      BY <1>d DEF denyAgenticRun
    <2> QED
      BY <2>1, SetConditionWrites
  <1>t. ASSUME NEW s \in Steps, StartStep(s) \/ StartFails(s)
        PROVE  WorkflowWrite(cond, cond')
    <2>1. CASE StartStep(s)
      <3>1. /\ SetCondition(stepConditionType(s), Cond("Unknown", "InProgress"))
            /\ stepConditionType(s) \in WorkflowConditions
        BY <2>1, StepConditionIsWorkflow DEF StartStep
      <3> QED
        BY <3>1, SetConditionWrites
    <2>2. CASE StartFails(s)
      BY <2>2, <1>u DEF StartFails
    <2> QED
      BY <1>t, <2>1, <2>2
  <1>1. CASE handleAnalysis
    BY <1>1, <1>s, <1>d, <1>t DEF handleAnalysis
  <1>2. CASE handleExecution
    <2>1. CASE SkipExecution
      BY <2>1 DEF SkipExecution, TypeOK, WorkflowWrite, Cond
    <2> QED
      BY <1>2, <2>1, <1>s, <1>d, <1>t DEF handleExecution
  <1>3. CASE handleVerification
    <2>1. CASE SetCondition("Verified", Cond("True", "Skipped"))
      <3>1. "Verified" \in WorkflowConditions
        BY DEF WorkflowConditions
      <3> QED
        BY <2>1, <3>1, SetConditionWrites
    <2> QED
      BY <1>3, <2>1, <1>s, <1>d, <1>t DEF handleVerification
  <1>4. CASE handleEscalation
    BY <1>4, <1>s, <1>d, <1>t DEF handleEscalation
  <1>5. CASE handleRevision
    <2>1. Revising(cond, cond') \/ UNCHANGED cond
      BY <1>5 DEF handleRevision, Revise, Revising
    <2>2. cond \in [ConditionTypes -> Condition]
      BY DEF TypeOK
    <2> QED
      BY <2>1, <2>2, <1>u, RevisingWrites
  <1> QED
    BY <1>1, <1>2, <1>3, <1>4, <1>5 DEF HandlePhase

\* A labelled revision begins after feedback, on a run that is not denied, and
\* writes nothing yet.
LEMMA HandlePhaseRevises ==
    ASSUME TypeOK, HandlePhase, worker'.pc = "revise"
    PROVE  /\ ~HasAcceptedStop(cond) /\ UNCHANGED cond
           /\ cond["Denied"].st # "True" /\ feedback
  <1>1. worker.pc = "idle" /\ ~HasAcceptedStop(cond) /\ Active
    BY DEF HandlePhase, Dispatching, Reconciling, Runnable
  <1>2. ASSUME NEW q, denyAgenticRun(q) \/ StartStep(q) \/ StartFails(q) PROVE FALSE
    BY <1>1, <1>2 DEF denyAgenticRun, StartStep, StartFails, WorkerIdle
  <1>3. ~SkipExecution /\ ~Revise /\ ~UNCHANGED worker
    BY <1>1 DEF SkipExecution, Revise, WorkerIdle
  <1>4. handleRevision
    BY <1>2, <1>3 DEF HandlePhase, handleAnalysis, handleExecution, handleVerification,
       handleEscalation
  <1>5. UNCHANGED cond /\ feedback
    BY <1>3, <1>4 DEF handleRevision, needsRevision
  <1>6. Phase \notin {"EmergencyStopped", "Escalated", "Denied"}
    BY <1>1 DEF Active, Revisable, isTerminal, TerminalPhases
  <1>7. cond["Denied"].st # "True"
    BY <1>6 DEF Phase, DerivePhase
  <1> QED
    BY <1>1, <1>5, <1>7

\* Every step of the system leaves the conditions alone, or writes them for the
\* workflow while no stop is accepted, or accepts a stop, or decides its outcome,
\* or is the status patch of a labelled revision.
LEMMA CondStep ==
    ASSUME TypeOK, [Next]_vars
    PROVE  \/ UNCHANGED cond
           \/ /\ ~HasAcceptedStop(cond) /\ WorkflowWrite(cond, cond')
              /\ cond'["Denied"] = cond["Denied"] \/ worker'.pc # "revise"
           \/ Accepting(cond, cond') /\ UNCHANGED worker
           \/ Deciding(cond, cond') /\ UNCHANGED worker
           \/ /\ worker.pc = "revise" /\ worker'.pc = "launch"
              /\ Revising(cond, cond')
  <1>1. CASE UNCHANGED vars
    BY <1>1 DEF vars
  <1>2. CASE WorkerNext
    <2>1. CASE RecordResolutionFailure
      <3>1. /\ ~HasAcceptedStop(cond) /\ "Analyzed" \in WorkflowConditions
            /\ SetCondition("Analyzed", Cond("False", "WorkflowFailed"))
            /\ "Denied" \notin WorkflowConditions
        BY <2>1 DEF RecordResolutionFailure, Runnable, WorkflowConditions
      <3> QED
        BY <3>1, SetConditionWrites
    <2>2. CASE HandlePhase
      <3>1. ~HasAcceptedStop(cond)
        BY <2>2 DEF HandlePhase, Dispatching, Reconciling, Runnable
      <3> QED
        BY <2>2, <3>1, HandlePhaseWrites, HandlePhaseRevises
    <2>3. CASE failStep
      <3>1. worker.step \in Steps
        BY DEF TypeOK, Worker
      <3>2. /\ ~HasAcceptedStop(cond)
            /\ \/ SetCondition(stepConditionType(worker.step), Cond("False", "Failed"))
               \/ UNCHANGED cond
        BY <2>3 DEF failStep, Runnable
      <3>3. /\ stepConditionType(worker.step) \in WorkflowConditions
            /\ "Denied" \notin WorkflowConditions
        BY <3>1, StepConditionIsWorkflow DEF WorkflowConditions
      <3> QED
        BY <3>2, <3>3, SetConditionWrites
    <2>4. CASE ReviseLabelled
      BY <2>4 DEF ReviseLabelled, Revise, Revising, WorkerIdle
    <2> QED
      BY <1>2, <2>1, <2>2, <2>3, <2>4
      DEF WorkerNext, ensureAgenticRunApproval, ResolutionFails,
          handleTerminalCleanup, LaunchStopped,
          LaunchFails, PrepareSandbox, createBarePod, AwaitDeletion, AwaitTimesOut,
          patchSandboxInfo, Boot
  <1>3. CASE HandlerNext
    <2>1. CASE ReportProgress
      <3> DEFINE s == job["events"].step
      <3>1. s \in Steps
        BY DEF TypeOK, Job, Handlers
      <3>2. \/ UNCHANGED cond
            \/ /\ ~HasAcceptedStop(cond)
               /\ \E rs \in {"Running", "WaitingForSandbox"} :
                     patchStepCondition(s, Cond("Unknown", rs))
        BY <2>1 DEF ReportProgress, Runnable
      <3> QED
        BY <3>1, <3>2, PatchWrites
    <2>2. ASSUME NEW h \in Handlers, patchStepResult(h)
          PROVE  \/ UNCHANGED cond
                 \/ /\ ~HasAcceptedStop(cond) /\ WorkflowWrite(cond, cond')
                    /\ cond'["Denied"] = cond["Denied"]
      <3>1. job[h] \in Job /\ job[h].step \in Steps
        BY DEF TypeOK, Job
      <3>2. \/ UNCHANGED cond
            \/ ~HasAcceptedStop(cond) /\ WriteOutcome(job[h].step, job[h])
        BY <2>2 DEF patchStepResult, Runnable
      <3> QED
        BY <3>1, <3>2, OutcomeWrites
    <2> QED
      BY <1>3, <2>1, <2>2
      DEF HandlerNext, PodChanged, PodChangedOld, PodDeleted, PodEventFrame,
          handlePodTimeEvent, completeStep, releaseSandbox
  <1>4. CASE StopNext
    <2>0. CASE persistRunStopGlobal
      BY <2>0 DEF persistRunStopGlobal, Accepting
    <2>1. ASSUME NEW a \in Actors, persistRunStop(a)
          PROVE  Accepting(cond, cond') /\ UNCHANGED worker
      BY <2>1 DEF persistRunStop, Accepting
    <2>2. ASSUME NEW a \in Actors, ResumeCleanup(a)
          PROVE  UNCHANGED cond \/ (Deciding(cond, cond') /\ UNCHANGED worker)
      BY <2>2 DEF ResumeCleanup, writeSuspensionOutcome, Deciding
    <2>3. ASSUME NEW a \in Actors, FinishPass(a)
          PROVE  UNCHANGED cond \/ (Deciding(cond, cond') /\ UNCHANGED worker)
      <3> DEFINE open == StopIntent(cond) /\ ~HasFinalStopOutcome(cond)
      <3>1. \/ UNCHANGED cond
            \/ open /\ UNCHANGED worker /\ \E b \in BOOLEAN : writeSuspensionOutcome(b)
        BY <2>3 DEF FinishPass
      <3> QED
        BY <3>1 DEF writeSuspensionOutcome, Deciding
    <2> QED
      BY <1>4, <2>0, <2>1, <2>2, <2>3
      DEF StopNext, CleanupSuspension, suspensionCleanupPass, handleTerminalRecord
  <1>5. CASE UserNext
    BY <1>5 DEF UserNext, EditSpec, SyncApproval, Suspend, RecordActivation, Resume,
       WindowElapses, Decide
  <1>6. CASE ClusterNext
    BY <1>6 DEF ClusterNext, Crash, PodRuns, AgentReports, PodExits, PodRemoved,
       OutsideWorld
  <1> QED
    BY <1>1, <1>2, <1>3, <1>4, <1>5, <1>6 DEF Next

\* A labelled revision begins only while no stop is accepted.
LEMMA RevisionBegins ==
    ASSUME TypeOK, [Next]_vars, worker'.pc = "revise", worker.pc # "revise"
    PROVE  /\ ~HasAcceptedStop(cond) /\ UNCHANGED cond
           /\ cond["Denied"].st # "True" /\ feedback
  <1>1. ~UNCHANGED worker
    OBVIOUS
  <1>2. HandlePhase
    <2>1. CASE UNCHANGED vars
      BY <1>1, <2>1 DEF vars
    <2>2. CASE WorkerNext
      <3>1. ASSUME NEW pc \in {"create", "await", "info", "fail"}
            PROVE  [worker EXCEPT !.pc = pc].pc = pc
        BY DEF TypeOK, Worker
      <3>2. ~PrepareSandbox
        BY <3>1 DEF PrepareSandbox, TypeOK, Worker
      <3>3. ~LaunchFails /\ ~createBarePod /\ ~AwaitTimesOut
        BY <3>1 DEF LaunchFails, createBarePod, AwaitTimesOut
      <3>4. ~AwaitDeletion
        <4>1. AwaitDeletion => \/ worker' = [worker EXCEPT !.pc = "create"]
                               \/ worker' = WorkerIdle
          BY DEF AwaitDeletion
        <4>2. WorkerIdle.pc = "idle"
          BY DEF WorkerIdle
        <4> QED
          BY <3>1, <4>1, <4>2
      <3>5. ~ensureAgenticRunApproval /\ ~handleTerminalCleanup
        BY <1>1 DEF ensureAgenticRunApproval, handleTerminalCleanup
      <3>6. /\ ~LaunchStopped /\ ~patchSandboxInfo /\ ~failStep /\ ~Boot
            /\ ~ResolutionFails /\ ~RecordResolutionFailure /\ ~ReviseLabelled
        BY DEF LaunchStopped, patchSandboxInfo, failStep, Boot, WorkerIdle,
           ResolutionFails, RecordResolutionFailure, ReviseLabelled, Revise
      <3> QED
        BY <2>2, <3>2, <3>3, <3>4, <3>5, <3>6 DEF WorkerNext
    <2>3. CASE HandlerNext
      BY <1>1, <2>3
      DEF HandlerNext, ReportProgress, PodChanged, PodChangedOld, PodDeleted,
         PodEventFrame, handlePodTimeEvent, completeStep, patchStepResult,
         releaseSandbox, HandlerStep
    <2>4. CASE StopNext
      BY <1>1, <2>4
      DEF StopNext, persistRunStopGlobal, CleanupSuspension, persistRunStop,
         ResumeCleanup, suspensionCleanupPass, FinishPass, handleTerminalRecord
    <2>5. CASE UserNext
      BY <1>1, <2>5
      DEF UserNext, EditSpec, SyncApproval, Suspend, RecordActivation, Resume,
         WindowElapses, Decide
    <2>6. CASE ClusterNext
      BY <1>1, <2>6
      DEF ClusterNext, Crash, WorkerIdle, PodRuns, AgentReports, PodExits, PodRemoved,
         OutsideWorld
    <2> QED
      BY <2>1, <2>2, <2>3, <2>4, <2>5, <2>6 DEF Next
  <1> QED
    BY <1>2, HandlePhaseRevises

\* The Stopping condition alone tells how far a stop has come: the other marks
\* of an outcome never stand without it.
StopMark(c) ==
    \/ ~HasAcceptedStop(c) /\ c["Stopping"].st # "False"
    \/ StopIntent(c) /\ ~HasFinalStopOutcome(c)
    \/ /\ c["Stopping"].st = "False"
       /\ c["Stopping"].rs \in {"TeardownComplete", "TeardownFailed"}

\* A run whose revision is under way is not denied.
RevisionInv == worker.pc = "revise" => cond["Denied"].st # "True"

StopInv == TypeOK /\ RevisionInv /\ StopMark(cond)

\* What a stop decides leaves a denial alone.
LEMMA OutcomeKeepsDenial ==
    ASSUME NEW c \in [ConditionTypes -> Condition], NEW b \in BOOLEAN
    PROVE  StopOutcome(c, b)["Denied"] = c["Denied"]
  <1>1. suspensionFailureCondition(DerivePhase(c)) \subseteq WorkflowConditions
    BY PhaseTyped, FailureConditionIsWorkflow
  <1>2. "Denied" \notin WorkflowConditions
    BY DEF WorkflowConditions
  <1> QED
    BY <1>1, <1>2, NamedConditions DEF StopOutcome

\* Every step keeps it.
LEMMA RevisionInvStep ==
    ASSUME TypeOK, RevisionInv, [Next]_vars
    PROVE  RevisionInv'
  <1> SUFFICES ASSUME worker'.pc = "revise"
               PROVE  cond'["Denied"].st # "True"
    BY DEF RevisionInv
  <1>1. CASE worker.pc # "revise"
    BY <1>1, RevisionBegins
  <1>2. CASE worker.pc = "revise"
    <2>1. cond["Denied"].st # "True" /\ cond \in [ConditionTypes -> Condition]
      BY <1>2 DEF RevisionInv, TypeOK
    <2>2. cond'["Denied"] = cond["Denied"]
      <3>1. CASE Accepting(cond, cond')
        BY <2>1, <3>1, NamedConditions DEF Accepting
      <3>2. CASE Deciding(cond, cond')
        BY <2>1, <3>2, OutcomeKeepsDenial DEF Deciding
      <3> QED
        BY <3>1, <3>2, CondStep
    <2> QED
      BY <2>1, <2>2
  <1> QED
    BY <1>1, <1>2

\* Only the EmergencyStopped condition brings the EmergencyStopped phase.
LEMMA EmergencyStoppedPhase ==
    ASSUME NEW c \in [ConditionTypes -> Condition]
    PROVE  DerivePhase(c) = "EmergencyStopped" <=> c["EmergencyStopped"].st = "True"
  <1>1. \A t \in ConditionTypes : c[t].st \in Statuses
    BY DEF Condition
  <1>2. AnalyzedPhase(c) # "EmergencyStopped"
    BY <1>1, NamedConditions DEF AnalyzedPhase, Statuses
  <1>3. ExecutedPhase(c) # "EmergencyStopped"
    BY <1>1, <1>2, NamedConditions DEF ExecutedPhase, Statuses
  <1>4. VerifiedPhase(c) # "EmergencyStopped"
    BY <1>1, <1>3, NamedConditions DEF VerifiedPhase, Statuses
  <1> QED
    BY <1>4 DEF DerivePhase

\* The phase after the status patch of a revision.
LEMMA RevisingPhase ==
    ASSUME NEW c \in [ConditionTypes -> Condition], NEW d, Revising(c, d),
           c["Denied"].st # "True"
    PROVE  DerivePhase(d) = IF DerivePhase(c) = "EmergencyStopped"
                            THEN DerivePhase(c) ELSE "Analyzing"
  <1>1. /\ d["Executed"] = Absent /\ d["Verified"] = Absent /\ d["Escalated"] = Absent
        /\ d["Analyzed"] = Cond("Unknown", "Revising")
    BY NamedConditions DEF Revising
  <1>2. Absent.st = "Absent" /\ Cond("Unknown", "Revising").st = "Unknown"
    BY DEF Absent, Cond
  <1>3. d["Denied"] = c["Denied"] /\ d["EmergencyStopped"] = c["EmergencyStopped"]
    BY RevisingWrites
  <1>4. DerivePhase(c) = "EmergencyStopped" <=> c["EmergencyStopped"].st = "True"
    BY EmergencyStoppedPhase
  <1>5. CASE c["EmergencyStopped"].st = "True"
    BY <1>3, <1>4, <1>5 DEF DerivePhase
  <1>6. CASE c["EmergencyStopped"].st # "True"
    <2>1. d["EmergencyStopped"].st # "True" /\ d["Denied"].st # "True"
      BY <1>3, <1>6
    <2>2. VerifiedPhase(d) = "Analyzing"
      BY <1>1, <1>2 DEF VerifiedPhase, ExecutedPhase, AnalyzedPhase
    <2>3. d["Escalated"].st = "Absent"
      BY <1>1, <1>2
    <2> QED
      BY <1>4, <1>6, <2>1, <2>2, <2>3 DEF DerivePhase
  <1> QED
    BY <1>5, <1>6

----------------------------------------------------------------------------
(* What acceptance and outcome make of the conditions.                      *)

\* The outcome of a stop, confirmed or not, is a final one.
LEMMA OutcomeIsFinal ==
    ASSUME NEW c \in [ConditionTypes -> Condition], NEW b \in BOOLEAN
    PROVE  /\ StopOutcome(c, b)["Stopping"] =
                 Cond("False", IF b THEN "TeardownComplete" ELSE "TeardownFailed")
           /\ HasFinalStopOutcome(StopOutcome(c, b))
  <1>1. DerivePhase(c) \in Phases
    BY PhaseTyped
  <1>2. suspensionFailureCondition(DerivePhase(c)) \subseteq WorkflowConditions
    BY <1>1, FailureConditionIsWorkflow
  <1>3. "Stopping" \in ConditionTypes /\ "Stopping" \notin WorkflowConditions
    BY DEF ConditionTypes, WorkflowConditions
  <1>4. StopOutcome(c, b)["Stopping"] =
           Cond("False", IF b THEN "TeardownComplete" ELSE "TeardownFailed")
    BY <1>2, <1>3 DEF StopOutcome
  <1> QED
    BY <1>4 DEF HasFinalStopOutcome, Cond

\* A workflow write leaves an accepted stop accepted, when its Stopping condition
\* says so.
LEMMA RevisingKeepsStop ==
    ASSUME NEW c \in [ConditionTypes -> Condition], NEW d, Revising(c, d), StopMark(c)
    PROVE  StopMark(d)
  <1>1. d["Stopping"] = c["Stopping"] /\ d["EmergencyStopped"] = c["EmergencyStopped"]
        /\ WorkflowWrite(c, d)
    BY RevisingWrites
  <1>2. ~HasFinalStopOutcome(c) => ~HasFinalStopOutcome(d)
    BY <1>1 DEF HasFinalStopOutcome, WorkflowWrite
  <1> QED
    BY <1>1, <1>2 DEF StopMark, HasAcceptedStop, StopIntent

\* The phase does not look at the Stopping condition.
LEMMA PhaseIgnoresStopping ==
    ASSUME NEW c, NEW d, \A t \in ConditionTypes \ {"Stopping"} : d[t] = c[t]
    PROVE  DerivePhase(d) = DerivePhase(c)
  <1>1. /\ d["Analyzed"] = c["Analyzed"] /\ d["Executed"] = c["Executed"]
        /\ d["Verified"] = c["Verified"] /\ d["Escalated"] = c["Escalated"]
        /\ d["Denied"] = c["Denied"] /\ d["EmergencyStopped"] = c["EmergencyStopped"]
    BY NamedConditions
  <1>2. AnalyzedPhase(d) = AnalyzedPhase(c)
    BY <1>1 DEF AnalyzedPhase
  <1>3. ExecutedPhase(d) = ExecutedPhase(c)
    BY <1>1, <1>2 DEF ExecutedPhase
  <1>4. VerifiedPhase(d) = VerifiedPhase(c)
    BY <1>1, <1>3 DEF VerifiedPhase
  <1> QED
    BY <1>1, <1>4 DEF DerivePhase

\* A workflow write neither accepts a stop nor decides one.
LEMMA WriteKeepsRunning ==
    ASSUME NEW c, NEW d, WorkflowWrite(c, d), ~HasAcceptedStop(c)
    PROVE  ~HasAcceptedStop(d)
  <1>1. d["Stopping"] = c["Stopping"] /\ d["EmergencyStopped"] = c["EmergencyStopped"]
    BY NamedConditions DEF WorkflowWrite
  <1>2. ~\E t \in ConditionTypes : d[t].st = "False" /\ d[t].rs = "EmergencyStopFailed"
    BY DEF WorkflowWrite, HasAcceptedStop, HasFinalStopOutcome
  <1> QED
    BY <1>1, <1>2 DEF HasAcceptedStop, StopIntent, HasFinalStopOutcome

\* Accepting a stop is acceptance without an outcome, in the phase as it was.
LEMMA AcceptingAccepts ==
    ASSUME NEW c \in [ConditionTypes -> Condition], NEW d, Accepting(c, d)
    PROVE  /\ StopIntent(d) /\ ~HasFinalStopOutcome(d)
           /\ DerivePhase(d) = DerivePhase(c)
  <1>1. \A t \in ConditionTypes \ {"Stopping"} : d[t] = c[t]
    BY DEF Accepting
  <1>2. d["Stopping"] = Cond("True", "SystemSuspended")
    BY NamedConditions DEF Accepting
  <1>3. ~HasFinalStopOutcome(c)
    BY DEF Accepting, HasAcceptedStop
  <1>4. ~HasFinalStopOutcome(d)
    BY <1>1, <1>2, <1>3, NamedConditions DEF HasFinalStopOutcome, Cond
  <1> QED
    BY <1>1, <1>2, <1>4, PhaseIgnoresStopping DEF StopIntent

\* The condition a failed teardown marks, phase by phase.
LEMMA FailureConditions ==
    /\ suspensionFailureCondition("Pending") = {"Analyzed"}
    /\ suspensionFailureCondition("Analyzing") = {"Analyzed"}
    /\ suspensionFailureCondition("Proposed") = {"Executed"}
    /\ suspensionFailureCondition("Executing") = {"Executed"}
    /\ suspensionFailureCondition("Verifying") = {"Verified"}
    /\ suspensionFailureCondition("Escalating") = {"Escalated"}
  BY DEF suspensionFailureCondition, isTerminal, TerminalPhases

\* A confirmed outcome brings EmergencyStopped, an unconfirmed one Failed, to a
\* run that was still active.
LEMMA OutcomePhase ==
    ASSUME NEW c \in [ConditionTypes -> Condition], ~isTerminal(DerivePhase(c))
    PROVE  /\ DerivePhase(StopOutcome(c, TRUE)) = "EmergencyStopped"
           /\ DerivePhase(StopOutcome(c, FALSE)) = "Failed"
  <1> DEFINE p == DerivePhase(c)
             yes == StopOutcome(c, TRUE)
             no == StopOutcome(c, FALSE)
  <1>1. p \in {"Pending", "Analyzing", "Proposed", "Executing", "Verifying", "Escalating"}
    BY PhaseTyped DEF isTerminal, TerminalPhases, Phases
  <1>2. yes["EmergencyStopped"].st = "True"
    BY NamedConditions DEF StopOutcome, Cond
  <1>3. DerivePhase(yes) = "EmergencyStopped"
    BY <1>2 DEF DerivePhase
  <1>4. /\ c["EmergencyStopped"].st # "True" /\ c["Escalated"].st # "True"
        /\ c["Denied"].st # "True"
    BY DEF DerivePhase, isTerminal, TerminalPhases
  <1>5. suspensionFailureCondition(p) \subseteq WorkflowConditions
    BY <1>1, FailureConditionIsWorkflow DEF Phases
  <1>6. \A t \in ConditionTypes :
          no[t] = IF t \in suspensionFailureCondition(p)
                  THEN Cond("False", "EmergencyStopFailed")
                  ELSE IF t = "Stopping" THEN Cond("False", "TeardownFailed") ELSE c[t]
    BY DEF StopOutcome
  <1>7. /\ \A t \in suspensionFailureCondition(p) : no[t] = Cond("False", "EmergencyStopFailed")
        /\ \A t \in ConditionTypes \ {"Stopping"} :
             t \notin suspensionFailureCondition(p) => no[t] = c[t]
    <2> HIDE DEF no, p
    <2> QED
      BY <1>5, <1>6 DEF ConditionTypes
  <1>8. \A t \in suspensionFailureCondition(p) : no[t].st = "False"
    <2>1. Cond("False", "EmergencyStopFailed").st = "False"
      BY DEF Cond
    <2> HIDE DEF no, p
    <2> QED
      BY <1>7, <2>1
  <1>9. p = "Escalating" \/ (c["Escalated"].st = "Absent" /\ p = VerifiedPhase(c))
    BY <1>1, <1>4, NamedConditions DEF DerivePhase, Condition, Statuses
  <1>10. c["Verified"].st \in Statuses /\ c["Executed"].st \in Statuses
    BY NamedConditions DEF Condition
  <1> HIDE DEF no, p
  <1>11. no["EmergencyStopped"] = c["EmergencyStopped"] /\ no["Denied"] = c["Denied"]
    BY <1>5, <1>7, NamedConditions DEF WorkflowConditions
  <1>12. ASSUME p = "Escalating" PROVE DerivePhase(no) = "Failed"
    <2>1. no["Escalated"].st = "False"
      BY <1>8, <1>12, FailureConditions
    <2> QED
      BY <1>4, <1>11, <2>1 DEF DerivePhase
  <1>13. ASSUME p # "Escalating" PROVE DerivePhase(no) = "Failed"
    <2>1. no["Escalated"] = c["Escalated"]
      BY <1>1, <1>7, <1>13, NamedConditions, FailureConditions
    <2>2. DerivePhase(no) = VerifiedPhase(no)
      BY <1>4, <1>9, <1>11, <1>13, <2>1 DEF DerivePhase
    <2>3. CASE p = "Verifying"
      <3>1. no["Verified"].st = "False"
        BY <1>8, <2>3, FailureConditions
      <3> QED
        BY <2>2, <3>1 DEF VerifiedPhase
    <2>4. CASE p \in {"Proposed", "Executing"}
      <3>1. c["Verified"].st = "Absent"
        BY <1>9, <1>10, <1>13, <2>4 DEF VerifiedPhase, Statuses
      <3>2. no["Executed"].st = "False" /\ no["Verified"] = c["Verified"]
        BY <1>7, <1>8, <2>4, NamedConditions, FailureConditions
      <3> QED
        BY <2>2, <3>1, <3>2 DEF VerifiedPhase, ExecutedPhase
    <2>5. CASE p \in {"Pending", "Analyzing"}
      <3>1. c["Verified"].st = "Absent" /\ c["Executed"].st = "Absent"
        BY <1>9, <1>10, <1>13, <2>5 DEF VerifiedPhase, ExecutedPhase, Statuses
      <3>2. /\ no["Analyzed"].st = "False" /\ no["Verified"] = c["Verified"]
            /\ no["Executed"] = c["Executed"]
        BY <1>7, <1>8, <2>5, NamedConditions, FailureConditions
      <3> QED
        BY <2>2, <3>1, <3>2 DEF VerifiedPhase, ExecutedPhase, AnalyzedPhase
    <2> QED
      BY <1>1, <1>13, <2>3, <2>4, <2>5
  <1> QED
    BY <1>3, <1>12, <1>13 DEF no

\* A run that was terminal keeps its phase.
LEMMA TerminalOutcomePhase ==
    ASSUME NEW c \in [ConditionTypes -> Condition], NEW b \in BOOLEAN,
           isTerminal(DerivePhase(c))
    PROVE  DerivePhase(StopOutcome(c, b)) = DerivePhase(c)
  <1>1. \A t \in ConditionTypes \ {"Stopping"} : StopOutcome(c, b)[t] = c[t]
    BY DEF StopOutcome
  <1> QED
    BY <1>1, PhaseIgnoresStopping

----------------------------------------------------------------------------
(* The controller implements GlobalStop.                                    *)

\* A new run is a run on which nothing has been stopped.
LEMMA InitMaps ==
    ASSUME Init
    PROVE  Stop!Init /\ StopInv
  <1>1. \A t \in ConditionTypes : cond[t] = Cond("Absent", "")
    BY DEF Init, NoConditions, Absent
  <1>2. \A t \in ConditionTypes : cond[t].st = "Absent"
    <2>1. Cond("Absent", "").st = "Absent"
      BY DEF Cond
    <2> QED
      BY <1>1, <2>1
  <1>3. Phase = "Pending"
    BY <1>2, NamedConditions
    DEF Phase, DerivePhase, VerifiedPhase, ExecutedPhase, AnalyzedPhase
  <1>4. ~StopIntent(cond)
    <2>1. Cond("True", "SystemSuspended").st = "True"
      BY DEF Cond
    <2> QED
      BY <1>2, <2>1, NamedConditions DEF StopIntent
  <1>5. ~HasFinalStopOutcome(cond)
    BY <1>2, NamedConditions DEF HasFinalStopOutcome
  <1>6. worker.pc = "idle"
    BY DEF Init, WorkerIdle
  <1>7. Stop!Init
    BY <1>2, <1>3, <1>4, <1>6, NamedConditions DEF Stop!Init, stopStage
  <1> QED
    BY <1>2, <1>4, <1>5, <1>6, <1>7, NamedConditions, TypeOKInit
    DEF StopInv, StopMark, RevisionInv, HasAcceptedStop

\* Every step of the controllers is a step of GlobalStop, or none.
LEMMA StepMaps ==
    ASSUME StopInv, [Next]_vars
    PROVE  StopInv' /\ (Stop!Next \/ UNCHANGED Stop!vars)
  <1>0. TypeOK /\ TypeOK' /\ RevisionInv /\ RevisionInv' /\ StopMark(cond)
    BY TypeOKStep, RevisionInvStep DEF StopInv
  <1>1. cond \in [ConditionTypes -> Condition] /\ cond' \in [ConditionTypes -> Condition]
    BY <1>0 DEF TypeOK
  <1>2. \A c : StopIntent(c) => c["Stopping"].st = "True"
    <2>1. Cond("True", "SystemSuspended").st = "True"
      BY DEF Cond
    <2> QED
      BY <2>1 DEF StopIntent
  <1>3. ~HasAcceptedStop(cond) => stopStage = "running" /\ cond["Stopping"].st # "False"
    BY <1>0, <1>2 DEF StopMark, HasAcceptedStop, HasFinalStopOutcome, stopStage
  <1>4. ~HasAcceptedStop(cond) => Phase \in Phases \ {"EmergencyStopped"}
    BY <1>1, PhaseTyped, EmergencyStoppedPhase
    DEF Phase, HasAcceptedStop, HasFinalStopOutcome
  <1>5. (worker'.pc = "revise" /\ worker.pc # "revise") => ~HasAcceptedStop(cond)
    BY <1>0, RevisionBegins
  <1> SUFFICES StopMark(cond') /\ (Stop!Next \/ UNCHANGED Stop!vars)
    BY <1>0 DEF StopInv
  <1>6. CASE UNCHANGED cond
    <2>1. StopMark(cond') /\ stopStage' = stopStage /\ Phase' = Phase
      BY <1>0, <1>6 DEF stopStage, Phase
    <2>2. CASE (worker'.pc = "revise") = (worker.pc = "revise")
      BY <2>1, <2>2 DEF Stop!vars
    <2>3. CASE worker'.pc = "revise" /\ worker.pc # "revise"
      <3>1. Stop!Work
        BY <1>3, <1>4, <1>5, <2>1, <2>3 DEF Stop!Work, Stop!Phases, Phases
      <3> QED
        BY <2>1, <3>1 DEF Stop!Next
    <2>4. CASE worker'.pc # "revise" /\ worker.pc = "revise"
      <3>1. Stop!Reopen
        BY <2>1, <2>4 DEF Stop!Reopen
      <3> QED
        BY <2>1, <3>1 DEF Stop!Next
    <2> QED
      BY <2>2, <2>3, <2>4
  <1>7. CASE ~HasAcceptedStop(cond) /\ WorkflowWrite(cond, cond')
    <2>1. ~HasAcceptedStop(cond') /\ cond'["Stopping"] = cond["Stopping"]
      BY <1>7, WriteKeepsRunning, NamedConditions DEF WorkflowWrite
    <2>2. StopMark(cond') /\ stopStage' = "running"
      BY <1>3, <1>7, <2>1 DEF StopMark, HasAcceptedStop, stopStage
    <2>3. Phase' \in Phases \ {"EmergencyStopped"}
      BY <1>1, <2>1, PhaseTyped, EmergencyStoppedPhase
      DEF Phase, HasAcceptedStop, HasFinalStopOutcome
    <2>4. (worker'.pc = "revise") \in BOOLEAN
      OBVIOUS
    <2>5. Stop!Work
      BY <1>3, <1>7, <2>2, <2>3, <2>4 DEF Stop!Work, Stop!Phases, Phases
    <2> QED
      BY <2>2, <2>5 DEF Stop!Next
  <1>8. CASE Accepting(cond, cond') /\ UNCHANGED worker
    <2>1. StopIntent(cond') /\ ~HasFinalStopOutcome(cond') /\ Phase' = Phase
      BY <1>1, <1>8, AcceptingAccepts DEF Phase
    <2>2. ~HasAcceptedStop(cond)
      BY <1>8 DEF Accepting
    <2>3. StopMark(cond') /\ stopStage' = "accepted"
      BY <2>1 DEF StopMark, stopStage
    <2> QED
      BY <1>3, <1>8, <2>1, <2>2, <2>3 DEF Stop!Next, Stop!Accept
  <1>9. CASE Deciding(cond, cond') /\ UNCHANGED worker
    <2>1. StopIntent(cond) /\ stopStage = "accepted"
      BY <1>9 DEF Deciding, stopStage
    <2>2. PICK b \in BOOLEAN : cond' = StopOutcome(cond, b)
      BY <1>9 DEF Deciding
    <2>3. cond'["Stopping"] =
             Cond("False", IF b THEN "TeardownComplete" ELSE "TeardownFailed")
      BY <1>1, <2>2, OutcomeIsFinal
    <2>4. /\ cond'["Stopping"].st = "False"
          /\ cond'["Stopping"].rs = IF b THEN "TeardownComplete" ELSE "TeardownFailed"
      BY <2>3 DEF Cond
    <2>5. StopMark(cond')
      BY <2>4 DEF StopMark
    <2>6. stopStage' = IF b THEN "stopped" ELSE "failed"
      BY <1>2, <2>4 DEF stopStage
    <2>7. Phase' = IF isTerminal(Phase) THEN Phase
                   ELSE IF b THEN "EmergencyStopped" ELSE "Failed"
      BY <1>1, <2>2, OutcomePhase, TerminalOutcomePhase DEF Phase
    <2>8. IF b THEN Stop!Confirm ELSE Stop!GiveUp
      BY <1>9, <2>1, <2>6, <2>7
      DEF Stop!Confirm, Stop!GiveUp, Stop!isTerminal, isTerminal, Stop!TerminalPhases,
          TerminalPhases
    <2> QED
      BY <2>5, <2>8 DEF Stop!Next
  <1>10. CASE /\ worker.pc = "revise" /\ worker'.pc = "launch"
              /\ Revising(cond, cond')
    <2>1. StopMark(cond')
      BY <1>0, <1>1, <1>10, RevisingKeepsStop
    <2>2. cond'["Stopping"] = cond["Stopping"]
      BY <1>1, <1>10, RevisingWrites
    <2>3. stopStage' = stopStage
      BY <2>2 DEF stopStage, StopIntent
    <2>4. cond["Denied"].st # "True"
      BY <1>0, <1>10 DEF RevisionInv
    <2>5. Phase' = IF Phase = "EmergencyStopped" THEN Phase ELSE "Analyzing"
      BY <1>1, <1>10, <2>4, RevisingPhase DEF Phase
    <2>6. Stop!Reopen
      BY <1>10, <2>3, <2>5 DEF Stop!Reopen
    <2> QED
      BY <2>1, <2>6 DEF Stop!Next
  <1> QED
    BY <1>0, <1>6, <1>7, <1>8, <1>9, <1>10, CondStep

\* The inductive invariant of this module.
LEMMA StopInvAlways ==
    Spec => []StopInv
  <1>1. Init => StopInv
    BY InitMaps
  <1>2. StopInv /\ [Next]_vars => StopInv'
    BY StepMaps
  <1> QED
    BY <1>1, <1>2, PTL DEF Spec

\* Every behaviour of the controllers is one GlobalStop allows: a run on which no
\* stop is accepted works on, acceptance freezes its phase and lets no revision
\* begin, writeSuspensionOutcome brings exactly one of the two outcomes, for ever,
\* and at most one revision, under way at acceptance, reopens the run.
THEOREM ImplementsGlobalStopAlways == Spec => ImplementsGlobalStop
  <1>1. Init => Stop!Init
    BY InitMaps
  <1>2. StopInv /\ [Next]_vars => [Stop!Next]_(Stop!vars)
    BY StepMaps
  <1> QED
    BY <1>1, <1>2, StopInvAlways, PTL DEF Spec, ImplementsGlobalStop, Stop!Spec

----------------------------------------------------------------------------
(* A stop is final.                                                         *)

\* Once a stop is accepted nothing moves the run but its one outcome, however
\* late completions, timeouts, failed launches, approvals, crashes and resumptions
\* are interleaved with it, and no revision begins; a revision of a labelled run
\* that was under way reopens the run once.
THEOREM StopIsFinalAlways == Spec => StopIsFinal
  <1> DEFINE Final ==
        HasAcceptedStop(cond) =>
          /\ HasAcceptedStop(cond')
          /\ worker'.pc = "revise" => worker.pc = "revise"
          /\ \/ Phase' = Phase
             \/ ~HasFinalStopOutcome(cond) /\ HasFinalStopOutcome(cond')
             \/ worker.pc = "revise" /\ worker'.pc = "launch" /\ Phase' = "Analyzing"
  <1>1. ASSUME StopInv, [Next]_vars, HasAcceptedStop(cond)
        PROVE  /\ HasAcceptedStop(cond')
               /\ worker'.pc = "revise" => worker.pc = "revise"
               /\ \/ Phase' = Phase
                  \/ ~HasFinalStopOutcome(cond) /\ HasFinalStopOutcome(cond')
                  \/ worker.pc = "revise" /\ worker'.pc = "launch" /\ Phase' = "Analyzing"
    <2>0. TypeOK /\ RevisionInv /\ StopMark(cond) /\ cond \in [ConditionTypes -> Condition]
      BY <1>1 DEF StopInv, TypeOK
    <2>1. worker'.pc = "revise" => worker.pc = "revise"
      BY <1>1, <2>0, RevisionBegins
    <2>2. CASE UNCHANGED cond
      BY <1>1, <2>1, <2>2 DEF Phase
    <2>3. CASE Deciding(cond, cond')
      BY <2>0, <2>1, <2>3, OutcomeIsFinal DEF Deciding, HasAcceptedStop
    <2>4. CASE /\ worker.pc = "revise" /\ worker'.pc = "launch"
               /\ Revising(cond, cond')
      <3>1. StopMark(cond')
        BY <2>0, <2>4, RevisingKeepsStop
      <3>2. HasAcceptedStop(cond')
        <4>1. cond'["Stopping"] = cond["Stopping"]
          BY <2>0, <2>4, RevisingWrites
        <4> QED
          BY <1>1, <2>0, <4>1 DEF StopMark, HasAcceptedStop, StopIntent, HasFinalStopOutcome
      <3>3. Phase' = Phase \/ Phase' = "Analyzing"
        BY <2>0, <2>4, RevisingPhase DEF RevisionInv, Phase
      <3> QED
        BY <2>1, <2>4, <3>2, <3>3
    <2> QED
      BY <1>1, <2>0, <2>2, <2>3, <2>4, CondStep DEF Accepting
  <1>2. StopInv /\ [Next]_vars => [Final]_vars
    BY <1>1
  <1> QED
    BY <1>2, StopInvAlways, PTL DEF Spec, StopIsFinal
=============================================================================
