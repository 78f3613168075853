--------------------- MODULE SuspensionControllerProofs ---------------------
(***************************************************************************)
(* Theorems about SuspensionController, for any number of runs, workers,   *)
(* changes and failures.                                                   *)
(***************************************************************************)
EXTENDS SuspensionController, TLAPS

USE DEF knownRemoteEvidence

----------------------------------------------------------------------------
(* Type correctness.                                                        *)

LEMMA NoRunTyped == NoRun \in Run
  BY DEF NoRun, Run

LEMMA PassIdleTyped == PassIdle \in Pass
  BY NoRunTyped DEF PassIdle, Pass, Problems

LEMMA NewConfigTyped ==
    ASSUME NEW u \in Nat, NEW b \in BOOLEAN
    PROVE  /\ NewConfig(u, b) \in Config
           /\ [NewConfig(u, b) EXCEPT !.exists = FALSE] \in Config
  BY DEF NewConfig, Config, Reasons

LEMMA SwitchTyped ==
    ASSUME NEW c \in Config, NEW b \in BOOLEAN, NEW g \in Nat
    PROVE  [c EXCEPT !.on = b, !.gen = g] \in Config
  BY DEF Config

LEMMA UsedTyped ==
    ASSUME NEW v \in Run, NEW b \in BOOLEAN
    PROVE  [v EXCEPT !.used = b] \in Run
  BY DEF Run

LEMMA RevisionTyped ==
    ASSUME NEW v \in Run, NEW b \in BOOLEAN
    PROVE  [v EXCEPT !.life = "active", !.stamp = "none", !.used = b] \in Run
  BY DEF Run

LEMMA AtWorkTyped ==
    ASSUME TypeOK PROVE AtWork \subseteq {"run", "pod"} \X Runs
  BY DEF TypeOK, AtWork

LEMMA TypeOKInit ==
    ASSUME Init PROVE TypeOK
  <1>1. config \in Config
    BY NewConfigTyped DEF Init
  <1>2. run \in [Runs -> Run] /\ pass \in Pass
    BY NoRunTyped, PassIdleTyped DEF Init
  <1> QED
    BY <1>1, <1>2, ControllerAssumption DEF Init, TypeOK

\* A pass that moves on stays a pass.
LEMMA GotoTyped ==
    ASSUME TypeOK, NEW pc \in {"clean", "confirm", "report"},
           NEW P \in SUBSET Problems, Goto(pc, P)
    PROVE  pass' \in Pass
  BY DEF TypeOK, Goto, Pass

LEMMA MarkedTyped ==
    ASSUME TypeOK, NEW r \in Runs, Marked(r)
    PROVE  pass' \in Pass
  <1>1. NoteRun(r) \in SUBSET Problems
    BY DEF NoteRun, Problems
  <1> QED
    BY <1>1, NoRunTyped DEF TypeOK, Marked, Pass

LEMMA StartPassTyped ==
    ASSUME TypeOK, StartPass([uid |-> config.uid, gen |-> config.gen])
    PROVE  pass' \in Pass
  <1>1. config.uid \in Nat /\ config.gen \in Nat
    BY DEF TypeOK, Config
  <1> QED
    BY <1>1, PassIdleTyped DEF StartPass, Pass

LEMMA UpsetTyped ==
    ASSUME TypeOK, Upset PROVE upsets' \in Nat
  BY DEF TypeOK, Upset

\* The conjuncts of TypeOK but the observation of what is owed.
StateOK ==
    /\ config \in Config /\ late \in BOOLEAN
    /\ run \in [Runs -> Run]
    /\ launching \subseteq Runs /\ pods \subseteq Runs
    /\ pass \in Pass
    /\ unseen \subseteq Runs
    /\ changes \in Nat /\ upsets \in Nat

LEMMA TypeOKRecord ==
    ASSUME TypeOK, RecordActivation PROVE TypeOK'
  <1>1. config' \in Config
    BY DEF TypeOK, RecordActivation, Config, Reasons
  <1>2. run' \in [Runs -> Run]
    <2>1. PICK b \in BOOLEAN :
             run' = [r \in Runs |->
                       IF run[r].stamp = "since" /\ ~b
                       THEN [run[r] EXCEPT !.stamp = "before"] ELSE run[r]]
      BY DEF RecordActivation
    <2>2. \A r \in Runs : run[r] \in Run /\ [run[r] EXCEPT !.stamp = "before"] \in Run
      BY DEF TypeOK, Run
    <2> QED
      BY <2>1, <2>2
  <1>3. pass' \in Pass
    BY StartPassTyped DEF RecordActivation
  <1> QED
    BY <1>1, <1>2, <1>3, AtWorkTyped DEF TypeOK, RecordActivation

LEMMA TypeOKPass ==
    ASSUME TypeOK, PassNext PROVE StateOK'
  <1>1. CASE ensureActivationStatus
    <2>1. config' \in Config
      BY <1>1 DEF TypeOK, ensureActivationStatus, Config
    <2> QED
      BY <1>1, <2>1, StartPassTyped DEF TypeOK, StateOK, ensureActivationStatus, PassFrame
  <1>2. CASE handleDeactivation
    <2>1. config' \in Config
      BY <1>2 DEF TypeOK, handleDeactivation, Config, Reasons
    <2> QED
      BY <1>2, <2>1 DEF TypeOK, StateOK, handleDeactivation, PassFrame
  <1>3. CASE ListRuns
    <2>1. pass' \in Pass /\ upsets' \in Nat
      <3>1. CASE Goto("clean", {"inventory"}) /\ Upset
        BY <3>1, GotoTyped, UpsetTyped DEF Problems
      <3>2. CASE ~(Goto("clean", {"inventory"}) /\ Upset)
        <4>1. PICK T \in SUBSET Runs, A \in SUBSET Runs, P \in SUBSET Problems :
                pass' = [pass EXCEPT !.pc = "check", !.todo = T, !.active = A, !.found = P]
          BY <1>3, <3>2 DEF ListRuns, Problems
        <4> QED
          BY <1>3, <3>2, <4>1 DEF TypeOK, ListRuns, Pass
      <3> QED
        BY <3>1, <3>2
    <2> QED
      BY <1>3, <2>1 DEF TypeOK, StateOK, ListRuns, PassFrame
  <1>4. CASE CheckActivation
    <2>1. pass' \in Pass /\ upsets' \in Nat
      <3>1. CASE Goto("clean", {"inventory"}) /\ Upset
        BY <3>1, GotoTyped, UpsetTyped DEF Problems
      <3>2. CASE ~(Goto("clean", {"inventory"}) /\ Upset)
        BY <1>4, <3>2, PassIdleTyped DEF TypeOK, CheckActivation, Pass
      <3> QED
        BY <3>1, <3>2
    <2> QED
      BY <1>4, <2>1 DEF TypeOK, StateOK, CheckActivation, PassFrame
  <1>5. ASSUME NEW r \in Runs, ReadRun(r) PROVE StateOK'
    <2>1. run[r] \in Run
      BY DEF TypeOK
    <2>2. pass' \in Pass
      <3>1. CASE Marked(r)
        BY <3>1, MarkedTyped
      <3>2. CASE ~Marked(r)
        <4>1. CASE pass' = PassIdle
          BY <4>1, PassIdleTyped
        <4>2. CASE pass' = [pass EXCEPT !.pc = "patch", !.target = {r}, !.seen = run[r]]
          BY <2>1, <4>2 DEF TypeOK, Pass
        <4>3. CASE pass' = [pass EXCEPT !.todo = @ \ {r}]
          BY <4>3 DEF TypeOK, Pass
        <4>4. CASE pass' = [pass EXCEPT !.todo = @ \ {r},
                              !.found = @ \cup {"unsaved"} \cup knownRemoteEvidence({r})]
          BY <4>4 DEF TypeOK, Pass, Problems
        <4> QED
          BY <1>5, <3>2, <4>1, <4>2, <4>3, <4>4 DEF ReadRun
      <3> QED
        BY <3>1, <3>2
    <2>3. upsets' \in Nat
      BY <1>5, UpsetTyped DEF TypeOK, ReadRun
    <2> QED
      BY <1>5, <2>2, <2>3 DEF TypeOK, StateOK, ReadRun, PassFrame
  <1>6. ASSUME NEW r \in Runs, PatchRun(r) PROVE StateOK'
    <2>1. run' \in [Runs -> Run]
      BY <1>6 DEF TypeOK, PatchRun, Run
    <2>2. pass' \in Pass
      <3>1. CASE Marked(r)
        BY <3>1, MarkedTyped
      <3>2. CASE ~Marked(r)
        BY <1>6, <3>2, NoRunTyped DEF TypeOK, PatchRun, Pass
      <3> QED
        BY <3>1, <3>2
    <2> QED
      BY <1>6, <2>1, <2>2 DEF TypeOK, StateOK, PatchRun
  <1>7. CASE CleanupSuspension
    <2>1. pass' \in Pass
      BY <1>7, GotoTyped, PassIdleTyped DEF CleanupSuspension, Problems
    <2>2. pods' \subseteq Runs /\ upsets' \in Nat
      BY <1>7, UpsetTyped DEF TypeOK, CleanupSuspension
    <2> QED
      BY <1>7, <2>1, <2>2 DEF TypeOK, StateOK, CleanupSuspension
  <1>8. CASE confirmSuspensionInventory
    <2>1. pass' \in Pass
      BY <1>8, GotoTyped DEF confirmSuspensionInventory, Problems
    <2> QED
      BY <1>8, <2>1 DEF TypeOK, StateOK, confirmSuspensionInventory, PassFrame
  <1>9. CASE patchActivationOutcome
    <2>1. outcomeForEvidence \in Reasons /\ safeToResume \in BOOLEAN
      BY DEF outcomeForEvidence, Reasons, safeToResume
    <2>2. pass.act.gen \in Nat
      BY DEF TypeOK, Pass
    <2>3. config' \in Config
      <3>1. CASE config' = config
        BY <3>1 DEF TypeOK
      <3>2. CASE config' = [config EXCEPT
                   !.suspended = [rs |-> outcomeForEvidence, gen |-> pass.act.gen],
                   !.safe = [ok |-> safeToResume, gen |-> pass.act.gen]]
        <4>1. PICK rs \in Reasons, ok \in BOOLEAN, g \in Nat :
                config' = [config EXCEPT !.suspended = [rs |-> rs, gen |-> g],
                                         !.safe = [ok |-> ok, gen |-> g]]
          BY <2>1, <2>2, <3>2, Zenon
        <4> QED
          BY <4>1 DEF TypeOK, Config
      <3> QED
        BY <1>9, <3>1, <3>2 DEF patchActivationOutcome
    <2>4. upsets' \in Nat /\ unseen' \subseteq Runs
      BY <1>9, UpsetTyped DEF TypeOK, patchActivationOutcome, Pass
    <2> QED
      BY <1>9, <2>3, <2>4, PassIdleTyped DEF TypeOK, StateOK, patchActivationOutcome
  <1> QED
    BY <1>1, <1>2, <1>3, <1>4, <1>5, <1>6, <1>7, <1>8, <1>9 DEF PassNext

LEMMA TypeOKAdmin ==
    ASSUME TypeOK, AdminNext PROVE StateOK'
  <1>1. config.uid \in Nat /\ config.gen \in Nat
    BY DEF TypeOK, Config
  <1>a. config.gen + 1 \in Nat /\ TRUE \in BOOLEAN /\ FALSE \in BOOLEAN
    BY <1>1
  <1>2. config' \in Config
    <2>1. CASE Suspend
      <3>1. CASE config' = [config EXCEPT !.on = TRUE, !.gen = @ + 1]
        BY <1>1, <1>a, <3>1, SwitchTyped, Zenon DEF TypeOK
      <3>2. CASE config' = NewConfig(config.uid + 1, TRUE)
        <4>1. config.uid + 1 \in Nat /\ TRUE \in BOOLEAN
          BY <1>1
        <4> QED
          BY <3>2, <4>1, NewConfigTyped, Zenon
      <3> QED
        BY <2>1, <3>1, <3>2 DEF Suspend
    <2>2. CASE EditConfig \/ Resume
      <3>1. CASE config' = [config EXCEPT !.gen = @ + 1]
        BY <1>1, <3>1 DEF TypeOK, Config
      <3>2. CASE config' = [config EXCEPT !.on = FALSE, !.gen = @ + 1]
        BY <1>1, <1>a, <3>2, SwitchTyped, Zenon DEF TypeOK
      <3> QED
        BY <2>2, <3>1, <3>2 DEF EditConfig, Resume
    <2>3. CASE DeleteConfig
      BY <1>1, <2>3, NewConfigTyped DEF DeleteConfig
    <2> QED
      BY <2>1, <2>2, <2>3 DEF AdminNext
  <1>3. Change
    BY DEF AdminNext, Suspend, EditConfig, Resume, DeleteConfig
  <1>4. late' \in BOOLEAN
    BY <1>3 DEF Change
  <1>5. changes' \in Nat
    BY <1>3 DEF TypeOK, Change
  <1> QED
    BY <1>2, <1>3, <1>4, <1>5 DEF TypeOK, StateOK, Change

LEMMA TypeOKRun ==
    ASSUME TypeOK, NEW r \in Runs, RunNext(r) PROVE StateOK'
  <1>1. run' \in [Runs -> Run]
    <2>1. run[r] \in Run
      BY DEF TypeOK
    <2>2. ASSUME NEW v \in Run, SetRun(r, v) PROVE run' \in [Runs -> Run]
      BY <2>2 DEF TypeOK, SetRun
    <2>3. /\ [NoRun EXCEPT !.life = "active"] \in Run
          /\ [NoRun EXCEPT !.life = "gone"] \in Run
      BY DEF NoRun, Run
    <2>b. (r \in Remote) \in BOOLEAN
      OBVIOUS
    <2>a. /\ [run[r] EXCEPT !.used = r \in Remote] \in Run
          /\ [run[r] EXCEPT !.life = "active", !.stamp = "none", !.used = r \in Remote] \in Run
      BY <2>1, <2>b, UsedTyped, RevisionTyped, Zenon
    <2>4. /\ [run[r] EXCEPT !.life = "done"] \in Run
          /\ [run[r] EXCEPT !.stamp = "since"] \in Run
          /\ [run[r] EXCEPT !.stop = "accepted"] \in Run
          /\ [run[r] EXCEPT !.stop = "final"] \in Run
      BY <2>1 DEF Run
    <2>5. CASE CreateRun(r) \/ DeleteRun(r)
      BY <2>2, <2>3, <2>5 DEF CreateRun, DeleteRun
    <2>6. CASE PodCreated(r) \/ PodEnds(r)
      BY <2>6 DEF PodCreated, PodEnds, TypeOK
    <2>7. CASE \/ StartStep(r) \/ Launch(r) \/ EndRun(r) \/ StampRun(r)
               \/ AcceptStop(r) \/ StopOutcome(r)
      BY <2>2, <2>a, <2>4, <2>7
      DEF StartStep, Launch, EndRun, StampRun, AcceptStop, StopOutcome
    <2>8. CASE ReopenRun(r)
      BY <2>2, <2>a, <2>8 DEF ReopenRun
    <2> QED
      BY <2>5, <2>6, <2>7, <2>8 DEF RunNext
  <1>2. launching' \subseteq Runs /\ pods' \subseteq Runs
    BY DEF TypeOK, RunNext, CreateRun, StartStep, Launch, PodCreated, PodEnds, EndRun,
           StampRun, ReopenRun, AcceptStop, StopOutcome, DeleteRun
  <1>3. UNCHANGED <<config, late>> /\ changes' \in Nat /\ upsets' \in Nat
    BY DEF TypeOK, RunNext, CreateRun, StartStep, Launch, PodCreated, PodEnds, EndRun,
           StampRun, ReopenRun, AcceptStop, StopOutcome, DeleteRun, RunFrame, Upset
  <1>4. pass' \in Pass /\ unseen' \subseteq Runs
    <2>1. CASE ReopenRun(r)
      BY <2>1 DEF TypeOK, ReopenRun, Pass
    <2>2. CASE ~ReopenRun(r)
      BY <2>2 DEF TypeOK, RunNext, CreateRun, StartStep, Launch, PodCreated, PodEnds, EndRun,
                  StampRun, AcceptStop, StopOutcome, DeleteRun, RunFrame
    <2> QED
      BY <2>1, <2>2
  <1> QED
    BY <1>1, <1>2, <1>3, <1>4 DEF TypeOK, StateOK

\* The configuration, the runs and the notes of a pass keep their shape in every
\* step of the controller, the runs and the administrator.
THEOREM TypeCorrect == Spec => []TypeOK
  <1>1. Init => TypeOK
    BY TypeOKInit
  <1>2. TypeOK /\ [Next]_vars => TypeOK'
    <2> SUFFICES ASSUME TypeOK, [Next]_vars PROVE TypeOK'
      OBVIOUS
    <2>1. CASE RecordActivation
      BY <2>1, TypeOKRecord
    <2>2. CASE UNCHANGED vars
      BY <2>2 DEF TypeOK, vars
    <2>3. CASE Observed(PassNext \/ AdminNext \/ WindowElapses \/ Crash
                        \/ \E r \in Runs : RunNext(r))
      <3>1. StateOK'
        <4>1. CASE WindowElapses
          BY <4>1 DEF TypeOK, StateOK, WindowElapses
        <4>2. CASE Crash
          BY <4>2, PassIdleTyped DEF TypeOK, StateOK, Crash, Upset
        <4> QED
          BY <2>3, <4>1, <4>2, TypeOKPass, TypeOKAdmin, TypeOKRun DEF Observed
      <3>2. owed' \subseteq {"run", "pod"} \X Runs
        BY <2>3 DEF Observed, TypeOK
      <3> QED
        BY <3>1, <3>2 DEF StateOK, TypeOK
    <2> QED
      BY <2>1, <2>2, <2>3 DEF Next
  <1> QED
    BY <1>1, <1>2, PTL DEF Spec

----------------------------------------------------------------------------
(* The inductive invariant.                                                 *)

OwedRuns == {r \in Runs : <<"run", r>> \in owed}

OwedPods == {r \in Runs : <<"pod", r>> \in owed}

\* No condition speaks of a generation that is still to come.
ConditionsBehind ==
    config.suspended.gen <= config.gen /\ config.safe.gen <= config.gen

\* What a pass has not yet dealt with is on its list or among its findings: the
\* runs until the marking is over, the Pods from the clean-up on.
PassKeepsTrack ==
    /\ owed \subseteq AtWork
    /\ pass.pc \in {"check", "mark", "patch"} =>
          OwedRuns \subseteq pass.todo \/ "unsaved" \in pass.found
    /\ pass.pc = "clean" => "inventory" \in pass.found
    /\ pass.pc \in {"confirm", "report"} =>
          OwedRuns = {} \/ pass.found \cap {"unsaved", "inventory"} # {}
    /\ pass.pc = "confirm" => OwedPods = {}
    /\ pass.pc = "report" => OwedPods = {} \/ "cleanup" \in pass.found

SafetyInv == ConditionsBehind /\ PassKeepsTrack

LEMMA GenTyped ==
    ASSUME TypeOK
    PROVE  /\ config.gen \in Nat /\ config.uid \in Nat /\ pass.act.gen \in Nat
           /\ config.suspended.gen \in Nat /\ config.safe.gen \in Nat
  BY DEF TypeOK, Config, Pass

\* A pass that leaves the runs, the Pods and the configuration alone.
LEMMA QuietStep ==
    ASSUME SafetyInv, UNCHANGED <<run, pods>>, owed' = owed \cap AtWork'
    PROVE  /\ owed' = owed /\ owed' \subseteq AtWork'
           /\ OwedRuns' = OwedRuns /\ OwedPods' = OwedPods
  <1>1. AtWork' = AtWork
    BY DEF AtWork, HasAcceptedStop
  <1>2. owed' = owed
    BY <1>1 DEF SafetyInv, PassKeepsTrack
  <1> QED
    BY <1>1, <1>2 DEF SafetyInv, PassKeepsTrack, OwedRuns, OwedPods

\* What is owed is never more than before, and still at work.
LEMMA OwedShrinks ==
    ASSUME SafetyInv, owed' = owed \cap AtWork'
    PROVE  /\ owed' \subseteq owed /\ owed' \subseteq AtWork'
           /\ OwedRuns' \subseteq OwedRuns /\ OwedPods' \subseteq OwedPods
  BY DEF OwedRuns, OwedPods

\* A step that leaves the pass alone leaves it on track.
LEMMA TrackKept ==
    ASSUME SafetyInv, owed' = owed \cap AtWork',
           UNCHANGED <<pass.pc, pass.todo, pass.found>>
    PROVE  PassKeepsTrack'
  BY OwedShrinks DEF SafetyInv, PassKeepsTrack

LEMMA OwedRunIsActive ==
    ASSUME SafetyInv, NEW r \in OwedRuns
    PROVE  /\ run[r].life = "active" /\ ~HasAcceptedStop(r)
           /\ Exists(r) /\ ~isTerminal(r)
  <1>1. <<"run", r>> \in AtWork /\ r \in Runs
    BY DEF SafetyInv, PassKeepsTrack, OwedRuns
  <1>2. run[r].life = "active" /\ ~HasAcceptedStop(r)
    BY <1>1 DEF AtWork
  <1> QED
    BY <1>2 DEF Exists, isTerminal, HasAcceptedStop

LEMMA TrackIdle ==
    ASSUME SafetyInv, owed' = owed \cap AtWork', pass' = PassIdle
    PROVE  PassKeepsTrack'
  BY OwedShrinks DEF PassIdle, PassKeepsTrack

LEMMA TrackRecord ==
    ASSUME TypeOK, SafetyInv, RecordActivation PROVE SafetyInv'
  <1>1. ConditionsBehind'
    BY GenTyped DEF RecordActivation, ConditionsBehind, TypeOK, Config
  <1>2. AtWork' = AtWork
    <2>1. \A r \in Runs : run'[r].life = run[r].life /\ run'[r].stop = run[r].stop
      BY DEF RecordActivation, TypeOK, Run
    <2>2. pods' = pods
      BY DEF RecordActivation
    <2> QED
      BY <2>1, <2>2 DEF AtWork, HasAcceptedStop
  <1>3. pass'.pc = "list"
    BY DEF RecordActivation, StartPass, PassIdle
  <1> QED
    BY <1>1, <1>2, <1>3 DEF SafetyInv, PassKeepsTrack, RecordActivation

LEMMA TrackPass ==
    ASSUME TypeOK, SafetyInv, PassNext, owed' = owed \cap AtWork'
    PROVE  PassKeepsTrack'
  <1>1. CASE ensureActivationStatus
    <2>1. pass'.pc = "list"
      BY <1>1 DEF ensureActivationStatus, StartPass, PassIdle
    <2> QED
      BY <2>1, OwedShrinks DEF PassKeepsTrack
  <1>2. CASE handleDeactivation
    BY <1>2, TrackKept DEF handleDeactivation
  <1>3. CASE ListRuns
    <2>1. UNCHANGED <<run, pods>>
      BY <1>3 DEF ListRuns, PassFrame
    <2>2. CASE Goto("clean", {"inventory"})
      <3>1. pass'.pc = "clean" /\ "inventory" \in pass'.found
        BY <2>2 DEF Goto, TypeOK, Pass
      <3> QED
        BY <3>1, OwedShrinks DEF PassKeepsTrack
    <2>3. CASE ~Goto("clean", {"inventory"})
      <3>1. /\ pass'.pc = "check"
            /\ pass'.todo = {r \in {q \in Runs : Exists(q)} :
                               ~isTerminal(r) \/ terminalRunMayBeAffected(r)}
        BY <1>3, <2>3 DEF ListRuns, TypeOK, Pass
      <3>2. OwedRuns \subseteq pass'.todo
        BY <3>1, OwedRunIsActive DEF OwedRuns
      <3> QED
        BY <3>1, <3>2, OwedShrinks DEF PassKeepsTrack
    <2> QED
      BY <2>2, <2>3
  <1>4. CASE CheckActivation
    <2>1. CASE Goto("clean", {"inventory"})
      <3>1. pass'.pc = "clean" /\ "inventory" \in pass'.found
        BY <2>1 DEF Goto, TypeOK, Pass
      <3> QED
        BY <3>1, OwedShrinks DEF PassKeepsTrack
    <2>2. CASE pass' = PassIdle
      BY <2>2, TrackIdle
    <2>3. CASE pass' = [pass EXCEPT !.pc = "mark"]
      <3>1. pass'.pc = "mark" /\ pass'.todo = pass.todo /\ pass'.found = pass.found
        BY <2>3 DEF TypeOK, Pass
      <3>2. pass.pc = "check"
        BY <1>4 DEF CheckActivation
      <3> QED
        BY <3>1, <3>2, OwedShrinks DEF SafetyInv, PassKeepsTrack
    <2> QED
      BY <1>4, <2>1, <2>2, <2>3 DEF CheckActivation
  <1>5. ASSUME NEW r \in Runs, ReadRun(r) PROVE PassKeepsTrack'
    <2>1. pass.pc = "mark" /\ UNCHANGED <<run, pods>>
      BY <1>5 DEF ReadRun, PassFrame
    <2>2. CASE pass' = PassIdle
      BY <2>2, TrackIdle
    <2>3. CASE pass' = [pass EXCEPT !.pc = "patch", !.target = {r}, !.seen = run[r]]
      <3>1. pass'.pc = "patch" /\ pass'.todo = pass.todo /\ pass'.found = pass.found
        BY <2>3 DEF TypeOK, Pass
      <3> QED
        BY <2>1, <3>1, OwedShrinks DEF SafetyInv, PassKeepsTrack
    <2>4. CASE ~Exists(r) /\ pass' = [pass EXCEPT !.todo = @ \ {r}]
      <3>1. pass'.pc = "mark" /\ pass'.todo = pass.todo \ {r} /\ pass'.found = pass.found
        BY <2>1, <2>4 DEF TypeOK, Pass
      <3>2. r \notin OwedRuns
        BY <2>4, OwedRunIsActive
      <3> QED
        BY <2>1, <3>1, <3>2, OwedShrinks DEF SafetyInv, PassKeepsTrack
    <2>5. CASE HasAcceptedStop(r) /\ Marked(r)
      <3>1. /\ pass'.pc = "mark" /\ pass'.todo = pass.todo \ {r}
            /\ pass.found \subseteq pass'.found
        BY <2>5 DEF Marked, TypeOK, Pass
      <3>2. r \notin OwedRuns
        BY <2>5, OwedRunIsActive
      <3> QED
        BY <2>1, <3>1, <3>2, OwedShrinks DEF SafetyInv, PassKeepsTrack
    <2>6. CASE pass' = [pass EXCEPT !.todo = @ \ {r},
                          !.found = @ \cup {"unsaved"} \cup knownRemoteEvidence({r})]
      <3>1. pass'.pc = "mark" /\ "unsaved" \in pass'.found
        BY <2>1, <2>6 DEF TypeOK, Pass
      <3> QED
        BY <3>1, OwedShrinks DEF PassKeepsTrack
    <2> QED
      BY <1>5, <2>2, <2>3, <2>4, <2>5, <2>6 DEF ReadRun
  <1>6. ASSUME NEW r \in Runs, PatchRun(r) PROVE PassKeepsTrack'
    <2>1. pass.pc = "patch"
      BY <1>6 DEF PatchRun
    <2>2. CASE run' = [run EXCEPT ![r].stop = "accepted"] /\ Marked(r)
      <3>1. /\ pass'.pc = "mark" /\ pass'.todo = pass.todo \ {r}
            /\ pass.found \subseteq pass'.found
        BY <2>2 DEF Marked, TypeOK, Pass
      <3>2. run'[r].stop = "accepted"
        BY <2>2 DEF TypeOK, Run
      <3>3. <<"run", r>> \notin AtWork'
        BY <3>2 DEF AtWork, HasAcceptedStop
      <3>4. r \notin OwedRuns'
        BY <3>3 DEF OwedRuns
      <3> QED
        BY <2>1, <3>1, <3>4, OwedShrinks DEF SafetyInv, PassKeepsTrack
    <2>3. CASE pass' = [pass EXCEPT !.pc = "mark", !.target = {}, !.seen = NoRun]
      <3>1. pass'.pc = "mark" /\ pass'.todo = pass.todo /\ pass'.found = pass.found
        BY <2>3 DEF TypeOK, Pass
      <3> QED
        BY <2>1, <3>1, OwedShrinks DEF SafetyInv, PassKeepsTrack
    <2> QED
      BY <1>6, <2>2, <2>3 DEF PatchRun
  <1>7. CASE CleanupSuspension
    <2>1. OwedRuns = {} \/ pass.found \cap {"unsaved", "inventory"} # {}
      BY <1>7 DEF CleanupSuspension, MarkedAll, SafetyInv, PassKeepsTrack
    <2>2. CASE pass' = PassIdle
      BY <2>2, TrackIdle
    <2>3. CASE pods' = {} /\ Goto("confirm", {})
      <3>1. pass'.pc = "confirm" /\ pass.found \subseteq pass'.found
        BY <2>3 DEF Goto, TypeOK, Pass
      <3>2. OwedPods' = {}
        BY <2>3 DEF OwedPods, AtWork
      <3> QED
        BY <2>1, <3>1, <3>2, OwedShrinks DEF PassKeepsTrack
    <2>4. CASE Goto("report", {"cleanup"})
      <3>1. pass'.pc = "report" /\ pass'.found = pass.found \cup {"cleanup"}
        BY <2>4 DEF Goto, TypeOK, Pass
      <3> QED
        BY <2>1, <3>1, OwedShrinks DEF PassKeepsTrack
    <2> QED
      BY <1>7, <2>2, <2>3, <2>4 DEF CleanupSuspension
  <1>8. CASE confirmSuspensionInventory
    <2>1. pass.pc = "confirm"
      BY <1>8 DEF confirmSuspensionInventory
    <2>2. pass'.pc = "report" /\ pass.found \subseteq pass'.found
      <3>1. CASE Goto("report", {})
        BY <3>1 DEF Goto, TypeOK, Pass
      <3>2. CASE Goto("report", {"cleanup"})
        BY <3>2 DEF Goto, TypeOK, Pass
      <3> QED
        BY <1>8, <3>1, <3>2 DEF confirmSuspensionInventory
    <2> QED
      BY <2>1, <2>2, OwedShrinks DEF SafetyInv, PassKeepsTrack
  <1>9. CASE patchActivationOutcome
    BY <1>9, TrackIdle DEF patchActivationOutcome
  <1> QED
    BY <1>1, <1>2, <1>3, <1>4, <1>5, <1>6, <1>7, <1>8, <1>9 DEF PassNext

\* Whatever the administrator does ends the activation in force, until it is
\* recorded again.
LEMMA AdminEndsActivation ==
    ASSUME TypeOK, SafetyInv, AdminNext
    PROVE  ~CurrentActivation' /\ ConditionsBehind'
  <1>1. CASE Suspend
    <2>1. CASE config' = [config EXCEPT !.on = TRUE, !.gen = @ + 1]
      <3>1. /\ config'.gen = config.gen + 1 /\ config'.suspended = config.suspended
            /\ config'.safe = config.safe
        BY <2>1 DEF TypeOK, Config
      <3> QED
        BY <3>1, GenTyped DEF CurrentActivation, SafetyInv, ConditionsBehind
    <2>2. CASE config' = NewConfig(config.uid + 1, TRUE)
      BY <2>2 DEF NewConfig, CurrentActivation, ConditionsBehind
    <2> QED
      BY <1>1, <2>1, <2>2 DEF Suspend
  <1>2. CASE EditConfig \/ Resume
    <2>1. /\ config'.gen = config.gen + 1 /\ config'.suspended = config.suspended
          /\ config'.safe = config.safe
      BY <1>2 DEF EditConfig, Resume, TypeOK, Config
    <2> QED
      BY <2>1, GenTyped DEF CurrentActivation, SafetyInv, ConditionsBehind
  <1>3. CASE DeleteConfig
    BY <1>3 DEF DeleteConfig, NewConfig, CurrentActivation, ConditionsBehind
  <1> QED
    BY <1>1, <1>2, <1>3 DEF AdminNext

LEMMA AdminFrame ==
    ASSUME AdminNext PROVE UNCHANGED <<run, pods, pass, unseen>>
  BY DEF AdminNext, Suspend, EditConfig, Resume, DeleteConfig, Change

\* A run leaves the pass alone but for the observation of its revision.
LEMMA RunFrameKept ==
    ASSUME TypeOK, NEW r \in Runs, RunNext(r)
    PROVE  /\ UNCHANGED <<config, pass.pc, pass.act, pass.todo, pass.found>>
           /\ pass.revised \subseteq pass'.revised /\ unseen \subseteq unseen'
  <1>1. CASE ReopenRun(r)
    BY <1>1 DEF TypeOK, Pass, ReopenRun
  <1>2. CASE ~ReopenRun(r)
    BY <1>2 DEF RunNext, CreateRun, StartStep, Launch, PodCreated, PodEnds, EndRun,
                StampRun, AcceptStop, StopOutcome, DeleteRun, RunFrame
  <1> QED
    BY <1>1, <1>2

\* The steps of a pass that write the configuration.
PassWrites == ensureActivationStatus \/ handleDeactivation \/ patchActivationOutcome

LEMMA PassReads ==
    ASSUME PassNext, ~PassWrites PROVE UNCHANGED <<config, unseen>>
  BY DEF PassNext, PassWrites, ListRuns, CheckActivation, ReadRun, PatchRun,
         CleanupSuspension, confirmSuspensionInventory, PassFrame

LEMMA PassWritesBehind ==
    ASSUME TypeOK, SafetyInv, PassWrites
    PROVE  ConditionsBehind' /\ UNCHANGED <<run, pods>>
  <1>1. ConditionsBehind'
    <2>1. CASE ensureActivationStatus
      BY <2>1, GenTyped DEF ensureActivationStatus, SafetyInv, ConditionsBehind, TypeOK, Config
    <2>2. CASE handleDeactivation
      BY <2>2, GenTyped DEF handleDeactivation, SafetyInv, ConditionsBehind, TypeOK, Config
    <2>3. CASE patchActivationOutcome
      <3>1. CASE config' = config
        BY <3>1 DEF SafetyInv, ConditionsBehind
      <3>2. CASE config' # config
        <4>1. /\ pass.act.gen = config.gen
              /\ config' = [config EXCEPT
                    !.suspended = [rs |-> outcomeForEvidence, gen |-> pass.act.gen],
                    !.safe = [ok |-> safeToResume, gen |-> pass.act.gen]]
          BY <2>3, <3>2 DEF patchActivationOutcome, SuspensionActivationMatches
        <4>2. /\ config'.gen = config.gen /\ config'.suspended.gen = config.gen
              /\ config'.safe.gen = config.gen
          BY <4>1 DEF TypeOK, Config
        <4> QED
          BY <4>2, GenTyped DEF ConditionsBehind
      <3> QED
        BY <3>1, <3>2
    <2> QED
      BY <2>1, <2>2, <2>3 DEF PassWrites
  <1> QED
    BY <1>1 DEF PassWrites, ensureActivationStatus, handleDeactivation,
                patchActivationOutcome, PassFrame

\* Everything else leaves the configuration alone.
LEMMA ObservedCases ==
    ASSUME TypeOK, SafetyInv,
           Observed(PassNext \/ AdminNext \/ WindowElapses \/ Crash
                    \/ \E r \in Runs : RunNext(r))
    PROVE  \/ PassWrites
           \/ AdminNext
           \/ UNCHANGED config
  BY PassReads, RunFrameKept DEF Observed, WindowElapses, Crash

\* The inductive invariant is kept.
LEMMA SafetyKept ==
    ASSUME TypeOK, SafetyInv, [Next]_vars PROVE SafetyInv'
  <1>1. CASE RecordActivation
    BY <1>1, TrackRecord
  <1>2. CASE UNCHANGED vars
    <2>1. UNCHANGED <<config, run, pods, pass, owed>>
      BY <1>2 DEF vars
    <2> QED
      BY <2>1 DEF SafetyInv, ConditionsBehind, PassKeepsTrack, AtWork, HasAcceptedStop,
                  OwedRuns, OwedPods
  <1>3. CASE Observed(PassNext \/ AdminNext \/ WindowElapses \/ Crash
                      \/ \E r \in Runs : RunNext(r))
    <2>1. owed' = owed \cap AtWork'
      BY <1>3 DEF Observed
    <2>2. ConditionsBehind'
      BY <1>3, ObservedCases, PassWritesBehind, AdminEndsActivation
      DEF SafetyInv, ConditionsBehind
    <2>3. PassKeepsTrack'
      <3>1. CASE PassNext
        BY <2>1, <3>1, TrackPass
      <3>2. CASE Crash
        BY <2>1, <3>2, TrackIdle DEF Crash
      <3>3. CASE AdminNext \/ WindowElapses \/ \E r \in Runs : RunNext(r)
        <4>1. UNCHANGED <<pass.pc, pass.todo, pass.found>>
          BY <3>3, AdminFrame, RunFrameKept DEF WindowElapses
        <4> QED
          BY <2>1, <4>1, TrackKept
      <3> QED
        BY <1>3, <3>1, <3>2, <3>3 DEF Observed
    <2> QED
      BY <2>2, <2>3 DEF SafetyInv
  <1> QED
    BY <1>1, <1>2, <1>3 DEF Next

----------------------------------------------------------------------------
(* The controller keeps the promise of SafeSuspension.                      *)

LEMMA InitMaps ==
    ASSUME Init PROVE SafetyInv /\ Promise!Init
  <1>1. ~config.exists /\ config.suspended.gen = 0 /\ config.safe.gen = 0 /\ config.gen = 1
    BY DEF Init, NewConfig
  <1>2. SafetyInv
    <2>1. pass.pc = "idle" /\ owed = {}
      BY DEF Init, PassIdle
    <2> QED
      BY <1>1, <2>1 DEF SafetyInv, ConditionsBehind, PassKeepsTrack
  <1>3. mode = "off" /\ outcome = "stopping" /\ ReportedSafe = FALSE /\ owed = {}
    BY <1>1 DEF Init, mode, SuspensionOn, outcome, CurrentActivation, ReportedSafe
  <1> QED
    BY <1>2, <1>3 DEF Promise!Init

LEMMA RecordMaps ==
    ASSUME TypeOK, RecordActivation PROVE Promise!Record
  <1>1. mode = "asked" /\ outcome = "stopping" /\ ReportedSafe = FALSE
    BY DEF RecordActivation, mode, outcome, ReportedSafe
  <1>2. /\ config'.exists /\ config'.on /\ config'.gen = config.gen
        /\ config'.suspended = [rs |-> "Stopping", gen |-> config.gen]
        /\ config'.safe = [ok |-> FALSE, gen |-> config.gen]
    BY DEF RecordActivation, SuspensionOn, TypeOK, Config
  <1>3. CurrentActivation' /\ SuspensionOn'
    BY <1>2 DEF CurrentActivation, SuspensionOn
  <1>4. mode' = "on" /\ outcome' = "stopping" /\ ReportedSafe' = FALSE
    BY <1>2, <1>3 DEF mode, outcome, ReportedSafe
  <1>5. owed' \in SUBSET ({"run", "pod"} \X Runs)
    BY AtWorkTyped DEF RecordActivation
  <1> QED
    BY <1>1, <1>4, <1>5 DEF Promise!Record

LEMMA AdminMaps ==
    ASSUME TypeOK, SafetyInv, AdminNext, owed' = owed
    PROVE  [Promise!Next]_(Promise!vars)
  <1>1. ~CurrentActivation'
    BY AdminEndsActivation
  <1>2. outcome' = "stopping" /\ ReportedSafe' = FALSE
    BY <1>1 DEF outcome, ReportedSafe
  <1>3. CASE Suspend \/ EditConfig
    <2>1. SuspensionOn'
      <3>1. CASE SuspensionOn
        <4>1. config' = [config EXCEPT !.gen = @ + 1]
          BY <1>3, <3>1 DEF Suspend, EditConfig
        <4> QED
          BY <3>1, <4>1 DEF SuspensionOn, TypeOK, Config
      <3>2. CASE ~SuspensionOn /\ config.exists
        <4>1. config' = [config EXCEPT !.on = TRUE, !.gen = @ + 1]
          BY <1>3, <3>2 DEF Suspend, EditConfig
        <4>2. config'.exists = config.exists /\ config'.on = TRUE
          BY <4>1 DEF TypeOK, Config
        <4> QED
          BY <3>2, <4>2 DEF SuspensionOn
      <3>3. CASE ~config.exists
        <4>1. config' = NewConfig(config.uid + 1, TRUE)
          BY <1>3, <3>3 DEF Suspend, EditConfig, SuspensionOn
        <4> QED
          BY <4>1 DEF NewConfig, SuspensionOn
      <3> QED
        BY <3>1, <3>2, <3>3
    <2>2. mode' = "asked"
      BY <1>1, <2>1 DEF mode
    <2> QED
      BY <1>2, <2>2 DEF Promise!Next, Promise!Ask
  <1>4. CASE Resume \/ DeleteConfig
    <2>1. ~SuspensionOn'
      BY <1>4 DEF Resume, DeleteConfig, SuspensionOn, NewConfig, TypeOK, Config
    <2>2. mode' = "off"
      BY <2>1 DEF mode
    <2>3. CASE SuspensionOn
      <3>1. ResumptionAdmitted
        BY <1>4, <2>3 DEF Resume, DeleteConfig, SuspensionOn
      <3>2. CurrentActivation
        BY <2>3, <3>1 DEF ResumptionAdmitted, CurrentActivation, SuspensionOn
      <3>3. mode = "on" /\ ReportedSafe /\ outcome # "stopping"
        BY <2>3, <3>1, <3>2 DEF mode, ReportedSafe, outcome, ResumptionAdmitted
      <3> QED
        BY <1>2, <2>2, <3>3 DEF Promise!Next, Promise!Lift
    <2>4. CASE ~SuspensionOn
      <3>1. mode = "off" /\ outcome = "stopping" /\ ReportedSafe = FALSE
        BY <2>4 DEF mode, SuspensionOn, outcome, CurrentActivation, ReportedSafe
      <3> QED
        BY <1>2, <2>2, <3>1 DEF Promise!vars
    <2> QED
      BY <2>3, <2>4
  <1> QED
    BY <1>3, <1>4 DEF AdminNext

\* The heart of it: a pass that has found nothing against a resumption has nothing
\* left to stop.
LEMMA SafeMeansSettled ==
    ASSUME TypeOK, SafetyInv, pass.pc = "report", safeToResume
    PROVE  owed = {}
  <1>1. OwedRuns = {} /\ OwedPods = {}
    BY DEF SafetyInv, PassKeepsTrack, safeToResume
  <1> QED
    BY <1>1 DEF OwedRuns, OwedPods, TypeOK

LEMMA WritesMap ==
    ASSUME TypeOK, SafetyInv, PassWrites, owed' = owed
    PROVE  [Promise!Next]_(Promise!vars)
  <1>1. CASE ensureActivationStatus
    <2>1. CurrentActivation /\ CurrentActivation' /\ UNCHANGED <<mode, outcome>>
      BY <1>1 DEF ensureActivationStatus, CurrentActivation, TypeOK, Config, mode,
                  SuspensionOn, outcome
    <2>2. ReportedSafe' = ReportedSafe
      <3>1. CASE config' = config
        BY <3>1 DEF ReportedSafe, CurrentActivation
      <3>2. CASE config' # config
        <4>1. config.safe.gen # config.gen /\ config'.safe.ok = FALSE
          BY <1>1, <3>2 DEF ensureActivationStatus, TypeOK, Config
        <4> QED
          BY <4>1 DEF ReportedSafe
      <3> QED
        BY <3>1, <3>2
    <2> QED
      BY <2>1, <2>2 DEF Promise!vars
  <1>2. CASE handleDeactivation
    <2>1. ~config.on /\ ~config'.on
      BY <1>2 DEF handleDeactivation, TypeOK, Config
    <2> QED
      BY <2>1 DEF Promise!vars, mode, SuspensionOn, outcome, CurrentActivation, ReportedSafe
  <1>3. CASE patchActivationOutcome
    <2>1. CASE config' = config
      BY <2>1 DEF Promise!vars, mode, SuspensionOn, outcome, CurrentActivation, ReportedSafe
    <2>2. CASE config' # config
      <3>1. /\ SuspensionActivationMatches(pass.act)
            /\ config' = [config EXCEPT
                  !.suspended = [rs |-> outcomeForEvidence, gen |-> pass.act.gen],
                  !.safe = [ok |-> safeToResume, gen |-> pass.act.gen]]
        BY <1>3, <2>2 DEF patchActivationOutcome
      <3>2. CurrentActivation /\ pass.act.gen = config.gen
        BY <3>1 DEF SuspensionActivationMatches
      <3>3. /\ config'.exists = config.exists /\ config'.on = config.on
            /\ config'.gen = config.gen
            /\ config'.suspended = [rs |-> outcomeForEvidence, gen |-> config.gen]
            /\ config'.safe = [ok |-> safeToResume, gen |-> config.gen]
        BY <3>1, <3>2 DEF TypeOK, Config
      <3>4. outcomeForEvidence \in {"Stopping", "AdminActivated", "AdminActivatedWithErrors"}
        BY DEF outcomeForEvidence
      <3>5. CurrentActivation'
        BY <3>2, <3>3, <3>4 DEF CurrentActivation
      <3>6. mode = "on" /\ mode' = "on"
        BY <3>2, <3>5 DEF mode, CurrentActivation, SuspensionOn
      <3>7. outcome' \in {"stopping", "clean", "errors"}
        BY DEF outcome
      <3>8. outcome = "errors" => outcome' = "errors"
        <4>1. ASSUME outcome = "errors"
              PROVE  config.suspended.rs = "AdminActivatedWithErrors"
          BY <3>2, <4>1 DEF outcome, CurrentActivation
        <4> QED
          BY <3>3, <3>5, <4>1 DEF outcomeForEvidence, outcome
      <3>9. ReportedSafe' => safeToResume
        BY <3>3 DEF ReportedSafe
      <3>10. ReportedSafe' => owed = {}
        BY <1>3, <3>9, SafeMeansSettled DEF patchActivationOutcome
      <3>11. ReportedSafe' \in BOOLEAN
        BY DEF ReportedSafe
      <3> QED
        BY <3>6, <3>7, <3>8, <3>10, <3>11 DEF Promise!Next, Promise!Report
    <2> QED
      BY <2>1, <2>2
  <1> QED
    BY <1>1, <1>2, <1>3 DEF PassWrites

LEMMA StepMaps ==
    ASSUME TypeOK, SafetyInv, [Next]_vars
    PROVE  [Promise!Next]_(Promise!vars)
  <1>1. CASE RecordActivation
    BY <1>1, RecordMaps DEF Promise!Next
  <1>2. CASE UNCHANGED vars
    BY <1>2 DEF vars, Promise!vars, mode, SuspensionOn, outcome, CurrentActivation,
                ReportedSafe
  <1>3. CASE Observed(PassNext \/ AdminNext \/ WindowElapses \/ Crash
                      \/ \E r \in Runs : RunNext(r))
    <2>1. owed' = owed \cap AtWork'
      BY <1>3 DEF Observed
    <2>2. CASE PassWrites
      BY <2>1, <2>2, PassWritesBehind, QuietStep, WritesMap
    <2>3. CASE AdminNext
      BY <2>1, <2>3, AdminFrame, QuietStep, AdminMaps
    <2>4. CASE UNCHANGED config
      <3>1. UNCHANGED <<mode, outcome, ReportedSafe>>
        BY <2>4 DEF mode, SuspensionOn, outcome, CurrentActivation, ReportedSafe
      <3> QED
        BY <2>1, <3>1 DEF Promise!Next, Promise!Settle
    <2> QED
      BY <1>3, <2>2, <2>3, <2>4, ObservedCases
  <1> QED
    BY <1>1, <1>2, <1>3 DEF Next

\* Whatever passes, edits, late Pods, failures and crashes do, and for any number of
\* runs: patchActivationOutcome calls a resumption safe only when the activation has
\* nothing left to stop, completion with errors is never taken back, and a
\* suspension is lifted only after such a report.
THEOREM ImplementsSafeSuspensionAlways == Spec => ImplementsSafeSuspension
  <1>1. Init => SafetyInv /\ Promise!Init
    BY InitMaps
  <1>2. TypeOK /\ SafetyInv /\ [Next]_vars => SafetyInv' /\ [Promise!Next]_(Promise!vars)
    BY SafetyKept, StepMaps
  <1> QED
    BY <1>1, <1>2, TypeCorrect, PTL DEF Spec, ImplementsSafeSuspension, Promise!Spec

----------------------------------------------------------------------------
(* Evidence of remote work is never lost.                                   *)

\* What is or may become evidence without a revision: the remote runs that carry it
\* and those that can still begin a step.
RemoteWork ==
    {r \in Runs : \/ Exists(r) /\ RemoteExecutionEvidence(r)
                  \/ r \in Remote /\ run[r].life = "active" /\ ~HasAcceptedStop(r)}

\* The remote work of an activation that is still in force is on the list of its
\* pass or among the findings, unless a revision brought it up since the pass began.
RemoteInv ==
    /\ ReportedSafe => RemoteWork \subseteq unseen
    /\ SuspensionActivationMatches(pass.act) =>
          /\ pass.pc \in {"check", "mark", "patch"} =>
                \/ RemoteWork \subseteq pass.todo \cup pass.revised
                \/ pass.found \cap {"remote", "unsaved"} # {}
          /\ pass.pc \in {"confirm", "report"} =>
                \/ RemoteWork \subseteq pass.revised
                \/ pass.found \cap {"remote", "unsaved", "inventory"} # {}

\* No run but a revised one takes up remote work while the system is suspended.
LEMMA RemoteShrinksByRun ==
    ASSUME TypeOK, SuspensionOn, NEW r \in Runs, RunNext(r)
    PROVE  RemoteWork' \subseteq RemoteWork \cup (pass'.revised \cap unseen')
  <1>1. \A q \in Runs \ {r} : run'[q] = run[q]
    BY DEF TypeOK, RunNext, CreateRun, StartStep, Launch, PodCreated, PodEnds, EndRun,
           StampRun, ReopenRun, AcceptStop, StopOutcome, DeleteRun, SetRun
  <1>2. r \in RemoteWork' => r \in RemoteWork \cup (pass'.revised \cap unseen')
    <2>1. CASE DeleteRun(r)
      <3>1. run'[r].life = "gone"
        BY <2>1 DEF TypeOK, DeleteRun, SetRun, NoRun
      <3> QED
        BY <3>1 DEF RemoteWork, Exists
    <2>2. CASE PodCreated(r) \/ PodEnds(r)
      BY <2>2 DEF PodCreated, PodEnds, RemoteWork, Exists, RemoteExecutionEvidence,
                  HasAcceptedStop
    <2>3. CASE EndRun(r) \/ StampRun(r) \/ AcceptStop(r) \/ StopOutcome(r)
      <3>1. /\ run'[r].used = run[r].used /\ Exists(r)
            /\ run'[r].life = "active" => run[r].life = "active"
            /\ run'[r].stop = "no" => run[r].stop = "no"
        BY <2>3 DEF TypeOK, Run, EndRun, StampRun, AcceptStop, StopOutcome, SetRun, Exists
      <3> QED
        BY <3>1 DEF RemoteWork, RemoteExecutionEvidence, HasAcceptedStop
    <2>4. CASE StartStep(r)
      <3>1. /\ run[r].life = "active" /\ ~HasAcceptedStop(r)
            /\ run'[r] = [run[r] EXCEPT !.used = r \in Remote]
        BY <2>4 DEF TypeOK, StartStep, SetRun
      <3>2. /\ run'[r].life = run[r].life /\ run'[r].stop = run[r].stop
            /\ run'[r].used => r \in Remote
        BY <3>1 DEF TypeOK, Run
      <3> QED
        BY <3>1, <3>2 DEF RemoteWork, RemoteExecutionEvidence
    <2>5. CASE ReopenRun(r)
      <3>1. r \in Remote => r \in pass'.revised /\ r \in unseen'
        BY <2>5 DEF TypeOK, Pass, ReopenRun
      <3>2. run'[r].used => r \in Remote
        <4>1. run'[r] = [run[r] EXCEPT !.life = "active", !.stamp = "none", !.used = r \in Remote]
          BY <2>5 DEF TypeOK, ReopenRun, SetRun
        <4> QED
          BY <4>1 DEF TypeOK, Run
      <3> QED
        BY <3>1, <3>2 DEF RemoteWork, RemoteExecutionEvidence
    <2> QED
      BY <2>1, <2>2, <2>3, <2>4, <2>5 DEF RunNext, CreateRun, Launch
  <1> QED
    BY <1>1, <1>2 DEF RemoteWork, Exists, RemoteExecutionEvidence, HasAcceptedStop

\* A step of a pass changes no evidence, and a run it marks has lost its chance to
\* begin a step.
LEMMA RemoteKeptByPass ==
    ASSUME TypeOK, PassNext PROVE RemoteWork' \subseteq RemoteWork
  <1>1. CASE \E r \in Runs : PatchRun(r)
    <2>1. PICK r \in Runs : PatchRun(r)
      BY <1>1
    <2>2. \A q \in Runs : /\ run'[q].life = run[q].life /\ run'[q].used = run[q].used
                          /\ run'[q].stop = "no" => run[q].stop = "no"
      BY <2>1 DEF PatchRun, TypeOK, Run
    <2> QED
      BY <2>2 DEF RemoteWork, Exists, RemoteExecutionEvidence, HasAcceptedStop
  <1>2. CASE ~ \E r \in Runs : PatchRun(r)
    <2>1. UNCHANGED run
      BY <1>2 DEF PassNext, ensureActivationStatus, handleDeactivation, ListRuns,
                  CheckActivation, ReadRun, CleanupSuspension,
                  confirmSuspensionInventory, patchActivationOutcome, PassFrame
    <2> QED
      BY <2>1 DEF RemoteWork, Exists, RemoteExecutionEvidence, HasAcceptedStop
  <1> QED
    BY <1>1, <1>2

\* A pass that reads on notes what it takes off its list.
LEMMA RemoteNoted ==
    ASSUME TypeOK, NEW r \in Runs, ReadRun(r) \/ PatchRun(r), pass' # PassIdle
    PROVE  /\ pass.pc \in {"mark", "patch"} /\ pass'.pc \in {"mark", "patch"}
           /\ pass'.act = pass.act /\ pass'.revised = pass.revised
           /\ pass.found \subseteq pass'.found /\ pass.todo \ {r} \subseteq pass'.todo
           /\ r \in RemoteWork' /\ r \in pass.todo =>
                 r \in pass'.todo \/ pass'.found \cap {"remote", "unsaved"} # {}
  <1>1. pass.pc \in {"mark", "patch"}
    BY DEF ReadRun, PatchRun
  <1>2. ASSUME Marked(r), r \in RemoteWork' => RemoteExecutionEvidence(r)
        PROVE  /\ pass'.pc = "mark" /\ pass'.act = pass.act /\ pass'.revised = pass.revised
               /\ pass.found \subseteq pass'.found /\ pass'.todo = pass.todo \ {r}
               /\ r \in RemoteWork' => "remote" \in pass'.found
    <2>1. /\ pass'.pc = "mark" /\ pass'.act = pass.act /\ pass'.revised = pass.revised
          /\ pass'.found = pass.found \cup NoteRun(r) /\ pass'.todo = pass.todo \ {r}
      BY <1>2 DEF Marked, TypeOK, Pass
    <2>2. RemoteExecutionEvidence(r) => "remote" \in NoteRun(r)
      BY DEF NoteRun
    <2> QED
      BY <1>2, <2>1, <2>2
  <1>3. CASE PatchRun(r)
    <2>1. CASE pass' = [pass EXCEPT !.pc = "mark", !.target = {}, !.seen = NoRun]
      BY <1>1, <2>1 DEF TypeOK, Pass
    <2>2. CASE Marked(r) /\ run' = [run EXCEPT ![r].stop = "accepted"]
      <3>1. run'[r].stop = "accepted" /\ run'[r].used = run[r].used
        BY <2>2 DEF TypeOK, Run
      <3>2. r \in RemoteWork' => RemoteExecutionEvidence(r)
        BY <3>1 DEF RemoteWork, RemoteExecutionEvidence, HasAcceptedStop
      <3> QED
        BY <1>1, <1>2, <2>2, <3>2
    <2> QED
      BY <1>3, <2>1, <2>2 DEF PatchRun
  <1>5. CASE ReadRun(r) /\ Exists(r) /\ HasAcceptedStop(r) /\ Marked(r)
    <2>1. r \in RemoteWork' => RemoteExecutionEvidence(r)
      BY <1>5 DEF ReadRun, PassFrame, RemoteWork, RemoteExecutionEvidence, HasAcceptedStop
    <2> QED
      BY <1>1, <1>2, <1>5, <2>1
  <1>4. CASE ReadRun(r) /\ ~(Exists(r) /\ HasAcceptedStop(r) /\ Marked(r))
    <2>1. CASE pass' = [pass EXCEPT !.pc = "patch", !.target = {r}, !.seen = run[r]]
      BY <1>1, <2>1 DEF TypeOK, Pass
    <2>2. CASE ~Exists(r) /\ pass' = [pass EXCEPT !.todo = @ \ {r}]
      <3>1. r \notin RemoteWork'
        BY <1>4, <2>2 DEF ReadRun, PassFrame, RemoteWork, Exists
      <3> QED
        BY <1>1, <2>2, <3>1 DEF TypeOK, Pass
    <2>3. CASE pass' = [pass EXCEPT !.todo = @ \ {r},
                          !.found = @ \cup {"unsaved"} \cup knownRemoteEvidence({r})]
      BY <1>1, <2>3 DEF TypeOK, Pass
    <2> QED
      BY <1>4, <2>1, <2>2, <2>3 DEF ReadRun
  <1> QED
    BY <1>3, <1>4, <1>5

\* The steps of a pass that only read the configuration.
LEMMA RemoteReading ==
    ASSUME TypeOK, SafetyInv, RemoteInv, PassNext, ~PassWrites
    PROVE  RemoteInv'
  <1>1. RemoteWork' \subseteq RemoteWork /\ UNCHANGED <<config, unseen>>
    BY RemoteKeptByPass, PassReads
  <1>2. ReportedSafe' => RemoteWork' \subseteq unseen'
    BY <1>1 DEF RemoteInv, ReportedSafe, CurrentActivation
  <1>3. SUFFICES ASSUME SuspensionActivationMatches(pass.act)'
                 PROVE  /\ pass'.pc \in {"check", "mark", "patch"} =>
                              \/ RemoteWork' \subseteq pass'.todo \cup pass'.revised
                              \/ pass'.found \cap {"remote", "unsaved"} # {}
                        /\ pass'.pc \in {"confirm", "report"} =>
                              \/ RemoteWork' \subseteq pass'.revised
                              \/ pass'.found \cap {"remote", "unsaved", "inventory"} # {}
    BY <1>1, <1>2 DEF RemoteInv
  <1>a. ASSUME pass'.act = pass.act PROVE SuspensionActivationMatches(pass.act)
    BY <1>1, <1>3, <1>a DEF SuspensionActivationMatches, CurrentActivation
  <1>4. CASE pass' = PassIdle
    BY <1>4 DEF PassIdle
  <1>5. CASE ListRuns
    <2>1. CASE Goto("clean", {"inventory"})
      BY <2>1 DEF Goto, TypeOK, Pass
    <2>2. CASE ~Goto("clean", {"inventory"})
      <3> DEFINE listed == {q \in Runs : Exists(q)}
                 todo == {q \in listed : ~isTerminal(q) \/ terminalRunMayBeAffected(q)}
      <3>1. /\ pass'.pc = "check" /\ pass'.todo = todo
            /\ pass'.found = knownRemoteEvidence(listed \ todo)
        BY <1>5, <2>2 DEF ListRuns, TypeOK, Pass
      <3>2. RemoteWork \subseteq todo \/ \E q \in listed \ todo : RemoteExecutionEvidence(q)
        BY DEF RemoteWork, Exists, isTerminal, HasAcceptedStop
      <3> HIDE DEF todo, listed
      <3> QED
        BY <1>1, <3>1, <3>2
    <2> QED
      BY <2>1, <2>2
  <1>6. CASE CheckActivation
    <2>1. CASE Goto("clean", {"inventory"})
      BY <2>1 DEF Goto, TypeOK, Pass
    <2>2. CASE pass' = [pass EXCEPT !.pc = "mark"]
      <3>1. /\ pass'.pc = "mark" /\ pass'.todo = pass.todo /\ pass'.found = pass.found
            /\ pass'.act = pass.act /\ pass'.revised = pass.revised /\ pass.pc = "check"
        BY <1>6, <2>2 DEF TypeOK, Pass, CheckActivation
      <3> QED
        BY <1>1, <1>a, <3>1 DEF RemoteInv
    <2> QED
      BY <1>4, <1>6, <2>1, <2>2 DEF CheckActivation
  <1>7. ASSUME NEW r \in Runs, ReadRun(r) \/ PatchRun(r), pass' # PassIdle
        PROVE  /\ pass'.pc \in {"mark", "patch"}
               /\ \/ RemoteWork' \subseteq pass'.todo \cup pass'.revised
                  \/ pass'.found \cap {"remote", "unsaved"} # {}
    <2>1. \/ RemoteWork \subseteq pass.todo \cup pass.revised
          \/ pass.found \cap {"remote", "unsaved"} # {}
      BY <1>7, <1>a, RemoteNoted DEF RemoteInv
    <2> QED
      BY <1>1, <1>7, <2>1, RemoteNoted
  <1>8. CASE CleanupSuspension \/ confirmSuspensionInventory
    <2>1. CASE pass' # PassIdle
      <3>1. /\ pass'.act = pass.act /\ pass.found \subseteq pass'.found
            /\ pass'.revised = pass.revised /\ pass'.pc \in {"confirm", "report"}
        <4>1. \/ Goto("confirm", {}) \/ Goto("report", {"cleanup"}) \/ Goto("report", {})
          BY <1>8, <2>1 DEF CleanupSuspension, confirmSuspensionInventory
        <4>2. ASSUME NEW pc, NEW problems, Goto(pc, problems)
              PROVE  /\ pass'.act = pass.act /\ pass'.found = pass.found \cup problems
                     /\ pass'.revised = pass.revised /\ pass'.pc = pc
          BY <4>2 DEF Goto, TypeOK, Pass
        <4> QED
          BY <4>1, <4>2
      <3>3. \/ RemoteWork \subseteq pass.revised
            \/ pass.found \cap {"remote", "unsaved", "inventory"} # {}
        BY <1>8, <1>a, <3>1 DEF CleanupSuspension, MarkedAll, confirmSuspensionInventory,
                                RemoteInv, SafetyInv, PassKeepsTrack
      <3> QED
        BY <1>1, <3>1, <3>3
    <2> QED
      BY <1>4, <2>1
  <1> QED
    BY <1>4, <1>5, <1>6, <1>7, <1>8 DEF PassNext, PassWrites

\* The steps of a pass that write it; the report is what the rest is for.
LEMMA RemoteWriting ==
    ASSUME TypeOK, SafetyInv, RemoteInv, PassNext, PassWrites
    PROVE  RemoteInv'
  <1>1. RemoteWork' \subseteq RemoteWork
    BY RemoteKeptByPass
  <1>2. CASE ensureActivationStatus
    <2>1. pass'.pc = "list" /\ unseen' = unseen
      BY <1>2 DEF ensureActivationStatus, StartPass, PassIdle, PassFrame
    <2>2. ReportedSafe' => ReportedSafe
      <3>1. CASE config' = config
        BY <3>1 DEF ReportedSafe, CurrentActivation
      <3>2. CASE config' # config
        <4>1. config'.safe.ok = FALSE
          BY <1>2, <3>2 DEF ensureActivationStatus, TypeOK, Config
        <4> QED
          BY <4>1 DEF ReportedSafe
      <3> QED
        BY <3>1, <3>2
    <2> QED
      BY <1>1, <2>1, <2>2 DEF RemoteInv
  <1>3. CASE handleDeactivation
    <2>1. ~config'.on
      BY <1>3 DEF handleDeactivation, TypeOK, Config
    <2> QED
      BY <2>1 DEF RemoteInv, ReportedSafe, SuspensionActivationMatches, CurrentActivation
  <1>4. CASE patchActivationOutcome
    <2>1. pass'.pc = "idle" /\ pass.pc = "report"
      BY <1>4 DEF patchActivationOutcome, PassIdle
    <2>2. ReportedSafe' => RemoteWork \subseteq unseen'
      <3>1. CASE config' = config /\ unseen' = unseen
        BY <3>1 DEF RemoteInv, ReportedSafe, CurrentActivation
      <3>2. CASE ~(config' = config /\ unseen' = unseen)
        <4>1. /\ SuspensionActivationMatches(pass.act)
              /\ config' = [config EXCEPT
                    !.suspended = [rs |-> outcomeForEvidence, gen |-> pass.act.gen],
                    !.safe = [ok |-> safeToResume, gen |-> pass.act.gen]]
              /\ unseen' = pass.revised
          BY <1>4, <3>2 DEF patchActivationOutcome
        <4>2. ReportedSafe' => safeToResume
          BY <4>1 DEF ReportedSafe, TypeOK, Config
        <4> QED
          BY <2>1, <4>1, <4>2 DEF RemoteInv, safeToResume
      <3> QED
        BY <3>1, <3>2
    <2> QED
      BY <1>1, <2>1, <2>2 DEF RemoteInv
  <1> QED
    BY <1>2, <1>3, <1>4 DEF PassWrites

LEMMA RemoteKept ==
    ASSUME TypeOK, SafetyInv, RemoteInv, [Next]_vars PROVE RemoteInv'
  <1>1. CASE RecordActivation
    <2>1. pass'.pc = "list"
      BY <1>1 DEF RecordActivation, StartPass, PassIdle
    <2>2. config'.safe.ok = FALSE
      BY <1>1 DEF RecordActivation, TypeOK, Config
    <2> QED
      BY <2>1, <2>2 DEF RemoteInv, ReportedSafe
  <1>2. CASE PassNext
    BY <1>2, RemoteReading, RemoteWriting
  <1>3. CASE AdminNext
    BY <1>3, AdminEndsActivation
    DEF RemoteInv, ReportedSafe, SuspensionActivationMatches
  <1>4. CASE \E r \in Runs : RunNext(r)
    <2>1. /\ UNCHANGED <<config, pass.pc, pass.act, pass.todo, pass.found>>
          /\ pass.revised \subseteq pass'.revised /\ unseen \subseteq unseen'
      BY <1>4, RunFrameKept
    <2>2. SuspensionOn => RemoteWork' \subseteq RemoteWork \cup (pass'.revised \cap unseen')
      BY <1>4, RemoteShrinksByRun
    <2>3. ReportedSafe' => RemoteWork' \subseteq unseen'
      BY <2>1, <2>2 DEF RemoteInv, ReportedSafe, CurrentActivation, SuspensionOn
    <2> QED
      BY <2>1, <2>2, <2>3 DEF RemoteInv, SuspensionActivationMatches,
                        CurrentActivation, SuspensionOn
  <1>5. CASE WindowElapses \/ Crash \/ UNCHANGED vars
    <2>1. UNCHANGED <<config, run, unseen>> /\ (pass' = pass \/ pass'.pc = "idle")
      BY <1>5 DEF WindowElapses, Crash, vars, PassIdle
    <2> QED
      BY <2>1 DEF RemoteInv, ReportedSafe, SuspensionActivationMatches, CurrentActivation,
                  RemoteWork, Exists, RemoteExecutionEvidence, HasAcceptedStop
  <1> QED
    BY <1>1, <1>2, <1>3, <1>4, <1>5 DEF Next, Observed

\* However many runs there are and however the passes over them are interrupted: a
\* resumption is never called safe while a run carries evidence of remote work, unless
\* a revision brought it up after the pass that said so began (knownRemoteEvidence).
THEOREM RemoteWorkBlocksResumptionAlways == Spec => []RemoteWorkBlocksResumption
  <1>1. Init => SafetyInv /\ RemoteInv
    <2> SUFFICES ASSUME Init PROVE SafetyInv /\ RemoteInv
      OBVIOUS
    <2>1. ~config.exists
      BY DEF Init, NewConfig
    <2> QED
      BY <2>1, InitMaps
      DEF RemoteInv, ReportedSafe, SuspensionActivationMatches, CurrentActivation
  <1>2. TypeOK /\ SafetyInv /\ RemoteInv /\ [Next]_vars => (SafetyInv /\ RemoteInv)'
    BY SafetyKept, RemoteKept
  <1>3. RemoteInv => RemoteWorkBlocksResumption
    BY DEF RemoteInv, RemoteWorkBlocksResumption, RemoteWork
  <1> QED
    BY <1>1, <1>2, <1>3, TypeCorrect, PTL DEF Spec
=============================================================================
