------------------------ MODULE SandboxAccessProofs ------------------------
(***************************************************************************)
(* Theorems about SandboxAccess: types, and what a deleted run leaves, for *)
(* any number of launches, faults, options, namespaces and kinds of runs.  *)
(***************************************************************************)
EXTENDS SandboxAccess, TLAPS

USE AccessAssumption

----------------------------------------------------------------------------
(* The calls of Create, in order.                                           *)

\* Setup of the analysis, on the hub and on a spoke.
LEMMA SetupAnalysis ==
    LET S == Setup("analysis") IN
    /\ ~run.remote => /\ Len(S) = 5 /\ S[1] = "sa" /\ S[2] = "reader" /\ S[3] = "input"
                      /\ S[4] = "result" /\ S[5] = "pod"
    /\ run.remote => /\ Len(S) = 6 /\ S[1] = "sa" /\ S[2] = "reader" /\ S[3] = "secret"
                     /\ S[4] = "input" /\ S[5] = "result" /\ S[6] = "pod"
  <1>1. CASE ~run.remote
    <2>1. Setup("analysis") = <<"sa", "reader">> \o <<>> \o <<>> \o <<"input", "result", "pod">>
      BY <1>1 DEF Setup
    <2>2. QED  BY <1>1, <2>1
  <1>2. CASE run.remote
    <2>1. Setup("analysis") =
            <<"sa", "reader">> \o <<"secret">> \o <<>> \o <<"input", "result", "pod">>
      BY <1>2 DEF Setup
    <2>2. QED  BY <1>2, <2>1
  <1>3. QED  BY <1>1, <1>2

\* Setup of the execution.
LEMMA SetupExecution ==
    LET S == Setup("execution") IN
    /\ ~run.remote => /\ Len(S) = 8 /\ S[1] = "sa" /\ S[2] = "reader" /\ S[3] = "roles"
                      /\ S[4] = "cluster" /\ S[5] = "note" /\ S[6] = "input"
                      /\ S[7] = "result" /\ S[8] = "pod"
    /\ run.remote => /\ Len(S) = 9 /\ S[1] = "sa" /\ S[2] = "reader" /\ S[3] = "secret"
                     /\ S[4] = "roles" /\ S[5] = "cluster" /\ S[6] = "note"
                     /\ S[7] = "input" /\ S[8] = "result" /\ S[9] = "pod"
  <1>1. CASE ~run.remote
    <2>1. Setup("execution") = <<"sa", "reader">> \o <<>> \o <<"roles", "cluster", "note">>
                               \o <<"input", "result", "pod">>
      BY <1>1 DEF Setup
    <2>2. QED  BY <1>1, <2>1
  <1>2. CASE run.remote
    <2>1. Setup("execution") =
            <<"sa", "reader">> \o <<"secret">> \o <<"roles", "cluster", "note">>
            \o <<"input", "result", "pod">>
      BY <1>2 DEF Setup
    <2>2. QED  BY <1>2, <2>1
  <1>3. QED  BY <1>1, <1>2

\* There is always a call after one that is not the creation of the Pod.
LEMMA SetupGoesOn ==
    ASSUME NEW s \in Steps, NEW i \in 1..Len(Setup(s)), Setup(s)[i] # "pod"
    PROVE  i + 1 \in 1..Len(Setup(s))
  <1>1. \E n \in {5, 6, 8, 9} : Len(Setup(s)) = n /\ Setup(s)[n] = "pod"
    <2>1. CASE s = "analysis" /\ ~run.remote
      <3>1. Len(Setup(s)) = 5 /\ Setup(s)[5] = "pod"
        BY <2>1, SetupAnalysis
      <3>2. QED  BY <3>1
    <2>2. CASE s = "analysis" /\ run.remote
      <3>1. Len(Setup(s)) = 6 /\ Setup(s)[6] = "pod"
        BY <2>2, SetupAnalysis
      <3>2. QED  BY <3>1
    <2>3. CASE s = "execution" /\ ~run.remote
      <3>1. Len(Setup(s)) = 8 /\ Setup(s)[8] = "pod"
        BY <2>3, SetupExecution
      <3>2. QED  BY <3>1
    <2>4. CASE s = "execution" /\ run.remote
      <3>1. Len(Setup(s)) = 9 /\ Setup(s)[9] = "pod"
        BY <2>4, SetupExecution
      <3>2. QED  BY <3>1
    <2>5. QED  BY <2>1, <2>2, <2>3, <2>4 DEF Steps
  <1>2. PICK n \in {5, 6, 8, 9} : Len(Setup(s)) = n /\ Setup(s)[n] = "pod"
    BY <1>1
  <1>3. i \in 1..n /\ i # n /\ n \in Nat
    BY <1>2
  <1>4. i + 1 \in 1..n
    BY <1>3
  <1>5. QED  BY <1>2, <1>4

\* Only an execution has roles.
LEMMA SetupWithoutRoles ==
    ASSUME NEW i \in 1..Len(Setup("analysis"))
    PROVE  Setup("analysis")[i] \in {"sa", "reader", "secret", "input", "result", "pod"}
  <1>1. CASE ~run.remote
    <2>1. i \in {1, 2, 3, 4, 5}
      <3>1. Len(Setup("analysis")) = 5
        BY <1>1, SetupAnalysis
      <3>2. i \in 1..5
        BY <3>1
      <3>3. QED  BY <3>2
    <2>2. QED  BY <1>1, <2>1, SetupAnalysis
  <1>2. CASE run.remote
    <2>1. i \in {1, 2, 3, 4, 5, 6}
      <3>1. Len(Setup("analysis")) = 6
        BY <1>2, SetupAnalysis
      <3>2. i \in 1..6
        BY <3>1
      <3>3. QED  BY <3>2
    <2>2. QED  BY <1>2, <2>1, SetupAnalysis
  <1>3. QED  BY <1>1, <1>2

\* The creation of the Pod comes last.
LEMMA SetupEndsWithPod ==
    ASSUME NEW i \in 1..Len(Setup("analysis")), Setup("analysis")[i] = "pod"
    PROVE  \A k \in {"sa", "input", "result"} :
              \E j \in 1..(i - 1) : Setup("analysis")[j] = k
  <1>1. CASE ~run.remote
    <2>1. i \in {1, 2, 3, 4, 5}
      <3>1. Len(Setup("analysis")) = 5
        BY <1>1, SetupAnalysis
      <3>2. i \in 1..5
        BY <3>1
      <3>3. QED  BY <3>2
    <2>2. i = 5
      BY <1>1, <2>1, SetupAnalysis
    <2>3. 1 \in 1..(i - 1) /\ 3 \in 1..(i - 1) /\ 4 \in 1..(i - 1)
      BY <2>2
    <2>4. QED  BY <1>1, <2>3, SetupAnalysis
  <1>2. CASE run.remote
    <2>1. i \in {1, 2, 3, 4, 5, 6}
      <3>1. Len(Setup("analysis")) = 6
        BY <1>2, SetupAnalysis
      <3>2. i \in 1..6
        BY <3>1
      <3>3. QED  BY <3>2
    <2>2. i = 6
      BY <1>2, <2>1, SetupAnalysis
    <2>3. 1 \in 1..(i - 1) /\ 4 \in 1..(i - 1) /\ 5 \in 1..(i - 1)
      BY <2>2
    <2>4. QED  BY <1>2, <2>3, SetupAnalysis
  <1>3. QED  BY <1>1, <1>2


\* Nothing comes after the creation of the Pod.
LEMMA PodIsLast ==
    ASSUME NEW i \in 1..Len(Setup("analysis")), Setup("analysis")[i] = "pod"
    PROVE  i = Len(Setup("analysis"))
  <1>1. CASE ~run.remote
    <2>1. Len(Setup("analysis")) = 5
      BY <1>1, SetupAnalysis
    <2>2. i \in 1..5
      BY <2>1
    <2>3. i \in {1, 2, 3, 4, 5}
      BY <2>2
    <2>4. QED  BY <1>1, <2>1, <2>3, SetupAnalysis
  <1>2. CASE run.remote
    <2>1. Len(Setup("analysis")) = 6
      BY <1>2, SetupAnalysis
    <2>2. i \in 1..6
      BY <2>1
    <2>3. i \in {1, 2, 3, 4, 5, 6}
      BY <2>2
    <2>4. QED  BY <1>2, <2>1, <2>3, SetupAnalysis
  <1>3. QED  BY <1>1, <1>2

----------------------------------------------------------------------------
(* The inductive invariant.                                                 *)

Launching == {"setup", "await", "own", "ref", "fail"}

\* A launch under way is counted, and its next call is one of Setup's.
LaunchInv ==
    /\ launch.tries >= 1
    /\ launch.pc \in Launching => run.launches >= 1
    /\ launch.pc \in {"setup", "await"} =>
         launch.at \in 1..Len(Setup(launch.step))

\* The finalizers come together, go in order, and outlive every process of the worker;
\* only the last attempt leaves records behind.
FinalizerInv ==
    /\ run.finalizers \in {{}, {"templog"}, {"rbac", "templog"}}
    /\ ~run.deleting => run.finalizers # {"templog"}
    /\ launch.pc # "idle" => "rbac" \in run.finalizers
    /\ Gone => run.finalizers = {}
    /\ run.finalizers = {} => run.stage \in {"new", "gone"}
    /\ run.attempts <= templogMaxCleanupAttempts
    /\ run.finalizers = {} /\ logs => run.attempts = templogMaxCleanupAttempts

\* The roles noted last go with the finalizer; inputs and kubeconfigs have an owner.
GrantInv ==
    /\ \A k \in {"cluster"} \cup Namespaces : ~grant["analysis"][k].there
    /\ "rbac" \notin run.finalizers /\ spoke # "missing" =>
         \A k \in {"cluster"} \cup run.noted : ~grant["execution"][k].there
    /\ \A s \in Steps, k \in {"input", "secret"} :
         grant[s][k].there => grant[s][k].owners # {}

\* Without a fault the finalizer leaves no access but what no note speaks of.
AccessRemoved ==
    "rbac" \notin run.finalizers =>
      \A s \in Steps : \A k \in {"sa", "reader", "cluster"} \cup run.noted :
         ~grant[s][k].there

\* Without a fault the first analysis has not begun, or is under way, or is recorded.
Got(k) == grant["analysis"][k].there
Plain == \A k \in Kinds : grant["analysis"][k].owners \subseteq {0}

NotBegun ==
    /\ launch.pc \notin Launching \/ launch.step # "analysis"
    /\ \A k \in Kinds : ~Got(k)
    /\ pod["analysis"] = NoPod
SettingUp ==
    /\ launch.step = "analysis" /\ launch.pc = "setup" /\ pod["analysis"] = NoPod /\ Plain
    /\ \A i \in 1..(launch.at - 1) : Got(Setup("analysis")[i])
Owning ==
    /\ launch.step = "analysis" /\ launch.pc = "own" /\ Plain
    /\ Got("input") /\ Got("result") /\ Got("sa")
Recording == launch.step = "analysis" /\ launch.pc = "ref"

FirstLaunch ==
    /\ release.pc = "grants" /\ release.step = "analysis" => run.ref["analysis"]
    /\ run.ref["analysis"] \/ NotBegun \/ SettingUp \/ Owning \/ Recording

\* Without a fault and without a revision each step is launched once at most.
Building == {"setup", "await", "own"}
Begun(s) ==
    /\ run.stage # "new"
    /\ s = "execution" => run.stage # "proposed" /\ (run.stage = "running" => run.step = s)
Past(call) == \E i \in 1..(launch.at - 1) : Setup(launch.step)[i] = call
RolesIn(names) == \A n \in Namespaces : grant["execution"][n].there => n \in names

\* Before its launch a step has nothing.  During the calls of Create it has what those
\* behind it made, and roles where its option needs them, which are noted in the end.
\* After them its result role has an owner and its roles are noted.
Waiting(s) ==
    /\ launch.pc \in Launching => launch.step # s
    /\ pod[s] = NoPod /\ \A k \in Kinds : ~grant[s][k].there
Setting(s) ==
    /\ launch.step = s /\ launch.pc = "setup" /\ Begun(s) /\ pod[s] = NoPod
    /\ \A k \in {"input", "result"} :
         grant[s][k].owners \subseteq {0} /\ (Past(k) => grant[s][k].there)
    /\ s = "execution" => /\ RolesIn(launch.option.ns)
                          /\ Past("note") => launch.option.ns \subseteq run.noted
Handing(s) ==
    /\ launch.step = s /\ launch.pc = "own" /\ Begun(s)
    /\ \A k \in {"input", "result"} : grant[s][k].owners \subseteq {0} /\ grant[s][k].there
    /\ s = "execution" => RolesIn(run.noted)
Settled(s) ==
    /\ Begun(s) /\ (launch.pc \in Building => launch.step # s)
    /\ grant[s]["result"].there => grant[s]["result"].owners # {}
    /\ s = "execution" => RolesIn(run.noted)
OnceEach ==
    /\ ~run.feedback
    /\ \A s \in Steps : Waiting(s) \/ Setting(s) \/ Handing(s) \/ Settled(s)

Faultless ==
    /\ faults <= MaxFaults
    /\ faults = MaxFaults =>
         /\ spoke = "ready" /\ AccessRemoved /\ FirstLaunch
         /\ run.revisions = 0 => OnceEach

----------------------------------------------------------------------------
(* Types.                                                                   *)

\* The absent objects and the idle processes have their types.
LEMMA NothingTyped ==
    Absent \in Grant /\ NoPod \in Pod /\ LaunchIdle \in Launch /\ ReleaseIdle \in Release
  <1>1. Absent \in Grant /\ NoPod \in Pod
    BY DEF Grant, Pod
  <1>2. LaunchIdle \in Launch /\ ReleaseIdle \in Release
    BY DEF LaunchIdle, Launch, LaunchPCs, ReleaseIdle, Release, Steps
  <1>3. QED  BY <1>1, <1>2

\* A step uses up one fault or none.
LEMMA FaultTyped ==
    ASSUME TypeOK, Fault \/ NoFault  PROVE faults' \in Nat
  BY DEF TypeOK, Fault, NoFault

\* A clean-up only takes away.
Shrinks == \A s \in Steps, k \in Kinds : grant'[s][k] \in {grant[s][k], Absent}

\* A deletion by name takes objects away and changes no other.
LEMMA DeleteShrinks ==
    ASSUME TypeOK, NEW gone, NEW kept, Delete(gone, kept)
    PROVE  grant' \in [Steps -> [Kinds -> Grant]] /\ Shrinks
  BY NothingTyped DEF Delete, TypeOK, Shrinks

\* A step that leaves the access alone takes nothing away, trivially.
LEMMA GrantStays ==
    ASSUME TypeOK, grant' = grant
    PROVE  grant' \in [Steps -> [Kinds -> Grant]] /\ Shrinks
  BY DEF TypeOK, Shrinks

\* ReleaseSandboxes, complete or not, keeps the types and only takes away.
LEMMA ReleaseTyped ==
    ASSUME TypeOK, ReleaseSandboxes \/ ReleaseSandboxesFails
    PROVE  /\ grant' \in [Steps -> [Kinds -> Grant]] /\ Shrinks
           /\ pod' \in [Steps -> Pod] /\ faults' \in Nat
  <1>1. \A s \in Steps : pod[s] \in Pod /\ Terminating(pod[s]) \in Pod
    BY DEF TypeOK, Terminating, Pod, NoPod
  <1>2. pod' \in [Steps -> Pod]
    <2> HIDE DEF Terminating
    <2>1. \/ pod' = [s \in Steps |-> IF run.ref[s] THEN Terminating(pod[s]) ELSE pod[s]]
          \/ \E t \in Steps : pod' = [s \in Steps |-> IF run.ref[s] /\ s # t
                                        THEN Terminating(pod[s]) ELSE pod[s]]
      BY DEF ReleaseSandboxes, ReleaseSandboxesFails
    <2>2. QED  BY <1>1, <2>1
  <1>3. faults' \in Nat
    BY FaultTyped DEF ReleaseSandboxes, ReleaseSandboxesFails, DeleteAll, DeleteFails
  <1>4. grant' \in [Steps -> [Kinds -> Grant]] /\ Shrinks
    BY DeleteShrinks DEF ReleaseSandboxes, ReleaseSandboxesFails, DeleteAll, DeleteFails
  <1>5. QED  BY <1>2, <1>3, <1>4

\* The call of Create that makes an object: one for the roles of all namespaces.
Call(k) == IF k \in Namespaces THEN "roles" ELSE k

\* What Create adds to the access of its step.
Grows(k, owners) ==
    /\ Doing(Call(k))
    /\ grant' = [grant EXCEPT ![launch.step][k] = NewGrant(k, owners)]
    /\ owners \in {{}, {0}} /\ (k \in {"input", "secret"} => owners = {0})

\* What Create adds has the type of a grant.
LEMMA GrowsTyped ==
    ASSUME TypeOK, LaunchInv, NEW k \in Kinds, NEW owners, Grows(k, owners)
    PROVE  grant' \in [Steps -> [Kinds -> Grant]]
  <1>1. run.launches \in Nat \ {0} /\ launch.step \in Steps
    BY DEF TypeOK, Run, Launch, LaunchInv, Launching, Grows, Doing
  <1>2. NewGrant(k, owners) \in Grant
    BY <1>1 DEF Grows, Grant, NewGrant
  <1>3. QED  BY <1>1, <1>2 DEF Grows, TypeOK

\* A call of Create that makes sure of an object.
LEMMA EnsureTyped ==
    ASSUME TypeOK, LaunchInv, NEW k \in Objects, NEW owners, Ensure(k, owners),
           owners \in {{}, {0}}, k \in {"input", "secret"} => owners = {0}
    PROVE  TypeOK' /\ LaunchInv' /\ (Grows(k, owners) \/ UNCHANGED grant)
  <1>0. k \in Kinds /\ k \notin Namespaces
    BY DEF Kinds
  <1>1. Grows(k, owners) \/ UNCHANGED grant
    BY <1>0 DEF Ensure, Grows, SetGrant, Call
  <1>2. grant' \in [Steps -> [Kinds -> Grant]]
    BY <1>0, <1>1, GrowsTyped, GrantStays
  <1>3. launch \in Launch /\ launch' = [launch EXCEPT !.at = launch.at + 1]
    BY DEF Ensure, Advance, TypeOK
  <1>4. launch.at \in Nat /\ launch.step \in Steps
    BY <1>3 DEF Launch
  <1>5. /\ launch' \in Launch /\ launch'.at = launch.at + 1 /\ launch'.pc = launch.pc
        /\ launch'.step = launch.step /\ launch'.tries = launch.tries
    BY <1>3, <1>4 DEF Launch
  <1>6. UNCHANGED <<run, pod, release, spoke, logs, faults>>
    BY DEF Ensure, WorkerFrame, NoFault
  <1>7. TypeOK'
    BY <1>2, <1>5, <1>6 DEF TypeOK
  <1>8. launch.pc = "setup" /\ Setup(launch.step)[launch.at] = k /\ k # "pod"
    BY DEF Ensure, Doing, Objects
  <1>9. launch.at + 1 \in 1..Len(Setup(launch.step))
    BY <1>4, <1>8, SetupGoesOn DEF LaunchInv
  <1>10. Setup(launch.step)' = Setup(launch.step)
    BY <1>5, <1>6 DEF Setup
  <1>11. LaunchInv'
    BY <1>5, <1>6, <1>8, <1>9, <1>10 DEF LaunchInv
  <1>12. QED  BY <1>1, <1>7, <1>11

\* Others leave a launch as it is.
LEMMA LaunchKept ==
    ASSUME LaunchInv, launch' = launch, run'.remote = run.remote,
           run'.launches = run.launches
    PROVE  LaunchInv'
  <1>1. Setup(launch.step)' = Setup(launch.step)
    BY DEF Setup
  <1>2. QED  BY <1>1 DEF LaunchInv

\* Outside launchSandbox there is nothing to say about the next call.
LEMMA LaunchEnds ==
    ASSUME launch' \in Launch, launch'.pc \notin Launching, launch'.tries >= 1
    PROVE  LaunchInv'
  BY DEF LaunchInv, Launching

\* The worker is done with the request.
LEMMA LaunchIdles ==
    ASSUME launch' = LaunchIdle  PROVE LaunchInv' /\ launch' \in Launch
  <1>1. LaunchIdle.pc = "idle" /\ LaunchIdle.tries = 1
    BY DEF LaunchIdle
  <1>2. QED  BY <1>1, LaunchEnds, NothingTyped DEF Launching

\* A call of Create is over, the next one is due.
LEMMA AdvanceTyped ==
    ASSUME TypeOK, LaunchInv, Advance, NEW k, Doing(k), k # "pod",
           run'.remote = run.remote, run'.launches = run.launches
    PROVE  launch' \in Launch /\ LaunchInv'
  <1>1. launch \in Launch /\ launch' = [launch EXCEPT !.at = launch.at + 1]
    BY DEF Advance, TypeOK
  <1>2. launch.at \in Nat /\ launch.step \in Steps
    BY <1>1 DEF Launch
  <1>3. /\ launch' \in Launch /\ launch'.at = launch.at + 1 /\ launch'.pc = launch.pc
        /\ launch'.step = launch.step /\ launch'.tries = launch.tries
    BY <1>1, <1>2 DEF Launch
  <1>4. launch.pc = "setup" /\ Setup(launch.step)[launch.at] = k
    BY DEF Doing
  <1>5. launch.at + 1 \in 1..Len(Setup(launch.step))
    BY <1>2, <1>4, SetupGoesOn DEF LaunchInv
  <1>6. Setup(launch.step)' = Setup(launch.step)
    BY <1>3 DEF Setup
  <1>7. QED  BY <1>3, <1>4, <1>5, <1>6 DEF LaunchInv

\* A new launch.
LEMMA StartTyped ==
    ASSUME TypeOK, NEW s \in Steps, NEW r \in Run,
           NEW option \in [ns : SUBSET Namespaces, cluster : BOOLEAN], Start(s, r, option),
           r.remote = run.remote, r.launches = run.launches
    PROVE  TypeOK' /\ LaunchInv'
  <1>1. run' = [r EXCEPT !.stage = "running", !.step = s, !.launches = r.launches + 1]
    BY DEF Start
  <1>2. r.launches \in Nat
    BY DEF Run
  <1>3. run' \in Run /\ run'.launches = r.launches + 1
    <2>1. r.launches + 1 \in Nat /\ "running" \in Stages
      BY <1>2 DEF Stages
    <2> DEFINE n == r.launches + 1
    <2>2. n \in Nat
      BY <2>1
    <2>3. run' = [r EXCEPT !.stage = "running", !.step = s, !.launches = n]
      BY <1>1
    <2> HIDE DEF n
    <2>4. run'.launches = n
      BY <2>3 DEF Run
    <2>5. run' \in Run
      BY <2>1, <2>2, <2>3 DEF Run
    <2>6. QED  BY <2>4, <2>5 DEF n
  <1>4. launch' = [LaunchIdle EXCEPT !.pc = "setup", !.step = s, !.option = option]
    BY DEF Start
  <1>5. /\ launch' \in Launch /\ launch'.pc = "setup" /\ launch'.step = s
        /\ launch'.at = 1 /\ launch'.tries = 1
    BY <1>4 DEF LaunchIdle, Launch, LaunchPCs
  <1>6. TypeOK'
    BY <1>3, <1>5 DEF Start, TypeOK
  <1>7. Setup(s)' = Setup(s)
    <2>1. run'.remote = run.remote
      BY <1>1 DEF Run
    <2>2. QED  BY <2>1 DEF Setup
  <1>8. 1 \in 1..Len(Setup(s))
    <2>1. CASE s = "analysis"
      BY <2>1, SetupAnalysis
    <2>2. CASE s = "execution"
      BY <2>2, SetupExecution
    <2>3. QED  BY <2>1, <2>2 DEF Steps
  <1>9. LaunchInv'
    BY <1>2, <1>3, <1>5, <1>7, <1>8 DEF LaunchInv
  <1>10. QED  BY <1>6, <1>9

\* An error: another attempt, or none.
LEMMA RetryTyped ==
    ASSUME TypeOK, LaunchInv, Retry, launch.pc \in Launching, run' = run
    PROVE  /\ launch' \in Launch /\ LaunchInv' /\ launch'.step = launch.step
           /\ launch'.pc \in {"setup", "fail"}
  <1>1. launch \in Launch /\ launch.tries \in Nat /\ launch.step \in Steps
    BY DEF TypeOK, Launch
  <1>2. CASE launch' = [launch EXCEPT !.pc = "setup", !.at = 1, !.tries = launch.tries + 1]
    <2> DEFINE t == launch.tries + 1
    <2>0. t \in Nat /\ launch' = [launch EXCEPT !.pc = "setup", !.at = 1, !.tries = t]
      BY <1>1, <1>2
    <2> HIDE DEF t
    <2>1. /\ launch' \in Launch /\ launch'.pc = "setup" /\ launch'.at = 1
          /\ launch'.tries = t /\ launch'.step = launch.step
      BY <1>1, <2>0 DEF Launch, LaunchPCs
    <2>2. Setup(launch.step)' = Setup(launch.step)
      BY <2>1 DEF Setup
    <2>3. 1 \in 1..Len(Setup(launch.step))
      <3>1. CASE launch.step = "analysis"
        BY <3>1, SetupAnalysis
      <3>2. CASE launch.step = "execution"
        BY <3>2, SetupExecution
      <3>3. QED  BY <1>1, <3>1, <3>2 DEF Steps
    <2>4. launch'.tries >= 1
      BY <1>1, <2>1 DEF t
    <2>5. QED  BY <2>1, <2>2, <2>3, <2>4 DEF LaunchInv
  <1>3. CASE launch' = [launch EXCEPT !.pc = "fail"]
    <2>1. /\ launch' \in Launch /\ launch'.pc = "fail" /\ launch'.step = launch.step
          /\ launch'.tries = launch.tries
      BY <1>1, <1>3 DEF Launch, LaunchPCs
    <2>2. QED  BY <2>1 DEF LaunchInv
  <1>4. QED  BY <1>2, <1>3 DEF Retry

\* The annotation of the role namespaces is written.
LEMMA NamespacesNoted ==
    ASSUME TypeOK, run' = [run EXCEPT !.noted = Annotate(run.noted)]
    PROVE  /\ run' \in Run /\ run'.remote = run.remote /\ run'.launches = run.launches
           /\ run'.deleting = run.deleting
           /\ run'.attempts = run.attempts
           /\ run'.finalizers = run.finalizers /\ run'.ref = run.ref
           /\ run'.stage = run.stage
  <1> DEFINE names == Annotate(run.noted)
  <1>1. names \in SUBSET Namespaces
    BY DEF TypeOK, Run, Launch, Annotate
  <1>2. run' = [run EXCEPT !.noted = names]
    OBVIOUS
  <1> HIDE DEF names
  <1>3. QED  BY <1>1, <1>2 DEF TypeOK, Run

\* The calls of Create up to the Pod.
LEMMA TypeSetup ==
    ASSUME TypeOK, LaunchInv,
           \/ ensureSA \/ addReaderSubject \/ addReaderSubjectOnSpoke
           \/ ensureExecutionRBAC \/ createInputConfigMap \/ ensureResultRBAC
           \/ ensureSandboxKubeconfig \/ PersistNamespaces
    PROVE  TypeOK' /\ LaunchInv'
  <1>1. CASE ensureSA
    BY <1>1, EnsureTyped DEF ensureSA, Objects
  <1>2. CASE addReaderSubject \/ addReaderSubjectOnSpoke
    BY <1>2, EnsureTyped DEF addReaderSubject, addReaderSubjectOnSpoke, Objects
  <1>3. CASE ensureExecutionRBAC
    <2>1. CASE Doing("roles")
      <3>1. UNCHANGED <<run, pod, release, spoke, logs, faults>>
        BY <1>3, <2>1 DEF ensureExecutionRBAC, Ensure, Advance, WorkerFrame, NoFault
      <3>2. CASE Advance /\ UNCHANGED grant
        BY <2>1, <3>1, <3>2, AdvanceTyped DEF TypeOK
      <3>3. CASE \E n \in launch.option.ns : SetGrant(n, NewGrant(n, {})) /\ UNCHANGED launch
        <4>1. PICK n \in launch.option.ns : SetGrant(n, NewGrant(n, {})) /\ UNCHANGED launch
          BY <3>3
        <4>2. n \in Namespaces /\ n \in Kinds
          BY DEF TypeOK, Launch, Kinds
        <4>3. Grows(n, {})
          BY <2>1, <4>1, <4>2 DEF Grows, Call, SetGrant, Objects
        <4>4. grant' \in [Steps -> [Kinds -> Grant]]
          BY <4>2, <4>3, GrowsTyped
        <4>5. QED  BY <3>1, <4>1, <4>4, LaunchKept DEF TypeOK
      <3>4. QED
        <4>1. ~Doing("cluster")
          BY <2>1 DEF Doing
        <4>2. QED  BY <1>3, <3>2, <3>3, <4>1 DEF ensureExecutionRBAC, Ensure
    <2>2. CASE Ensure("cluster", {})
      BY <2>2, EnsureTyped DEF Objects
    <2>3. CASE Doing("cluster") /\ ~launch.option.cluster
      <3>1. Advance /\ UNCHANGED <<run, grant, pod, release, spoke, logs, faults>>
        <4>1. ~Doing("roles")
          BY <2>3 DEF Doing
        <4>2. QED  BY <1>3, <2>3, <4>1 DEF ensureExecutionRBAC, WorkerFrame, NoFault
      <3>2. QED  BY <2>3, <3>1, AdvanceTyped DEF TypeOK
    <2>4. QED  BY <1>3, <2>1, <2>2, <2>3 DEF ensureExecutionRBAC
  <1>4. CASE createInputConfigMap
    BY <1>4, EnsureTyped DEF createInputConfigMap, Objects
  <1>5. CASE ensureResultRBAC
    BY <1>5, EnsureTyped DEF ensureResultRBAC, Objects
  <1>6. CASE ensureSandboxKubeconfig
    <2>1. Grows("secret", {0})
      BY <1>6 DEF ensureSandboxKubeconfig, Grows, SetGrant, Call, Objects
    <2>2. grant' \in [Steps -> [Kinds -> Grant]]
      BY <2>1, GrowsTyped DEF Kinds, Objects
    <2>3. UNCHANGED <<run, pod, release, spoke, logs, faults>> /\ Advance /\ Doing("secret")
      BY <1>6 DEF ensureSandboxKubeconfig, WorkerFrame, NoFault
    <2>4. QED  BY <2>2, <2>3, AdvanceTyped DEF TypeOK
  <1>7. CASE PersistNamespaces
    <2>1. /\ UNCHANGED <<grant, pod, release, spoke, logs, faults>> /\ Advance
          /\ Doing("note") /\ run' = [run EXCEPT !.noted = Annotate(run.noted)]
      BY <1>7 DEF PersistNamespaces, WorkerFrame, NoFault
    <2>2. /\ run' \in Run /\ run'.remote = run.remote /\ run'.launches = run.launches
      BY <2>1, NamespacesNoted
    <2>3. QED  BY <2>1, <2>2, AdvanceTyped DEF TypeOK
  <1>8. QED
    BY <1>1, <1>2, <1>3, <1>4, <1>5, <1>6, <1>7

\* The Pod, and what follows.
LEMMA TypePod ==
    ASSUME TypeOK, LaunchInv, createBarePod \/ waitForPodDeletion
    PROVE  TypeOK' /\ LaunchInv' /\ run' = run
  <1>1. /\ launch \in Launch /\ launch.tries \in Nat /\ launch.step \in Steps
        /\ launch.at \in Nat /\ run.launches \in Nat
        /\ pod[launch.step] \in Pod
    BY DEF TypeOK, Launch, Run
  <1>2. UNCHANGED <<run, grant, release, spoke, logs, faults>>
    BY DEF createBarePod, waitForPodDeletion, WorkerFrame, NoFault
  <1>3. ASSUME NEW pc \in {"setup", "own", "await"}, NEW u \in Nat,
               launch.pc \in {"setup", "await"},
               launch' = [launch EXCEPT !.pc = pc, !.uid = u]
        PROVE  launch' \in Launch /\ LaunchInv'
    <2>1. /\ launch' \in Launch /\ launch'.pc = pc /\ launch'.at = launch.at
          /\ launch'.tries = launch.tries /\ launch'.step = launch.step
      BY <1>1, <1>3 DEF Launch, LaunchPCs
    <2>2. Setup(launch.step)' = Setup(launch.step)
      BY <1>2, <2>1 DEF Setup
    <2>3. QED  BY <1>2, <1>3, <2>1, <2>2 DEF LaunchInv, Launching
  <1>4. launch.uid \in Nat
    BY <1>1 DEF Launch
  <1>5. ASSUME NEW pc \in {"setup", "await"}, launch.pc \in {"setup", "await"},
               launch' = [launch EXCEPT !.pc = pc]
        PROVE  launch' \in Launch /\ LaunchInv'
    <2>1. launch' = [launch EXCEPT !.pc = pc, !.uid = launch.uid]
      BY <1>1, <1>5 DEF Launch
    <2>2. QED  BY <1>3, <1>4, <1>5, <2>1
  <1>6. CASE createBarePod
    <2>1. launch.pc = "setup" /\ launch.pc \in Launching
      BY <1>6 DEF createBarePod, Doing, Launching
    <2>2. run.launches >= 1 /\ launch.tries >= 1
      BY <2>1 DEF LaunchInv
    <2>3. NewUID \in Nat \ {0}
      BY <1>1, <2>2 DEF NewUID, maxCreateRetries
    <2> DEFINE new == [uid |-> NewUID, ph |-> "running"]
    <2>4. new \in Pod /\ new.uid = NewUID
      BY <2>3 DEF Pod
    <2>5. CASE /\ pod' = [pod EXCEPT ![launch.step] = new]
               /\ launch' = [launch EXCEPT !.pc = "own", !.uid = new.uid]
      <3>1. pod' \in [Steps -> Pod]
        BY <1>1, <2>4, <2>5 DEF TypeOK
      <3>2. launch' \in Launch /\ LaunchInv'
        BY <1>3, <2>1, <2>3, <2>4, <2>5
      <3>3. QED  BY <1>2, <3>1, <3>2 DEF TypeOK
    <2>6. CASE /\ pod' = pod
               /\ launch' = [launch EXCEPT !.pc = "own", !.uid = pod[launch.step].uid]
      <3>1. pod[launch.step].uid \in Nat
        BY <1>1 DEF Pod, NoPod
      <3>2. launch' \in Launch /\ LaunchInv'
        BY <1>3, <2>1, <2>6, <3>1
      <3>3. QED  BY <1>2, <2>6, <3>2 DEF TypeOK
    <2>7. CASE pod' = pod /\ launch' = [launch EXCEPT !.pc = "await"]
      BY <1>2, <1>5, <2>1, <2>7 DEF TypeOK
    <2>8. QED  BY <1>2, <1>6, <2>5, <2>6, <2>7 DEF createBarePod
  <1>7. CASE waitForPodDeletion
    BY <1>2, <1>5, <1>7 DEF waitForPodDeletion, TypeOK
  <1>8. QED  BY <1>2, <1>6, <1>7

----------------------------------------------------------------------------
(* The edits of the run.                                                    *)

\* What most steps leave alone.
RunKept ==
    /\ run' \in Run /\ run'.remote = run.remote /\ run'.launches = run.launches
    /\ run'.deleting = run.deleting /\ run'.noted = run.noted
    /\ run'.attempts = run.attempts

\* The run as it was for all that counts here, or its step settled or failed.
Quiet ==
    /\ RunKept /\ run'.finalizers = run.finalizers /\ run'.ref = run.ref
    /\ run'.stage = run.stage \/ run'.stage \in {"proposed", "done", "failed"}

\* A step that leaves the run alone is quiet.
LEMMA RunUnchanged ==
    ASSUME TypeOK, run' = run  PROVE Quiet /\ run'.stage = run.stage
  BY DEF TypeOK, Quiet, RunKept

\* completeStep and failStep change the stage.
LEMMA SettledQuiet ==
    ASSUME TypeOK, NEW st \in {"proposed", "done", "failed"},
           run' = [run EXCEPT !.stage = st]
    PROVE  Quiet /\ run'.stage = st
  BY DEF TypeOK, Quiet, RunKept, Run, Stages

\* The label of a terminal run comes or goes.
LEMMA LabelQuiet ==
    ASSUME TypeOK, NEW b \in BOOLEAN, run' = [run EXCEPT !.label = b]
    PROVE  Quiet /\ run'.stage = run.stage
  BY DEF TypeOK, Quiet, RunKept, Run

\* A user gives feedback.
LEMMA FeedbackQuiet ==
    ASSUME TypeOK, run' = [run EXCEPT !.feedback = TRUE, !.revisions = run.revisions + 1]
    PROVE  Quiet /\ run'.stage = run.stage
  <1> DEFINE n == run.revisions + 1
  <1>1. n \in Nat /\ run' = [run EXCEPT !.feedback = TRUE, !.revisions = n]
    BY DEF TypeOK, Run
  <1> HIDE DEF n
  <1>2. QED  BY <1>1 DEF TypeOK, Quiet, RunKept, Run

\* The deadline is set, or passes.
LEMMA DeadlineQuiet ==
    ASSUME TypeOK, NEW t \in {"none", "set", "past"}, run' = [run EXCEPT !.ttl = t]
    PROVE  Quiet /\ run'.stage = run.stage
  BY DEF TypeOK, Quiet, RunKept, Run

\* AddFinalizers changes the finalizers only.
LEMMA FinalizersAdded ==
    ASSUME TypeOK, NEW fs \in SUBSET {"rbac", "templog"},
           run' = [run EXCEPT !.finalizers = fs]
    PROVE  /\ RunKept /\ run'.finalizers = fs /\ run'.ref = run.ref
           /\ run'.stage = run.stage
  BY DEF TypeOK, RunKept, Run

\* A finalizer is removed, and with the last one the run.
LEMMA FinalizerRemoved ==
    ASSUME TypeOK, NEW f, Without(f)
    PROVE  /\ RunKept /\ run'.finalizers = run.finalizers \ {f} /\ run'.ref = run.ref
           /\ run'.stage = IF run.finalizers \ {f} = {} THEN "gone" ELSE run.stage
  <1> DEFINE rest == run.finalizers \ {f}
             st == IF rest = {} THEN "gone" ELSE run.stage
  <1>1. rest \in SUBSET {"rbac", "templog"} /\ st \in Stages
    BY DEF TypeOK, Run, Stages
  <1>2. run' = [run EXCEPT !.finalizers = rest, !.stage = st]
    BY DEF Without, TypeOK, Run
  <1> HIDE DEF rest, st
  <1>3. /\ RunKept /\ run'.finalizers = rest /\ run'.ref = run.ref /\ run'.stage = st
    BY <1>1, <1>2 DEF TypeOK, RunKept, Run
  <1>4. QED  BY <1>3 DEF rest, st

\* A deletion marks the run, or removes one without finalizers.
LEMMA DeletionMarked ==
    ASSUME TypeOK, run' = Deleted
    PROVE  /\ run' \in Run /\ run'.remote = run.remote /\ run'.launches = run.launches
           /\ run'.deleting = TRUE /\ run'.noted = run.noted /\ run'.attempts = run.attempts
           /\ run'.finalizers = run.finalizers /\ run'.ref = run.ref
           /\ run'.stage = IF run.finalizers = {} THEN "gone" ELSE run.stage
  <1> DEFINE st == IF run.finalizers = {} THEN "gone" ELSE run.stage
  <1>1. st \in Stages
    BY DEF TypeOK, Run, Stages
  <1>2. run' = [run EXCEPT !.deleting = TRUE, !.stage = st]
    BY DEF Deleted, TypeOK, Run
  <1> HIDE DEF st
  <1>3. /\ run' \in Run /\ run'.remote = run.remote /\ run'.launches = run.launches
        /\ run'.deleting = TRUE /\ run'.noted = run.noted /\ run'.attempts = run.attempts
        /\ run'.finalizers = run.finalizers /\ run'.ref = run.ref /\ run'.stage = st
    BY <1>1, <1>2 DEF TypeOK, Run
  <1>4. QED  BY <1>3 DEF st

\* A failed clean-up of the Collector is counted.
LEMMA AttemptCounted ==
    ASSUME TypeOK, run' = [run EXCEPT !.attempts = run.attempts + 1]
    PROVE  /\ run' \in Run /\ run'.remote = run.remote /\ run'.launches = run.launches
           /\ run'.deleting = run.deleting /\ run'.noted = run.noted
           /\ run'.attempts = run.attempts + 1
           /\ run'.finalizers = run.finalizers /\ run'.ref = run.ref
           /\ run'.stage = run.stage
  <1> DEFINE n == run.attempts + 1
  <1>1. n \in Nat
    BY DEF TypeOK, Run
  <1>2. run' = [run EXCEPT !.attempts = n]
    OBVIOUS
  <1> HIDE DEF n
  <1>3. /\ run' \in Run /\ run'.remote = run.remote /\ run'.launches = run.launches
        /\ run'.deleting = run.deleting /\ run'.noted = run.noted /\ run'.attempts = n
        /\ run'.finalizers = run.finalizers /\ run'.ref = run.ref
        /\ run'.stage = run.stage
    BY <1>1, <1>2 DEF TypeOK, Run
  <1>4. QED  BY <1>3 DEF n

\* patchSandboxInfo records the sandbox of its step.
LEMMA SandboxRecorded ==
    ASSUME TypeOK, NEW s \in Steps, run' = [run EXCEPT !.ref[s] = TRUE]
    PROVE  /\ RunKept /\ run'.finalizers = run.finalizers /\ run'.stage = run.stage
           /\ run'.ref[s] = TRUE /\ \A t \in Steps : t # s => run'.ref[t] = run.ref[t]
  <1> DEFINE refs == [run.ref EXCEPT ![s] = TRUE]
  <1>1. run.ref \in [Steps -> BOOLEAN]
    BY DEF TypeOK, Run
  <1>2. /\ refs \in [Steps -> BOOLEAN] /\ refs[s] = TRUE
        /\ \A t \in Steps : t # s => refs[t] = run.ref[t]
    BY <1>1
  <1>3. run' = [run EXCEPT !.ref = refs]
    BY DEF TypeOK, Run
  <1> HIDE DEF refs
  <1>4. /\ RunKept /\ run'.finalizers = run.finalizers /\ run'.stage = run.stage
        /\ run'.ref = refs
    BY <1>2, <1>3 DEF TypeOK, Run, RunKept
  <1>5. QED  BY <1>2, <1>4

\* A new launch leaves the record of the analysis.
LEMMA StepStarted ==
    ASSUME TypeOK, handleStep \/ handleRevision
    PROVE  /\ TypeOK' /\ LaunchInv' /\ run'.remote = run.remote
           /\ run'.deleting = run.deleting /\ run'.noted = run.noted
           /\ run'.attempts = run.attempts /\ run'.finalizers = run.finalizers
           /\ run'.ref["analysis"] = run.ref["analysis"] /\ run'.stage = "running"
           /\ logs' = TRUE /\ UNCHANGED <<grant, pod, release, spoke, faults>>
           /\ launch'.pc = "setup" /\ launch'.at = 1
           /\ launch'.step = "analysis" \/ launch'.step = "execution"
  <1>1. ASSUME NEW s \in Steps, NEW r \in Run,
               NEW option \in [ns : SUBSET Namespaces, cluster : BOOLEAN],
               Start(s, r, option), r.remote = run.remote, r.launches = run.launches, r.deleting = run.deleting, r.noted = run.noted,
               r.attempts = run.attempts, r.finalizers = run.finalizers,
               r.ref["analysis"] = run.ref["analysis"]
        PROVE  /\ TypeOK' /\ LaunchInv' /\ run'.remote = run.remote
               /\ run'.deleting = run.deleting /\ run'.noted = run.noted
               /\ run'.attempts = run.attempts /\ run'.finalizers = run.finalizers
               /\ run'.ref["analysis"] = run.ref["analysis"] /\ run'.stage = "running"
               /\ logs' = TRUE /\ UNCHANGED <<grant, pod, release, spoke, faults>>
               /\ launch'.pc = "setup" /\ launch'.at = 1
               /\ launch'.step = "analysis" \/ launch'.step = "execution"
    <2>1. TypeOK' /\ LaunchInv'
      BY <1>1, StartTyped
    <2>2. logs' = TRUE /\ UNCHANGED <<grant, pod, release, spoke, faults>>
      BY <1>1 DEF Start
    <2>3. launch' = [LaunchIdle EXCEPT !.pc = "setup", !.step = s, !.option = option]
      BY <1>1 DEF Start
    <2>4. launch'.pc = "setup" /\ launch'.at = 1 /\ launch'.step = s
      BY <2>3 DEF LaunchIdle
    <2>5. run' = [r EXCEPT !.stage = "running", !.step = s, !.launches = r.launches + 1]
      BY <1>1 DEF Start
    <2>6. /\ run'.remote = r.remote /\ run'.deleting = r.deleting /\ run'.noted = r.noted
          /\ run'.attempts = r.attempts /\ run'.finalizers = r.finalizers
          /\ run'.ref = r.ref /\ run'.stage = "running"
      BY <2>5 DEF Run
    <2>7. QED  BY <1>1, <2>1, <2>2, <2>4, <2>6 DEF Steps
  <1>0. LaunchIdle.option \in [ns : SUBSET Namespaces, cluster : BOOLEAN]
    BY NothingTyped DEF Launch
  <1>2. CASE handleStep
    <2>1. /\ run \in Run /\ "analysis" \in Steps /\ "execution" \in Steps
          /\ Options \subseteq [ns : SUBSET Namespaces, cluster : BOOLEAN]
      BY DEF TypeOK, Steps
    <2>2. CASE Start("analysis", run, LaunchIdle.option)
      BY <1>0, <1>1, <2>1, <2>2
    <2>3. CASE \E option \in Options : Start("execution", run, option)
      BY <1>1, <2>1, <2>3
    <2>4. QED  BY <1>2, <2>2, <2>3 DEF handleStep
  <1>3. CASE handleRevision
    <2> DEFINE refs == [run.ref EXCEPT !["execution"] = FALSE]
               r == [resetExecutionAndVerification(run) EXCEPT
                         !.ttl = "none", !.feedback = FALSE]
    <2>1. run.ref \in [Steps -> BOOLEAN]
      BY DEF TypeOK, Run
    <2>2. refs \in [Steps -> BOOLEAN] /\ refs["analysis"] = run.ref["analysis"]
      BY <2>1 DEF Steps
    <2>3. r = [run EXCEPT !.ref = refs, !.ttl = "none", !.feedback = FALSE]
      BY DEF resetExecutionAndVerification, TypeOK, Run
    <2>4. Start("analysis", r, LaunchIdle.option)
      BY <1>3 DEF handleRevision
    <2> HIDE DEF refs, r
    <2>5. /\ r \in Run /\ r.remote = run.remote
          /\ r.launches = run.launches /\ r.deleting = run.deleting /\ r.noted = run.noted
          /\ r.attempts = run.attempts /\ r.finalizers = run.finalizers /\ r.ref = refs
      BY <2>2, <2>3 DEF TypeOK, Run
    <2>6. QED  BY <1>0, <1>1, <2>2, <2>4, <2>5 DEF Steps
  <1>4. QED  BY <1>2, <1>3

----------------------------------------------------------------------------
(* Types, launches and finalizers, action by action.                        *)

BaseInv == TypeOK /\ LaunchInv /\ FinalizerInv

\* Owners come or change, objects do not.
OwnersSet ==
    /\ \A t \in Steps, k \in Kinds :
         /\ grant'[t][k].there = grant[t][k].there
         /\ grant'[t][k].owners = grant[t][k].owners \/ grant'[t][k].owners # {}
    /\ \A t \in Steps : t # launch.step => grant'[t] = grant[t]

\* setInputConfigMapOwner, setResultRBACOwner and setSAOwner.
LEMMA SetOwnersTyped ==
    ASSUME TypeOK, LaunchInv, SetOwners
    PROVE  /\ grant' \in [Steps -> [Kinds -> Grant]] /\ OwnersSet
           /\ launch' \in Launch /\ launch'.step = launch.step /\ launch'.at = launch.at
           /\ launch'.tries = launch.tries /\ launch'.pc \in {"ref", "fail"}
           /\ (/\ grant[launch.step]["input"].there /\ grant[launch.step]["result"].there
               /\ grant[launch.step]["sa"].there) => launch'.pc = "ref"
           /\ grant[launch.step]["input"].there /\ grant[launch.step]["result"].there =>
                grant'[launch.step]["result"].owners # {}
  <1> DEFINE s == launch.step
             g == grant[s]
             order == IF run.remote THEN <<"input", "result">> ELSE <<"input", "result", "sa">>
             found == {n \in 0..Len(order) : \A i \in 1..n : g[order[i]].there}
             owned == {order[n] : n \in found \ {0}}
             after(k) == CASE k = "input" -> setInputConfigMapOwner(g[k])
                           [] k = "result" -> setResultRBACOwner(g[k])
                           [] k = "sa" -> setSAOwner(g[k])
             pc == IF Len(order) \in found THEN "ref" ELSE "fail"
  <1>1. /\ launch \in Launch /\ s \in Steps /\ launch.uid \in Nat
        /\ g \in [Kinds -> Grant] /\ grant \in [Steps -> [Kinds -> Grant]]
    BY DEF TypeOK, Launch
  <1>2. /\ grant' = [grant EXCEPT ![s] = [k \in Kinds |->
                         IF k \notin owned THEN g[k] ELSE after(k)]]
        /\ launch' = [launch EXCEPT !.pc = pc]
    BY DEF SetOwners
  <1>3. \A n \in found \ {0} : order[n] \in {"input", "result", "sa"} /\ g[order[n]].there
    <2> TAKE n \in found \ {0}
    <2>1. n \in 1..Len(order) /\ g[order[n]].there
      OBVIOUS
    <2>2. CASE run.remote
      <3>1. n \in {1, 2}
        BY <2>1, <2>2
      <3>2. QED  BY <2>1, <2>2, <3>1
    <2>3. CASE ~run.remote
      <3>1. n \in {1, 2, 3}
        BY <2>1, <2>3
      <3>2. QED  BY <2>1, <2>3, <3>1
    <2>4. QED  BY <2>2, <2>3
  <1>4. \A k \in owned : k \in {"input", "result", "sa"} /\ g[k].there
    BY <1>3
  <1>5. (g["input"].there /\ g["result"].there /\ g["sa"].there) => pc = "ref"
    <2> HAVE g["input"].there /\ g["result"].there /\ g["sa"].there
    <2>1. CASE run.remote
      <3>1. order = <<"input", "result">>
        BY <2>1
      <3>2. \A i \in 1..2 : g[order[i]].there
        <4> TAKE i \in 1..2
        <4>1. i \in {1, 2}
          OBVIOUS
        <4>2. QED  BY <3>1, <4>1
      <3>3. Len(order) = 2
        BY <3>1
      <3>4. QED  BY <3>2, <3>3
    <2>2. CASE ~run.remote
      <3>1. order = <<"input", "result", "sa">>
        BY <2>2
      <3>2. \A i \in 1..3 : g[order[i]].there
        <4> TAKE i \in 1..3
        <4>1. i \in {1, 2, 3}
          OBVIOUS
        <4>2. QED  BY <3>1, <4>1
      <3>3. Len(order) = 3
        BY <3>1
      <3>4. QED  BY <3>2, <3>3
    <2>3. QED  BY <2>1, <2>2
  <1>6. pc \in {"ref", "fail"}
    OBVIOUS
  <1>o. g["input"].there /\ g["result"].there => "result" \in owned
    <2> HAVE g["input"].there /\ g["result"].there
    <2>1. Len(order) \in {2, 3} /\ order[1] = "input" /\ order[2] = "result"
      OBVIOUS
    <2>2. \A i \in 1..2 : g[order[i]].there
      <3> TAKE i \in 1..2
      <3>1. i \in {1, 2}
        OBVIOUS
      <3> HIDE DEF order
      <3>2. QED  BY <2>1, <3>1
    <2>3. 2 \in 0..Len(order)
      BY <2>1
    <2>4. 2 \in found \ {0}
      BY <2>2, <2>3
    <2> HIDE DEF order, found
    <2>5. QED  BY <2>1, <2>4
  <1> HIDE DEF order, found, owned, pc
  <1>7. ASSUME NEW k \in owned
        PROVE  /\ after(k) \in Grant /\ after(k).there
               /\ after(k).owners # {}
    <2>1. k \in Kinds /\ k \in {"input", "result", "sa"} /\ g[k].there /\ g[k] \in Grant
      BY <1>1, <1>4, <1>7 DEF Kinds, Objects
    <2> DEFINE x == g[k]
    <2>2. x \in [there : {TRUE}, owners : SUBSET Nat, of : Nat \ {0}]
      <3> HIDE DEF x
      <3>1. x \in Grant /\ x.there
        BY <2>1 DEF x
      <3>2. x # Absent
        BY <3>1 DEF Absent
      <3>3. QED  BY <3>1, <3>2 DEF Grant
    <2>3. after(k) \in {[g[k] EXCEPT !.owners = {launch.uid}],
                        [g[k] EXCEPT !.owners = g[k].owners \cup {launch.uid}]}
      BY <2>1 DEF setInputConfigMapOwner, setResultRBACOwner, setSAOwner
    <2> HIDE DEF after
    <2>4. PICK os \in SUBSET Nat : os # {} /\ after(k) = [x EXCEPT !.owners = os]
      <3>1. {launch.uid} \in SUBSET Nat /\ x.owners \cup {launch.uid} \in SUBSET Nat
        <4> HIDE DEF x
        <4>1. QED  BY <1>1, <2>2
      <3>2. after(k) = [x EXCEPT !.owners = {launch.uid}]
            \/ after(k) = [x EXCEPT !.owners = x.owners \cup {launch.uid}]
        BY <2>3
      <3> HIDE DEF x
      <3>3. QED  BY <3>1, <3>2
    <2> HIDE DEF x
    <2>5. /\ after(k) \in [there : {TRUE}, owners : SUBSET Nat, of : Nat \ {0}]
          /\ after(k).there = TRUE /\ after(k).owners = os
      BY <2>2, <2>4
    <2>6. QED  BY <2>4, <2>5 DEF Grant
  <1> HIDE DEF after
  <1>8. \A k \in Kinds :
          /\ (IF k \notin owned THEN g[k] ELSE after(k)) \in Grant
          /\ (IF k \notin owned THEN g[k] ELSE after(k)).there = g[k].there
          /\ \/ (IF k \notin owned THEN g[k] ELSE after(k)).owners = g[k].owners
             \/ (IF k \notin owned THEN g[k] ELSE after(k)).owners # {}
    <2> TAKE k \in Kinds
    <2>1. CASE k \notin owned
      BY <1>1, <2>1
    <2>2. CASE k \in owned
      <3>1. after(k) \in Grant /\ after(k).there /\ after(k).owners # {}
        BY <1>7, <2>2
      <3>2. g[k].there = TRUE /\ after(k).there = TRUE
        BY <1>1, <1>4, <2>2, <3>1 DEF Grant, Absent
      <3>3. QED  BY <2>2, <3>1, <3>2
    <2>3. QED  BY <2>1, <2>2
  <1>9. /\ grant' \in [Steps -> [Kinds -> Grant]]
        /\ \A t \in Steps : t # s => grant'[t] = grant[t]
        /\ \A k \in Kinds : grant'[s][k] = IF k \notin owned THEN g[k] ELSE after(k)
    BY <1>1, <1>2, <1>8
  <1>10. OwnersSet
    BY <1>8, <1>9 DEF OwnersSet
  <1>11. /\ launch' \in Launch /\ launch'.step = launch.step /\ launch'.at = launch.at
         /\ launch'.tries = launch.tries /\ launch'.pc = pc
    BY <1>1, <1>2, <1>6 DEF Launch, LaunchPCs
  <1>13. g["input"].there /\ g["result"].there => grant'[s]["result"].owners # {}
    <2>1. "result" \in Kinds
      BY DEF Kinds, Objects
    <2>2. QED  BY <1>7, <1>9, <1>o, <2>1
  <1>12. QED  BY <1>5, <1>6, <1>9, <1>10, <1>11, <1>13

\* Nothing about the finalizers changes.
LEMMA FinalizerKept ==
    ASSUME TypeOK, FinalizerInv, Quiet, logs' = logs,
           run'.stage = run.stage \/ run.finalizers # {},
           launch'.pc = "idle" \/ "rbac" \in run.finalizers
    PROVE  FinalizerInv'
  <1>1. /\ run'.finalizers = run.finalizers /\ run'.deleting = run.deleting
        /\ run'.attempts = run.attempts
        /\ run'.stage = run.stage \/ run'.stage \in {"proposed", "done", "failed"}
    BY DEF Quiet, RunKept
  <1>2. run.finalizers # {} => run'.stage # "gone"
    BY <1>1 DEF FinalizerInv, Gone
  <1>3. run.finalizers = {} => run'.stage = run.stage
    OBVIOUS
  <1>4. QED  BY <1>1, <1>2, <1>3 DEF FinalizerInv, Gone

\* The worker works on a run that still has its finalizers.
LEMMA WorkerGuarded ==
    ASSUME TypeOK, FinalizerInv, Reconciling \/ launch.pc # "idle",
           run.finalizers # {} \/ launch.pc # "idle"
    PROVE  "rbac" \in run.finalizers
  BY DEF FinalizerInv, Reconciling

\* Only the objects of others change, not the run or the launch.
LEMMA BaseByOthers ==
    ASSUME BaseInv, Quiet, run'.stage = run.stage \/ run.finalizers # {},
           launch' = launch, release' \in Release, logs' = logs,
           grant' \in [Steps -> [Kinds -> Grant]], pod' \in [Steps -> Pod],
           spoke' \in {"ready", "broken", "missing"}, faults' \in Nat
    PROVE  BaseInv'
  <1>1. run' \in Run /\ run'.remote = run.remote /\ run'.launches = run.launches
    BY DEF Quiet, RunKept
  <1>2. TypeOK'
    BY <1>1 DEF BaseInv, TypeOK
  <1>3. LaunchInv'
    BY <1>1, LaunchKept DEF BaseInv
  <1>4. launch'.pc = "idle" \/ "rbac" \in run.finalizers
    BY DEF BaseInv, FinalizerInv
  <1>5. FinalizerInv'
    BY <1>4, FinalizerKept DEF BaseInv
  <1>6. QED  BY <1>2, <1>3, <1>5 DEF BaseInv

\* The worker goes on, with the finalizers in place.
LEMMA BaseByWorker ==
    ASSUME BaseInv, Quiet, run'.stage = run.stage \/ run.finalizers # {},
           "rbac" \in run.finalizers, launch' \in Launch, LaunchInv',
           release' = release, logs' = logs, spoke' = spoke,
           grant' \in [Steps -> [Kinds -> Grant]], pod' \in [Steps -> Pod],
           faults' \in Nat
    PROVE  BaseInv'
  <1>1. run' \in Run
    BY DEF Quiet, RunKept
  <1>2. TypeOK'
    BY <1>1 DEF BaseInv, TypeOK
  <1>3. FinalizerInv'
    BY FinalizerKept DEF BaseInv
  <1>4. QED  BY <1>2, <1>3 DEF BaseInv

\* The calls of Create before the Pod keep types, launch and finalizers.
LEMMA BaseSetup ==
    ASSUME BaseInv,
           \/ ensureSA \/ addReaderSubject \/ addReaderSubjectOnSpoke
           \/ ensureExecutionRBAC \/ createInputConfigMap \/ ensureResultRBAC
           \/ ensureSandboxKubeconfig \/ PersistNamespaces
    PROVE  BaseInv'
  <1>1. TypeOK' /\ LaunchInv'
    BY TypeSetup DEF BaseInv
  <1>2. launch.pc = "setup" /\ logs' = logs
    BY DEF ensureSA, addReaderSubject, addReaderSubjectOnSpoke, ensureExecutionRBAC,
           createInputConfigMap, ensureResultRBAC, ensureSandboxKubeconfig,
           PersistNamespaces, Ensure, Doing, WorkerFrame
  <1>3. "rbac" \in run.finalizers
    BY <1>2 DEF BaseInv, FinalizerInv
  <1>4. CASE run' = run
    <2>1. Quiet /\ run'.stage = run.stage
      BY <1>4, RunUnchanged DEF BaseInv
    <2>2. QED  BY <1>1, <1>2, <1>3, <2>1, FinalizerKept DEF BaseInv
  <1>5. CASE PersistNamespaces
    <2>1. run' = [run EXCEPT !.noted = Annotate(run.noted)]
      BY <1>5 DEF PersistNamespaces
    <2>2. /\ run'.deleting = run.deleting /\ run'.attempts = run.attempts
          /\ run'.finalizers = run.finalizers /\ run'.stage = run.stage
      BY <2>1, NamespacesNoted DEF BaseInv
    <2>3. QED  BY <1>1, <1>2, <1>3, <2>2 DEF BaseInv, FinalizerInv, Gone
  <1>6. QED
    BY <1>4, <1>5 DEF ensureSA, addReaderSubject, addReaderSubjectOnSpoke,
       ensureExecutionRBAC, createInputConfigMap, ensureResultRBAC,
       ensureSandboxKubeconfig, Ensure

\* So does the creation of the Pod, or the wait for an old one to go.
LEMMA BasePod ==
    ASSUME BaseInv, createBarePod \/ waitForPodDeletion
    PROVE  BaseInv'
  <1>1. TypeOK' /\ LaunchInv' /\ run' = run
    BY TypePod DEF BaseInv
  <1>2. launch.pc \in {"setup", "await"} /\ logs' = logs
    BY DEF createBarePod, waitForPodDeletion, Doing, WorkerFrame
  <1>3. "rbac" \in run.finalizers
    BY <1>2 DEF BaseInv, FinalizerInv
  <1>4. Quiet /\ run'.stage = run.stage
    BY <1>1, RunUnchanged DEF BaseInv
  <1>5. QED  BY <1>1, <1>2, <1>3, <1>4, FinalizerKept DEF BaseInv

\* So does an error of Create, with its clean-up and the next attempt.
LEMMA BaseRetry ==
    ASSUME BaseInv, spokeAccessForRun \/ cleanupOnCreateFailure \/ SetOwnersFails
    PROVE  BaseInv'
  <1>1. /\ Retry /\ launch.pc \in Launching /\ run' = run /\ pod' = pod
        /\ Fault \/ NoFault
        /\ UNCHANGED <<release, spoke, logs>>
    BY DEF spokeAccessForRun, cleanupOnCreateFailure, SetOwnersFails, Retry, Doing,
           Launching, WorkerFrame, NoFault
  <1>2. "rbac" \in run.finalizers
    BY <1>1 DEF BaseInv, FinalizerInv, Launching
  <1>3. launch' \in Launch /\ LaunchInv'
    BY <1>1, RetryTyped DEF BaseInv
  <1>4. grant' \in [Steps -> [Kinds -> Grant]]
    BY GrantStays, DeleteShrinks
       DEF BaseInv, spokeAccessForRun, cleanupOnCreateFailure, SetOwnersFails
  <1>5. faults' \in Nat
    BY <1>1, FaultTyped DEF BaseInv
  <1>6. Quiet /\ run'.stage = run.stage
    BY <1>1, RunUnchanged DEF BaseInv
  <1>7. pod' \in [Steps -> Pod]
    BY <1>1 DEF BaseInv, TypeOK
  <1>8. QED  BY <1>1, <1>2, <1>3, <1>4, <1>5, <1>6, <1>7, BaseByWorker

\* So does making the Pod the owner.
LEMMA BaseOwners ==
    ASSUME BaseInv, SetOwners  PROVE BaseInv'
  <1>1. launch.pc = "own" /\ UNCHANGED <<run, pod, release, spoke, logs, faults>>
    BY DEF SetOwners, WorkerFrame, NoFault
  <1>2. "rbac" \in run.finalizers /\ run.launches >= 1
    BY <1>1 DEF BaseInv, FinalizerInv, LaunchInv, Launching
  <1>3. /\ grant' \in [Steps -> [Kinds -> Grant]] /\ launch' \in Launch
        /\ launch'.tries = launch.tries /\ launch'.pc \in {"ref", "fail"}
    BY SetOwnersTyped DEF BaseInv
  <1>4. LaunchInv'
    BY <1>1, <1>2, <1>3 DEF BaseInv, LaunchInv
  <1>5. Quiet /\ run'.stage = run.stage
    BY <1>1, RunUnchanged DEF BaseInv
  <1>6. pod' \in [Steps -> Pod] /\ faults' \in Nat
    BY <1>1 DEF BaseInv, TypeOK
  <1>7. QED  BY <1>1, <1>2, <1>3, <1>4, <1>5, <1>6, BaseByWorker

\* A later phase of the worker.
LEMMA LaterPhase ==
    ASSUME TypeOK, LaunchInv, NEW pc \in {"fail", "terminal", "stamp"}, run' = run,
           pc = "fail" => launch.pc \in Launching,
           launch' = [launch EXCEPT !.pc = pc]
    PROVE  launch' \in Launch /\ LaunchInv' /\ launch'.pc = pc
  <1>1. launch \in Launch
    BY DEF TypeOK
  <1>2. launch' \in Launch /\ launch'.pc = pc /\ launch'.tries = launch.tries
    BY <1>1 DEF Launch, LaunchPCs
  <1>3. QED  BY <1>2 DEF LaunchInv, Launching

\* So do the end of a launch and its failure.
LEMMA BaseRecord ==
    ASSUME BaseInv, patchSandboxInfo \/ failStep  PROVE BaseInv'
  <1>1. /\ launch.pc \in {"ref", "fail"} /\ UNCHANGED <<grant, pod, release, spoke, logs>>
        /\ Fault \/ NoFault
    BY DEF patchSandboxInfo, failStep, WorkerFrame
  <1>2. "rbac" \in run.finalizers /\ launch.step \in Steps /\ launch.pc \in Launching
    BY <1>1 DEF BaseInv, FinalizerInv, TypeOK, Launch, Launching
  <1>3. /\ grant' \in [Steps -> [Kinds -> Grant]] /\ pod' \in [Steps -> Pod]
        /\ faults' \in Nat
    BY <1>1, FaultTyped DEF BaseInv, TypeOK
  <1>4. CASE run' = [run EXCEPT !.ref[launch.step] = TRUE] /\ launch' = LaunchIdle
    <2>1. /\ RunKept /\ run'.finalizers = run.finalizers /\ run'.stage = run.stage
      BY <1>2, <1>4, SandboxRecorded DEF BaseInv
    <2>2. LaunchInv' /\ launch' \in Launch
      BY <1>4, LaunchIdles
    <2>3. TypeOK'
      BY <1>1, <1>3, <2>1, <2>2 DEF BaseInv, TypeOK, RunKept
    <2>4. FinalizerInv'
      BY <1>1, <1>2, <2>1 DEF BaseInv, FinalizerInv, Gone, RunKept
    <2>5. QED  BY <2>2, <2>3, <2>4 DEF BaseInv
  <1>5. CASE run' = run /\ launch' = [launch EXCEPT !.pc = "fail"]
    <2>1. LaunchInv' /\ launch' \in Launch
      BY <1>2, <1>5, LaterPhase DEF BaseInv
    <2>2. Quiet /\ run'.stage = run.stage
      BY <1>5, RunUnchanged DEF BaseInv
    <2>3. QED  BY <1>1, <1>2, <1>3, <2>1, <2>2, BaseByWorker
  <1>6. CASE run' = run /\ launch' = LaunchIdle
    <2>1. LaunchInv' /\ launch' \in Launch
      BY <1>6, LaunchIdles
    <2>2. Quiet /\ run'.stage = run.stage
      BY <1>6, RunUnchanged DEF BaseInv
    <2>3. QED  BY <1>1, <1>2, <1>3, <2>1, <2>2, BaseByWorker
  <1>7. CASE run' = [run EXCEPT !.stage = "failed"] /\ launch' = LaunchIdle
    <2>1. LaunchInv' /\ launch' \in Launch
      BY <1>7, LaunchIdles
    <2>2. Quiet
      BY <1>7, SettledQuiet DEF BaseInv
    <2>3. QED  BY <1>1, <1>2, <1>3, <2>1, <2>2, BaseByWorker
  <1>8. QED  BY <1>4, <1>5, <1>6, <1>7 DEF patchSandboxInfo, failStep

\* So does the terminal clean-up: it runs with both finalizers in place.
LEMMA BaseTerminal ==
    ASSUME BaseInv,
           handleFailed \/ handleTerminalCleanup \/ StampTerminalTime \/ LabelTerminalRun
    PROVE  BaseInv'
  <1>1. UNCHANGED <<release, spoke, logs>>
    BY DEF handleFailed, handleTerminalCleanup, StampTerminalTime, LabelTerminalRun,
           WorkerFrame
  <1>2. "rbac" \in run.finalizers
    BY WorkerGuarded DEF BaseInv, handleFailed, handleTerminalCleanup, StampTerminalTime,
       LabelTerminalRun
  <1>3. /\ grant' \in [Steps -> [Kinds -> Grant]] /\ pod' \in [Steps -> Pod]
        /\ faults' \in Nat
    <2>1. CASE handleFailed
      <3>1. \E gone : DeleteAll(gone) \/ DeleteFails(gone)
        BY <2>1 DEF handleFailed
      <3>2. grant' \in [Steps -> [Kinds -> Grant]] /\ (Fault \/ NoFault)
        BY <3>1, DeleteShrinks DEF BaseInv, DeleteAll, DeleteFails
      <3>3. pod' = pod
        BY <2>1 DEF handleFailed
      <3>4. QED  BY <3>2, <3>3, FaultTyped DEF BaseInv, TypeOK
    <2>2. CASE handleTerminalCleanup
      BY <2>2, ReleaseTyped DEF BaseInv, handleTerminalCleanup, TypeOK
    <2>3. CASE StampTerminalTime \/ LabelTerminalRun
      BY <2>3, FaultTyped DEF BaseInv, StampTerminalTime, LabelTerminalRun, TypeOK
    <2>4. QED  BY <2>1, <2>2, <2>3
  <1>4. CASE handleFailed \/ handleTerminalCleanup
    <2>1. run' = run /\ \E pc \in {"terminal", "stamp"} : launch' = [launch EXCEPT !.pc = pc]
      BY <1>4 DEF handleFailed, handleTerminalCleanup
    <2>2. LaunchInv' /\ launch' \in Launch
      BY <2>1, LaterPhase DEF BaseInv
    <2>3. Quiet /\ run'.stage = run.stage
      BY <2>1, RunUnchanged DEF BaseInv
    <2>4. QED  BY <1>1, <1>2, <1>3, <2>2, <2>3, BaseByWorker
  <1>5. CASE StampTerminalTime
    <2>1. CASE /\ run' = [run EXCEPT !.ttl = IF @ = "none" THEN "set" ELSE @]
               /\ launch' = [launch EXCEPT !.pc = "label", !.read = Edits]
      <3> DEFINE t == IF run.ttl = "none" THEN "set" ELSE run.ttl
      <3>1. t \in {"none", "set", "past"} /\ Edits \in SUBSET {"feedback", "deleting"}
        BY DEF BaseInv, TypeOK, Run, Edits
      <3>2. run' = [run EXCEPT !.ttl = t]
        BY <2>1
      <3> HIDE DEF t
      <3>3. Quiet /\ run'.stage = run.stage
        BY <3>1, <3>2, DeadlineQuiet DEF BaseInv
      <3>4. launch \in Launch
        BY DEF BaseInv, TypeOK
      <3>5. launch' \in Launch /\ launch'.pc = "label" /\ launch'.tries = launch.tries
        BY <2>1, <3>1, <3>4 DEF Launch, LaunchPCs
      <3>6. LaunchInv'
        BY <3>5, LaunchEnds DEF BaseInv, LaunchInv, Launching
      <3>7. QED  BY <1>1, <1>2, <1>3, <3>3, <3>5, <3>6, BaseByWorker
    <2>2. CASE run' = run /\ launch' = LaunchIdle
      <3>1. LaunchInv' /\ launch' \in Launch
        BY <2>2, LaunchIdles
      <3>2. Quiet /\ run'.stage = run.stage
        BY <2>2, RunUnchanged DEF BaseInv
      <3>3. QED  BY <1>1, <1>2, <1>3, <3>1, <3>2, BaseByWorker
    <2>3. QED  BY <1>5, <2>1, <2>2 DEF StampTerminalTime
  <1>6. CASE LabelTerminalRun
    <2>1. LaunchInv' /\ launch' \in Launch
      BY <1>6, LaunchIdles DEF LabelTerminalRun
    <2>2. Quiet /\ run'.stage = run.stage
      BY <1>6, RunUnchanged, LabelQuiet DEF BaseInv, LabelTerminalRun
    <2>3. QED  BY <1>1, <1>2, <1>3, <2>1, <2>2, BaseByWorker
  <1>7. QED  BY <1>4, <1>5, <1>6

\* So does the Pod event handler.
LEMMA BaseHandler ==
    ASSUME BaseInv, Handler  PROVE BaseInv'
  <1>1. ASSUME NEW s \in Steps, completeStep(s)  PROVE BaseInv'
    <2>1. UNCHANGED <<grant, pod, launch, spoke, logs, faults>> /\ run.stage = "running"
      BY <1>1 DEF completeStep
    <2>2. PICK st \in {"failed", "proposed", "done"} : run' = [run EXCEPT !.stage = st]
      BY <1>1 DEF completeStep
    <2>3. Quiet
      BY <2>2, SettledQuiet DEF BaseInv
    <2>4. run.finalizers # {}
      BY <2>1 DEF BaseInv, FinalizerInv
    <2>5. release' \in Release
      BY <1>1 DEF completeStep, Release
    <2>6. QED  BY <2>1, <2>3, <2>4, <2>5, BaseByOthers DEF BaseInv, TypeOK
  <1>2. ASSUME releaseBarePod \/ ReleaseGrants  PROVE BaseInv'
    <2>1. UNCHANGED <<run, launch, spoke, logs>>
      BY <1>2 DEF releaseBarePod, ReleaseGrants, HandlerFrame
    <2>2. Quiet /\ run'.stage = run.stage
      BY <2>1, RunUnchanged DEF BaseInv
    <2>3. release \in Release /\ release.step \in Steps
      BY DEF BaseInv, TypeOK, Release
    <2>4. release' \in Release
      <3>1. release' = ReleaseIdle \/ release' = [release EXCEPT !.pc = "grants"]
        BY <1>2 DEF releaseBarePod, ReleaseGrants
      <3>2. QED  BY <2>3, <3>1, NothingTyped DEF Release
    <2>5. CASE releaseBarePod
      <3>1. grant' = grant /\ (Fault \/ NoFault)
        BY <2>5 DEF releaseBarePod, NoFault
      <3>2. pod' \in [Steps -> Pod]
        <4>1. \A s \in Steps : pod[s] \in Pod /\ Terminating(pod[s]) \in Pod
          BY DEF BaseInv, TypeOK, Terminating, Pod, NoPod
        <4> HIDE DEF Terminating
        <4>2. pod' = pod
              \/ pod' = [pod EXCEPT ![release.step] = Terminating(pod[release.step])]
          BY <2>5 DEF releaseBarePod
        <4>3. QED  BY <2>3, <4>1, <4>2 DEF BaseInv, TypeOK
      <3>3. faults' \in Nat /\ grant' \in [Steps -> [Kinds -> Grant]]
        BY <3>1, FaultTyped DEF BaseInv, TypeOK
      <3>4. QED  BY <2>1, <2>2, <2>4, <3>2, <3>3, BaseByOthers DEF BaseInv, TypeOK
    <2>6. CASE ReleaseGrants
      <3>1. \E gone : DeleteAll(gone) \/ DeleteFails(gone)
        BY <2>6 DEF ReleaseGrants
      <3>2. grant' \in [Steps -> [Kinds -> Grant]] /\ (Fault \/ NoFault)
        BY <3>1, DeleteShrinks DEF BaseInv, DeleteAll, DeleteFails
      <3>3. pod' = pod
        BY <2>6 DEF ReleaseGrants
      <3>4. faults' \in Nat
        BY <3>2, FaultTyped DEF BaseInv
      <3>5. QED
        BY <2>1, <2>2, <2>4, <3>2, <3>3, <3>4, BaseByOthers DEF BaseInv, TypeOK
    <2>7. QED  BY <1>2, <2>5, <2>6
  <1>3. QED  BY <1>1, <1>2 DEF Handler

\* The deletion takes the finalizers in their order, and gives up on the
\* Collector only after the last attempt.
LEMMA BaseDeletion ==
    ASSUME BaseInv, ReleaseDeleted \/ handleTemplogCleanup  PROVE BaseInv'
  <1>1. /\ UNCHANGED <<launch, release, spoke>> /\ launch.pc = "idle" /\ run.deleting
        /\ ~Gone
    BY DEF ReleaseDeleted, handleTemplogCleanup, WorkerFrame, Finalizing
  <1>2. run.attempts \in Nat /\ run.stage \in Stages
    BY DEF BaseInv, TypeOK, Run
  <1>3. CASE ReleaseDeleted
    <2>1. /\ grant' \in [Steps -> [Kinds -> Grant]] /\ pod' \in [Steps -> Pod]
          /\ faults' \in Nat
      BY <1>3, ReleaseTyped DEF ReleaseDeleted, BaseInv
    <2>2. "rbac" \in run.finalizers /\ logs' = logs
      BY <1>3 DEF ReleaseDeleted, WorkerFrame
    <2>3. run.finalizers = {"rbac", "templog"}
      BY <2>2 DEF BaseInv, FinalizerInv
    <2>4. CASE run' = run
      <3>1. Quiet /\ run'.stage = run.stage
        BY <2>4, RunUnchanged DEF BaseInv
      <3>2. QED  BY <1>1, <2>1, <2>2, <3>1, BaseByOthers DEF BaseInv, TypeOK
    <2>5. CASE Without("rbac")
      <3>1. /\ RunKept /\ run'.finalizers = run.finalizers \ {"rbac"}
            /\ run'.stage = IF run.finalizers \ {"rbac"} = {} THEN "gone" ELSE run.stage
        BY <2>5, FinalizerRemoved DEF BaseInv
      <3>2. run'.finalizers = {"templog"} /\ run'.stage = run.stage
        BY <2>3, <3>1
      <3>3. TypeOK'
        BY <1>1, <2>1, <2>2, <3>1 DEF BaseInv, TypeOK, RunKept
      <3>4. LaunchInv'
        BY <1>1, <3>1, LaunchKept DEF BaseInv, RunKept
      <3>5. run'.deleting /\ run'.attempts = run.attempts
        BY <1>1, <3>1 DEF RunKept
      <3>6. FinalizerInv'
        BY <1>1, <2>2, <2>3, <3>2, <3>5 DEF BaseInv, FinalizerInv, Gone
      <3>7. QED  BY <3>3, <3>4, <3>6 DEF BaseInv
    <2>6. QED  BY <1>3, <2>4, <2>5 DEF ReleaseDeleted
  <1>4. CASE handleTemplogCleanup
    <2>1. UNCHANGED <<grant, pod, faults>> /\ run.finalizers = {"templog"} /\ logs' \in BOOLEAN
      BY <1>4 DEF handleTemplogCleanup, BaseInv, TypeOK
    <2>2. CASE Without("templog") /\ (logs' = FALSE \/ run.attempts >= templogMaxCleanupAttempts)
      <3>1. /\ RunKept /\ run'.finalizers = run.finalizers \ {"templog"}
            /\ run'.stage = IF run.finalizers \ {"templog"} = {} THEN "gone" ELSE run.stage
        BY <2>2, FinalizerRemoved DEF BaseInv
      <3>2. run'.finalizers = {} /\ run'.stage = "gone"
        BY <2>1, <3>1
      <3>3. TypeOK'
        BY <1>1, <2>1, <3>1 DEF BaseInv, TypeOK, RunKept
      <3>4. LaunchInv'
        BY <1>1, <3>1, LaunchKept DEF BaseInv, RunKept
      <3>5. run'.deleting /\ run'.attempts = run.attempts
        BY <1>1, <3>1 DEF RunKept
      <3>6. logs' => run.attempts = templogMaxCleanupAttempts
        BY <1>2, <2>2 DEF BaseInv, FinalizerInv, templogMaxCleanupAttempts
      <3>7. FinalizerInv'
        BY <1>1, <2>1, <3>2, <3>5, <3>6 DEF BaseInv, FinalizerInv, Gone
      <3>8. QED  BY <3>3, <3>4, <3>7 DEF BaseInv
    <2>3. CASE /\ run' = [run EXCEPT !.attempts = run.attempts + 1] /\ logs' = logs
               /\ run.attempts < templogMaxCleanupAttempts
      <3>1. /\ run' \in Run /\ run'.remote = run.remote /\ run'.launches = run.launches
            /\ run'.deleting = run.deleting /\ run'.attempts = run.attempts + 1
            /\ run'.finalizers = run.finalizers /\ run'.stage = run.stage
        BY <2>3, AttemptCounted DEF BaseInv
      <3>2. TypeOK'
        BY <1>1, <2>1, <3>1 DEF BaseInv, TypeOK
      <3>3. LaunchInv'
        BY <1>1, <3>1, LaunchKept DEF BaseInv
      <3>4. run'.attempts <= templogMaxCleanupAttempts
        BY <1>2, <2>3, <3>1 DEF templogMaxCleanupAttempts
      <3>5. FinalizerInv'
        BY <1>1, <2>1, <3>1, <3>4 DEF BaseInv, FinalizerInv, Gone
      <3>6. QED  BY <3>2, <3>3, <3>5 DEF BaseInv
    <2>4. QED
      BY <1>4, <2>2, <2>3 DEF handleTemplogCleanup
  <1>5. QED  BY <1>3, <1>4

\* A launch starts with both finalizers in place, also one for a revision.
LEMMA BaseStart ==
    ASSUME BaseInv, AddFinalizers \/ ClearTerminalLabel \/ handleStep \/ handleRevision
    PROVE  BaseInv'
  <1>1. launch.pc = "idle" /\ ~Gone /\ ~run.deleting
    BY DEF AddFinalizers, ClearTerminalLabel, handleStep, handleRevision, Reconciling
  <1>2. CASE AddFinalizers
    <2>1. /\ UNCHANGED <<grant, pod, launch, release, spoke, logs, faults>>
          /\ run' = [run EXCEPT !.finalizers = {"rbac", "templog"}]
      BY <1>2 DEF AddFinalizers, WorkerFrame
    <2>2. /\ RunKept /\ run'.finalizers = {"rbac", "templog"} /\ run'.stage = run.stage
      BY <2>1, FinalizersAdded DEF BaseInv
    <2>3. TypeOK'
      BY <2>1, <2>2 DEF BaseInv, TypeOK, RunKept
    <2>4. LaunchInv'
      BY <2>1, <2>2, LaunchKept DEF BaseInv, RunKept
    <2>5. run'.attempts = run.attempts /\ run'.deleting = run.deleting
      BY <2>2 DEF RunKept
    <2>6. FinalizerInv'
      BY <1>1, <2>1, <2>2, <2>5 DEF BaseInv, FinalizerInv, Gone
    <2>7. QED  BY <2>3, <2>4, <2>6 DEF BaseInv
  <1>3. CASE ClearTerminalLabel
    <2>1. /\ UNCHANGED <<grant, pod, launch, release, spoke, logs, faults>>
          /\ run' = [run EXCEPT !.label = FALSE]
      BY <1>3 DEF ClearTerminalLabel, WorkerFrame
    <2>2. Quiet /\ run'.stage = run.stage
      BY <2>1, LabelQuiet DEF BaseInv
    <2>3. QED  BY <2>1, <2>2, BaseByOthers DEF BaseInv, TypeOK
  <1>4. CASE handleStep \/ handleRevision
    <2>1. run.finalizers # {}
      BY <1>4 DEF handleStep, handleRevision, Revisable, HearsFeedback, Terminal,
                  BaseInv, FinalizerInv
    <2>2. "rbac" \in run.finalizers
      BY <1>1, <2>1 DEF BaseInv, FinalizerInv
    <2>3. /\ TypeOK' /\ LaunchInv' /\ run'.deleting = run.deleting
          /\ run'.attempts = run.attempts /\ run'.finalizers = run.finalizers
          /\ run'.stage = "running"
      BY <1>4, StepStarted DEF BaseInv
    <2>4. FinalizerInv'
      BY <1>1, <2>2, <2>3 DEF BaseInv, FinalizerInv, Gone
    <2>5. QED  BY <2>3, <2>4 DEF BaseInv
  <1>5. QED  BY <1>2, <1>3, <1>4

\* Users and the sweep mark a run, and remove one without finalizers.
LEMMA BaseOutside ==
    ASSUME BaseInv,
           sweepExpiredRuns \/ UserDeletes \/ GiveFeedback \/ DeadlinePasses
    PROVE  BaseInv'
  <1>1. UNCHANGED <<grant, pod, launch, release, spoke, logs, faults>>
    BY DEF sweepExpiredRuns, UserDeletes, GiveFeedback, DeadlinePasses, OutsideRun
  <1>2. CASE GiveFeedback \/ DeadlinePasses
    <2>1. \/ run' = [run EXCEPT !.feedback = TRUE, !.revisions = run.revisions + 1]
          \/ run' = [run EXCEPT !.ttl = "past"]
      BY <1>2 DEF GiveFeedback, DeadlinePasses, OutsideRun
    <2>2. Quiet /\ run'.stage = run.stage
      BY <2>1, FeedbackQuiet, DeadlineQuiet DEF BaseInv
    <2>3. QED  BY <1>1, <2>2, BaseByOthers DEF BaseInv, TypeOK
  <1>3. CASE sweepExpiredRuns \/ UserDeletes
    <2>1. run' = Deleted
      BY <1>3 DEF sweepExpiredRuns, UserDeletes, OutsideRun
    <2>2. /\ run' \in Run /\ run'.remote = run.remote /\ run'.launches = run.launches
          /\ run'.deleting = TRUE /\ run'.attempts = run.attempts
          /\ run'.finalizers = run.finalizers
          /\ run'.stage = IF run.finalizers = {} THEN "gone" ELSE run.stage
      BY <2>1, DeletionMarked DEF BaseInv
    <2>3. TypeOK'
      BY <1>1, <2>2 DEF BaseInv, TypeOK
    <2>4. LaunchInv'
      BY <1>1, <2>2, LaunchKept DEF BaseInv
    <2>5. FinalizerInv'
      BY <1>1, <2>2 DEF BaseInv, FinalizerInv, Gone
    <2>6. QED  BY <2>3, <2>4, <2>5 DEF BaseInv
  <1>4. QED  BY <1>2, <1>3

\* kubelet, garbage collector and spoke leave run and worker alone.
LEMMA BaseCluster ==
    ASSUME BaseInv, Cluster \/ SpokeChanges \/ \E s \in Steps : PodEnds(s)
    PROVE  BaseInv'
  <1>1. UNCHANGED <<run, launch, release, logs>>
    BY DEF Cluster, PodRemoved, Collect, SpokeChanges, PodEnds
  <1>2. Quiet /\ run'.stage = run.stage
    BY <1>1, RunUnchanged DEF BaseInv
  <1>3. ASSUME NEW s \in Steps, PodEnds(s) \/ PodRemoved(s)  PROVE BaseInv'
    <2>1. UNCHANGED <<grant, spoke, faults>>
      BY <1>3 DEF PodEnds, PodRemoved
    <2>2. pod' \in [Steps -> Pod]
      <3>1. CASE PodRemoved(s)
        BY <3>1, NothingTyped DEF PodRemoved, BaseInv, TypeOK
      <3>2. CASE PodEnds(s)
        <4> DEFINE p == [pod[s] EXCEPT !.ph = "ended"]
        <4>1. pod[s] \in Pod /\ pod[s].ph = "running"
          BY <3>2 DEF PodEnds, BaseInv, TypeOK
        <4>2. p \in Pod
          BY <4>1 DEF Pod, NoPod
        <4>3. pod' = [pod EXCEPT ![s] = p]
          BY <3>2 DEF PodEnds, BaseInv, TypeOK
        <4> HIDE DEF p
        <4>4. QED  BY <4>2, <4>3 DEF BaseInv, TypeOK
      <3>3. QED  BY <1>3, <3>1, <3>2
    <2>3. QED  BY <1>1, <1>2, <2>1, <2>2, BaseByOthers DEF BaseInv, TypeOK
  <1>4. ASSUME NEW s \in Steps, NEW k \in Kinds, Collect(s, k)  PROVE BaseInv'
    <2>1. UNCHANGED <<pod, spoke, faults>>
      BY <1>4 DEF Collect
    <2>2. grant' \in [Steps -> [Kinds -> Grant]]
      BY <1>4, NothingTyped DEF Collect, BaseInv, TypeOK
    <2>3. QED  BY <1>1, <1>2, <2>1, <2>2, BaseByOthers DEF BaseInv, TypeOK
  <1>5. CASE SpokeChanges
    <2>1. /\ UNCHANGED <<grant, pod>> /\ spoke' \in {"ready", "broken", "missing"}
          /\ Fault \/ NoFault
      BY <1>5 DEF SpokeChanges
    <2>2. faults' \in Nat
      BY <2>1, FaultTyped DEF BaseInv
    <2>3. QED  BY <1>1, <1>2, <2>1, <2>2, BaseByOthers DEF BaseInv, TypeOK
  <1>6. QED  BY <1>3, <1>4, <1>5 DEF Cluster

\* A crash leaves the run and its finalizers alone.
LEMMA BaseCrash ==
    ASSUME BaseInv, Crash  PROVE BaseInv'
  <1>1. /\ UNCHANGED <<run, grant, pod, spoke, logs>> /\ Fault
        /\ launch' = LaunchIdle /\ release' = ReleaseIdle
    BY DEF Crash
  <1>2. LaunchInv' /\ launch' \in Launch /\ launch'.pc = "idle"
    BY <1>1, LaunchIdles DEF LaunchIdle
  <1>3. TypeOK'
    BY <1>1, <1>2, FaultTyped, NothingTyped DEF BaseInv, TypeOK
  <1>4. Quiet /\ run'.stage = run.stage
    BY <1>1, RunUnchanged DEF BaseInv
  <1>5. QED  BY <1>1, <1>2, <1>3, <1>4, FinalizerKept DEF BaseInv

\* Nothing happens.
LEMMA BaseStutters ==
    ASSUME BaseInv, UNCHANGED vars  PROVE BaseInv'
  <1>1. UNCHANGED <<run, grant, pod, launch, release, spoke, logs, faults>>
    BY DEF vars
  <1>2. Quiet /\ run'.stage = run.stage
    BY <1>1, RunUnchanged DEF BaseInv
  <1>3. QED  BY <1>1, <1>2, BaseByOthers DEF BaseInv, TypeOK

\* Types, launches and finalizers are kept by every step ...
LEMMA BaseStep ==
    ASSUME BaseInv, [Next]_vars  PROVE BaseInv'
  <1>1. CASE Create
    BY <1>1, BaseSetup, BasePod, BaseRetry, BaseOwners DEF Create
  <1>2. CASE Worker
    BY <1>1, <1>2, BaseStart, BaseRecord, BaseTerminal, BaseDeletion DEF Worker
  <1>3. CASE Next
    BY <1>2, <1>3, BaseHandler, BaseOutside, BaseCluster, BaseCrash DEF Next
  <1>4. QED  BY <1>3, BaseStutters

\* ... and hold initially.
LEMMA BaseInit ==
    ASSUME Init  PROVE BaseInv
  <1>1. PICK spec \in Specs :
          run = [stage |-> "new", step |-> "analysis", remote |-> spec.remote,
                 executes |-> spec.executes, deleting |-> FALSE, finalizers |-> {},
                 ref |-> [s \in Steps |-> FALSE], noted |-> {}, attempts |-> 0,
                 ttl |-> "none", label |-> FALSE, feedback |-> FALSE, launches |-> 0,
                 revisions |-> 0]
    BY DEF Init
  <1>2. spec.remote \in BOOLEAN /\ spec.executes \in BOOLEAN
    BY AccessAssumption
  <1>3. [s \in Steps |-> FALSE] \in [Steps -> BOOLEAN]
    OBVIOUS
  <1>4. run \in Run
    BY <1>1, <1>2, <1>3 DEF Run, Stages, Steps
  <1>5. /\ run.stage = "new" /\ run.finalizers = {} /\ run.deleting = FALSE
        /\ run.attempts = 0
    BY <1>1
  <1>6. launch = LaunchIdle /\ launch.pc = "idle" /\ launch.tries = 1 /\ logs = FALSE
    BY DEF Init, LaunchIdle
  <1>7. TypeOK
    BY <1>4, NothingTyped DEF Init, TypeOK
  <1>8. LaunchInv
    BY <1>6 DEF LaunchInv, Launching
  <1>9. FinalizerInv
    BY <1>5, <1>6 DEF FinalizerInv, Gone, templogMaxCleanupAttempts
  <1>10. QED  BY <1>7, <1>8, <1>9 DEF BaseInv

\* Every object and every note of a process of a run in the cluster keeps its type, and
\* the next call of a launch is always one of the calls of Create.
THEOREM AccessTypeCorrect == Spec => []TypeOK
  <1>1. Init => BaseInv
    BY BaseInit
  <1>2. BaseInv /\ [Next]_vars => BaseInv'
    BY BaseStep
  <1>3. BaseInv => TypeOK
    BY DEF BaseInv
  <1>4. QED  BY <1>1, <1>2, <1>3, PTL DEF Spec

----------------------------------------------------------------------------
(* What a step does to the access and to the run.                           *)

\* A clean-up, a call of Create, or the Pod made the owner.
GrantMoves ==
    \/ Shrinks
    \/ \E k \in Kinds, owners \in {{}, {0}} : Grows(k, owners)
    \/ launch.pc = "own" /\ OwnersSet

\* The steps of Create before the Pod.
SetupStep ==
    \/ ensureSA \/ addReaderSubject \/ addReaderSubjectOnSpoke
    \/ ensureExecutionRBAC \/ createInputConfigMap \/ ensureResultRBAC
    \/ ensureSandboxKubeconfig \/ PersistNamespaces

\* What every step has access to.
Common == {"sa", "reader", "secret", "input", "result"}

\* Those of an execution grant it more, or write the annotation.
ExecutionStep ==
    /\ Doing("roles") \/ Doing("cluster") \/ Doing("note")
    /\ Advance \/ UNCHANGED launch
    /\ \/ UNCHANGED grant
       \/ \E k \in Kinds : k \in {"cluster"} \cup launch.option.ns /\ Grows(k, {})

\* The others make sure of one object.
CommonStep ==
    /\ Advance /\ run' = run
    /\ \E k \in Common :
         /\ Doing(k) /\ grant'[launch.step][k].there
         /\ \E owners \in {{}, {0}} : Grows(k, owners) \/ UNCHANGED grant

\* Each step is of one of these kinds.
LEMMA SetupMoves ==
    ASSUME BaseInv, SetupStep
    PROVE  /\ launch.pc = "setup" /\ UNCHANGED <<pod, release, spoke, logs, faults>>
           /\ run' = run \/ PersistNamespaces
           /\ ExecutionStep \/ CommonStep
  <1>1. /\ launch.pc = "setup" /\ UNCHANGED <<pod, release, spoke, logs, faults>>
        /\ run' = run \/ PersistNamespaces
    BY DEF SetupStep, ensureSA, addReaderSubject, addReaderSubjectOnSpoke,
           ensureExecutionRBAC, createInputConfigMap, ensureResultRBAC, Doing,
           ensureSandboxKubeconfig, PersistNamespaces, Ensure, WorkerFrame, NoFault
  <1>2. /\ launch.step \in Steps /\ grant \in [Steps -> [Kinds -> Grant]]
        /\ launch.option.ns \subseteq Namespaces
    BY DEF BaseInv, TypeOK, Launch
  <1>3. ASSUME NEW k \in Kinds, NEW owners \in {{}, {0}}, Grows(k, owners)
        PROVE  grant'[launch.step][k].there
    BY <1>2, <1>3 DEF Grows, NewGrant
  <1>4. ASSUME NEW k \in Objects, NEW owners \in {{}, {0}}, Ensure(k, owners),
               k \in {"input", "secret"} => owners = {0}
        PROVE  /\ Doing(k) /\ Advance /\ run' = run
               /\ Grows(k, owners) \/ UNCHANGED grant
               /\ grant'[launch.step][k].there
    <2>1. Doing(k) /\ Advance /\ run' = run
      BY <1>4 DEF Ensure
    <2>2. k \in Kinds /\ Call(k) = k
      BY DEF Kinds, Call
    <2>3. Grows(k, owners) \/ (UNCHANGED grant /\ grant[launch.step][k].there)
      BY <1>4, <2>2 DEF Ensure, Grows, SetGrant
    <2>4. QED  BY <1>3, <2>1, <2>2, <2>3
  <1>5. Common \subseteq Objects /\ "cluster" \in Objects /\ Objects \subseteq Kinds
        /\ Namespaces \subseteq Kinds
    BY DEF Common, Objects, Kinds
  <1>0. SUFFICES ExecutionStep \/ CommonStep
    BY <1>1
  <1>6. CASE ensureSA
    BY <1>4, <1>5, <1>6 DEF ensureSA, Common, CommonStep
  <1>7. CASE addReaderSubject \/ addReaderSubjectOnSpoke
    BY <1>4, <1>5, <1>7 DEF addReaderSubject, addReaderSubjectOnSpoke, Common, CommonStep
  <1>8. CASE createInputConfigMap
    BY <1>4, <1>5, <1>8 DEF createInputConfigMap, Common, CommonStep
  <1>9. CASE ensureResultRBAC
    BY <1>4, <1>5, <1>9 DEF ensureResultRBAC, Common, CommonStep
  <1>10. CASE ensureSandboxKubeconfig
    <2>1. "secret" \in Common /\ "secret" \in Kinds /\ Call("secret") = "secret"
      BY <1>5 DEF Common, Call
    <2>2. Grows("secret", {0}) /\ Doing("secret") /\ Advance /\ run' = run
      BY <1>10, <2>1 DEF ensureSandboxKubeconfig, Grows, SetGrant
    <2>3. grant'[launch.step]["secret"].there
      BY <1>3, <2>1, <2>2
    <2>4. QED  BY <2>1, <2>2, <2>3 DEF CommonStep
  <1>11. CASE PersistNamespaces
    BY <1>11 DEF PersistNamespaces, ExecutionStep
  <1>12. CASE ensureExecutionRBAC
    <2>1. CASE Ensure("cluster", {})
      BY <1>4, <1>5, <2>1 DEF ExecutionStep
    <2>2. ASSUME Doing("roles"), NEW n \in launch.option.ns, SetGrant(n, NewGrant(n, {})),
                 UNCHANGED launch
          PROVE  ExecutionStep
      <3>1. n \in Kinds /\ Call(n) = "roles" /\ n \notin {"input", "secret"}
        BY <1>2, <1>5 DEF Call, Objects
      <3>2. Grows(n, {})
        BY <2>2, <3>1 DEF Grows, SetGrant
      <3>3. QED  BY <2>2, <3>1, <3>2 DEF ExecutionStep
    <2>3. CASE (Doing("roles") \/ Doing("cluster")) /\ Advance /\ UNCHANGED grant
      BY <2>3 DEF ExecutionStep
    <2>4. QED  BY <1>12, <2>1, <2>2, <2>3 DEF ensureExecutionRBAC
  <1>13. QED
    BY <1>6, <1>7, <1>8, <1>9, <1>10, <1>11, <1>12 DEF SetupStep

\* Every step of every process moves the access in one of these ways.
LEMMA GrantMove ==
    ASSUME BaseInv, [Next]_vars  PROVE GrantMoves
  <1>1. ASSUME grant' = grant  PROVE GrantMoves
    BY <1>1, GrantStays DEF BaseInv, GrantMoves
  <1>2. ASSUME NEW gone, DeleteAll(gone) \/ DeleteFails(gone)  PROVE GrantMoves
    BY <1>2, DeleteShrinks DEF BaseInv, DeleteAll, DeleteFails, GrantMoves
  <1>3. CASE SetupStep
    <2>1. Common \subseteq Kinds
      BY DEF Common, Kinds, Objects
    <2>2. \/ grant' = grant
          \/ \E k \in Kinds, owners \in {{}, {0}} : Grows(k, owners)
      BY <1>3, <2>1, SetupMoves DEF ExecutionStep, CommonStep
    <2>3. QED  BY <1>1, <2>2 DEF GrantMoves
  <1>4. CASE createBarePod \/ waitForPodDeletion \/ spokeAccessForRun \/ SetOwnersFails
    BY <1>1, <1>4 DEF createBarePod, waitForPodDeletion, spokeAccessForRun, SetOwnersFails
  <1>5. CASE cleanupOnCreateFailure
    BY <1>5, DeleteShrinks DEF BaseInv, cleanupOnCreateFailure, GrantMoves
  <1>6. CASE SetOwners
    BY <1>6, SetOwnersTyped DEF BaseInv, GrantMoves, SetOwners
  <1>7. CASE \/ patchSandboxInfo \/ failStep \/ AddFinalizers \/ ClearTerminalLabel
             \/ StampTerminalTime \/ LabelTerminalRun \/ handleTemplogCleanup
    BY <1>1, <1>7 DEF patchSandboxInfo, failStep, AddFinalizers, ClearTerminalLabel,
       StampTerminalTime, LabelTerminalRun, handleTemplogCleanup
  <1>8. CASE handleStep \/ handleRevision
    BY <1>1, <1>8, StepStarted DEF BaseInv
  <1>9. CASE handleFailed
    BY <1>2, <1>9 DEF handleFailed
  <1>10. CASE handleTerminalCleanup \/ ReleaseDeleted
    BY <1>1, <1>10, ReleaseTyped DEF BaseInv, handleTerminalCleanup, ReleaseDeleted,
       GrantMoves
  <1>11. CASE Handler
    <2>1. CASE ReleaseGrants
      BY <1>2, <2>1 DEF ReleaseGrants
    <2>2. CASE releaseBarePod \/ \E s \in Steps : completeStep(s)
      BY <1>1, <2>2 DEF releaseBarePod, completeStep
    <2>3. QED  BY <1>11, <2>1, <2>2 DEF Handler
  <1>12. CASE sweepExpiredRuns \/ UserDeletes \/ GiveFeedback \/ DeadlinePasses
    BY <1>1, <1>12
       DEF sweepExpiredRuns, UserDeletes, GiveFeedback, DeadlinePasses, OutsideRun
  <1>13. CASE SpokeChanges \/ Crash \/ \E s \in Steps : PodEnds(s)
    BY <1>1, <1>13 DEF SpokeChanges, Crash, PodEnds
  <1>14. ASSUME NEW s \in Steps, PodRemoved(s)  PROVE GrantMoves
    BY <1>1, <1>14 DEF PodRemoved
  <1>15. ASSUME NEW s \in Steps, NEW k \in Kinds, Collect(s, k)  PROVE GrantMoves
    <2>1. Shrinks
      BY <1>15 DEF BaseInv, TypeOK, Collect, Shrinks
    <2>2. QED  BY <2>1 DEF GrantMoves
  <1>16. CASE UNCHANGED vars
    BY <1>1, <1>16 DEF vars
  <1>17. CASE Worker
    BY <1>3, <1>4, <1>5, <1>6, <1>7, <1>8, <1>9, <1>10, <1>17
       DEF Worker, Create, SetupStep
  <1>18. QED
    BY <1>11, <1>12, <1>13, <1>14, <1>15, <1>16, <1>17 DEF Next, Cluster

\* The cluster is chosen once; the finalizer goes with a release, the annotation comes
\* with its call, the analysis is recorded by its launch and stays recorded.
RunMoves ==
    /\ run'.remote = run.remote
    /\ "rbac" \notin run'.finalizers =>
         \/ "rbac" \notin run.finalizers
         \/ ReleaseSandboxes /\ SpokeAllows /\ spoke' = spoke /\ run'.noted = run.noted
            /\ launch.pc = "idle" /\ launch' = launch
    /\ \/ run'.noted = run.noted
       \/ Doing("note") /\ PersistNamespaces
    /\ \/ run'.ref["analysis"] = run.ref["analysis"]
       \/ run'.ref["analysis"]
          /\ launch.pc = "ref" /\ launch.step = "analysis" /\ launch' = LaunchIdle
    /\ spoke = "missing" => spoke' = "missing"

\* A quiet step moves nothing that counts.
LEMMA QuietMoves ==
    ASSUME Quiet, spoke' = spoke \/ SpokeChanges  PROVE RunMoves
  BY DEF Quiet, RunKept, RunMoves, SpokeChanges

\* Every step of every process moves the run in one of these ways.
LEMMA RunMove ==
    ASSUME BaseInv, [Next]_vars  PROVE RunMoves
  <1>1. ASSUME run' = run, spoke' = spoke \/ SpokeChanges  PROVE RunMoves
    BY <1>1, RunUnchanged, QuietMoves DEF BaseInv
  <1>2. CASE SetupStep
    <2>1. CASE run' = run
      BY <1>1, <1>2, <2>1, SetupMoves
    <2>2. CASE PersistNamespaces
      <3>1. /\ run' = [run EXCEPT !.noted = Annotate(run.noted)] /\ Doing("note")
            /\ spoke' = spoke
        BY <2>2 DEF PersistNamespaces, WorkerFrame
      <3>2. /\ run'.remote = run.remote
            /\ run'.finalizers = run.finalizers /\ run'.ref = run.ref
        BY <3>1, NamespacesNoted DEF BaseInv
      <3>3. QED  BY <2>2, <3>1, <3>2 DEF RunMoves
    <2>3. QED  BY <1>2, <2>1, <2>2, SetupMoves
  <1>3. CASE \/ createBarePod \/ waitForPodDeletion \/ spokeAccessForRun \/ SetOwnersFails
             \/ cleanupOnCreateFailure \/ SetOwners \/ handleFailed \/ handleTerminalCleanup
    BY <1>1, <1>3 DEF createBarePod, waitForPodDeletion, spokeAccessForRun, SetOwnersFails,
       cleanupOnCreateFailure, SetOwners, handleFailed, handleTerminalCleanup, WorkerFrame
  <1>4. CASE patchSandboxInfo
    <2>1. spoke' = spoke /\ launch.pc = "ref" /\ launch.step \in Steps
      BY <1>4 DEF patchSandboxInfo, WorkerFrame, BaseInv, TypeOK, Launch
    <2>2. CASE run' = run
      BY <1>1, <2>1, <2>2
    <2>3. CASE run' = [run EXCEPT !.ref[launch.step] = TRUE] /\ launch' = LaunchIdle
      <3>1. /\ RunKept /\ run'.finalizers = run.finalizers /\ run'.ref[launch.step] = TRUE
            /\ \A t \in Steps : t # launch.step => run'.ref[t] = run.ref[t]
        BY <2>1, <2>3, SandboxRecorded DEF BaseInv
      <3>2. "analysis" \in Steps
        BY DEF Steps
      <3>3. QED  BY <2>1, <2>3, <3>1, <3>2 DEF RunMoves, RunKept
    <2>4. QED  BY <1>4, <2>2, <2>3 DEF patchSandboxInfo
  <1>5. CASE failStep \/ \E s \in Steps : completeStep(s)
    <2>1. spoke' = spoke
      BY <1>5 DEF failStep, completeStep, WorkerFrame
    <2>2. run' = run \/ \E st \in {"proposed", "done", "failed"} : run' = [run EXCEPT !.stage = st]
      BY <1>5 DEF failStep, completeStep
    <2>3. QED  BY <1>1, <2>1, <2>2, SettledQuiet, QuietMoves DEF BaseInv
  <1>6. CASE AddFinalizers
    <2>1. run' = [run EXCEPT !.finalizers = {"rbac", "templog"}] /\ spoke' = spoke
      BY <1>6 DEF AddFinalizers, WorkerFrame
    <2>2. /\ RunKept /\ run'.finalizers = {"rbac", "templog"} /\ run'.ref = run.ref
      BY <2>1, FinalizersAdded DEF BaseInv
    <2>3. QED  BY <2>1, <2>2 DEF RunMoves, RunKept
  <1>7. CASE ClearTerminalLabel \/ LabelTerminalRun
    <2>1. /\ run' = run \/ \E b \in BOOLEAN : run' = [run EXCEPT !.label = b]
          /\ spoke' = spoke
      BY <1>7 DEF ClearTerminalLabel, LabelTerminalRun, WorkerFrame
    <2>2. QED  BY <1>1, <2>1, LabelQuiet, QuietMoves DEF BaseInv
  <1>8. CASE StampTerminalTime
    <2> DEFINE t == IF run.ttl = "none" THEN "set" ELSE run.ttl
    <2>1. (run' = run \/ run' = [run EXCEPT !.ttl = t]) /\ spoke' = spoke
      BY <1>8 DEF StampTerminalTime, WorkerFrame
    <2>2. t \in {"none", "set", "past"}
      BY DEF BaseInv, TypeOK, Run
    <2> HIDE DEF t
    <2>3. QED  BY <1>1, <2>1, <2>2, DeadlineQuiet, QuietMoves DEF BaseInv
  <1>9. CASE handleStep \/ handleRevision
    <2>1. /\ run'.remote = run.remote /\ run'.noted = run.noted /\ spoke' = spoke
          /\ run'.finalizers = run.finalizers /\ run'.ref["analysis"] = run.ref["analysis"]
      BY <1>9, StepStarted DEF BaseInv
    <2>2. QED  BY <2>1 DEF RunMoves
  <1>10. CASE ReleaseDeleted
    <2>1. spoke' = spoke /\ launch.pc = "idle" /\ launch' = launch
      BY <1>10 DEF ReleaseDeleted, WorkerFrame, Finalizing
    <2>2. CASE run' = run
      BY <1>1, <2>1, <2>2
    <2>3. CASE ReleaseSandboxes /\ SpokeAllows /\ Without("rbac")
      <3>1. RunKept /\ run'.ref = run.ref
        BY <2>3, FinalizerRemoved DEF BaseInv
      <3>2. QED  BY <2>1, <2>3, <3>1 DEF RunMoves, RunKept
    <2>4. QED  BY <1>10, <2>2, <2>3 DEF ReleaseDeleted
  <1>11. CASE handleTemplogCleanup
    <2>1. spoke' = spoke /\ run.finalizers = {"templog"}
      BY <1>11 DEF handleTemplogCleanup
    <2>2. CASE Without("templog")
      <3>1. RunKept /\ run'.ref = run.ref
        BY <2>2, FinalizerRemoved DEF BaseInv
      <3>2. QED  BY <2>1, <3>1 DEF RunMoves, RunKept
    <2>3. CASE run' = [run EXCEPT !.attempts = run.attempts + 1]
      <3>1. /\ run'.remote = run.remote /\ run'.noted = run.noted
            /\ run'.finalizers = run.finalizers /\ run'.ref = run.ref
        BY <2>3, AttemptCounted DEF BaseInv
      <3>2. QED  BY <2>1, <3>1 DEF RunMoves
    <2>4. QED  BY <1>11, <2>2, <2>3 DEF handleTemplogCleanup
  <1>12. CASE sweepExpiredRuns \/ UserDeletes
    <2>1. run' = Deleted /\ spoke' = spoke
      BY <1>12 DEF sweepExpiredRuns, UserDeletes, OutsideRun
    <2>2. /\ run'.remote = run.remote /\ run'.noted = run.noted
          /\ run'.finalizers = run.finalizers /\ run'.ref = run.ref
      BY <2>1, DeletionMarked DEF BaseInv
    <2>3. QED  BY <2>1, <2>2 DEF RunMoves
  <1>13. CASE GiveFeedback \/ DeadlinePasses
    <2>1. /\ \/ run' = [run EXCEPT !.feedback = TRUE, !.revisions = run.revisions + 1]
             \/ run' = [run EXCEPT !.ttl = "past"]
          /\ spoke' = spoke
      BY <1>13 DEF GiveFeedback, DeadlinePasses, OutsideRun
    <2>2. QED  BY <2>1, FeedbackQuiet, DeadlineQuiet, QuietMoves DEF BaseInv
  <1>14. CASE \/ releaseBarePod \/ ReleaseGrants \/ Cluster \/ SpokeChanges \/ Crash
              \/ \E s \in Steps : PodEnds(s)
    BY <1>1, <1>14 DEF releaseBarePod, ReleaseGrants, HandlerFrame, Cluster, PodRemoved,
       Collect, SpokeChanges, Crash, PodEnds
  <1>15. CASE UNCHANGED vars
    BY <1>1, <1>15 DEF vars
  <1>16. CASE Worker
    BY <1>2, <1>3, <1>4, <1>5, <1>6, <1>7, <1>8, <1>9, <1>10, <1>11, <1>16
       DEF Worker, Create, SetupStep
  <1>17. QED
    BY <1>5, <1>12, <1>13, <1>14, <1>15, <1>16 DEF Next, Handler

----------------------------------------------------------------------------
(* What the finalizer leaves.                                               *)

\* What a clean-up has left was there before.
LEMMA ShrinkFacts ==
    ASSUME TypeOK, Shrinks, NEW s \in Steps, NEW k \in Kinds, grant'[s][k].there
    PROVE  grant[s][k].there /\ grant'[s][k] = grant[s][k]
  <1>1. Absent.there = FALSE
    BY DEF Absent
  <1>2. QED  BY <1>1 DEF Shrinks

\* A call of Create changes one object.
LEMMA GrowFacts ==
    ASSUME TypeOK, NEW k \in Kinds, NEW owners, Grows(k, owners)
    PROVE  /\ launch.step \in Steps /\ launch.pc = "setup"
           /\ Setup(launch.step)[launch.at] = Call(k)
           /\ grant'[launch.step][k].there /\ grant'[launch.step][k].owners = owners
           /\ \A t \in Steps, j \in Kinds :
                t # launch.step \/ j # k => grant'[t][j] = grant[t][j]
  <1>1. launch.step \in Steps
    BY DEF TypeOK, Launch
  <1>2. launch.pc = "setup" /\ Setup(launch.step)[launch.at] = Call(k)
    BY DEF Grows, Doing
  <1> DEFINE new == NewGrant(k, owners)
  <1>3. grant' = [grant EXCEPT ![launch.step][k] = new]
    BY DEF Grows
  <1>4. new.there /\ new.owners = owners
    BY DEF NewGrant
  <1> HIDE DEF new
  <1>5. /\ grant'[launch.step][k] = new
        /\ \A t \in Steps, j \in Kinds :
             t # launch.step \/ j # k => grant'[t][j] = grant[t][j]
    BY <1>1, <1>3 DEF TypeOK
  <1>6. QED  BY <1>1, <1>2, <1>4, <1>5

\* The finalizer "rbac" is only given up once the roles it stands for are gone.
LEMMA GrantInvStep ==
    ASSUME BaseInv, GrantInv, [Next]_vars  PROVE GrantInv'
  <1>1. GrantMoves /\ RunMoves
    BY GrantMove, RunMove
  <1>2. TypeOK /\ "analysis" \in Steps /\ "execution" \in Steps
        /\ {"cluster", "input", "secret"} \subseteq Kinds /\ Namespaces \subseteq Kinds
        /\ run.noted \subseteq Namespaces
    BY DEF BaseInv, TypeOK, Run, Steps, Kinds, Objects
  <1>3. ASSUME NEW k \in {"cluster"} \cup Namespaces  PROVE ~grant'["analysis"][k].there
    <2>1. ~grant["analysis"][k].there
      BY <1>3 DEF GrantInv
    <2>2. CASE Shrinks
      BY <1>2, <1>3, <2>1, <2>2, ShrinkFacts
    <2>3. ASSUME NEW j \in Kinds, NEW owners \in {{}, {0}}, Grows(j, owners)
          PROVE  ~grant'["analysis"][k].there
      <3>1. CASE launch.step = "analysis"
        <4>1. launch.pc = "setup" /\ Setup("analysis")[launch.at] = Call(j)
          BY <1>2, <2>3, <3>1, GrowFacts
        <4>2. launch.at \in 1..Len(Setup("analysis"))
          BY <3>1, <4>1 DEF BaseInv, LaunchInv
        <4>3. j # k
          <5>1. Call(k) \in {"roles", "cluster"}
            BY <1>3 DEF Call
          <5>2. Call(j) \notin {"roles", "cluster"}
            BY <4>1, <4>2, SetupWithoutRoles
          <5>3. QED  BY <5>1, <5>2
        <4>4. grant'["analysis"][k] = grant["analysis"][k]
          BY <1>2, <1>3, <2>3, <4>3, GrowFacts
        <4>5. QED  BY <2>1, <4>4
      <3>2. CASE launch.step # "analysis"
        <4>1. grant'["analysis"][k] = grant["analysis"][k]
          BY <1>2, <1>3, <2>3, <3>2, GrowFacts
        <4>2. QED  BY <2>1, <4>1
      <3>3. QED  BY <3>1, <3>2
    <2>4. CASE OwnersSet
      <3>1. grant'["analysis"][k].there = grant["analysis"][k].there
        BY <1>2, <1>3, <2>4 DEF OwnersSet
      <3>2. QED  BY <2>1, <3>1
    <2>5. QED  BY <1>1, <2>2, <2>3, <2>4 DEF GrantMoves
  <1>4. ASSUME NEW s \in Steps, NEW k \in {"input", "secret"}, grant'[s][k].there
        PROVE  grant'[s][k].owners # {}
    <2>1. k \in Kinds /\ (grant[s][k].there => grant[s][k].owners # {})
      BY <1>2, <1>4 DEF GrantInv
    <2>2. CASE Shrinks
      BY <1>2, <1>4, <2>1, <2>2, ShrinkFacts
    <2>3. ASSUME NEW j \in Kinds, NEW owners \in {{}, {0}}, Grows(j, owners)
          PROVE  grant'[s][k].owners # {}
      <3>1. CASE s = launch.step /\ k = j
        <4>1. grant'[s][k].owners = owners
          BY <1>2, <2>3, <3>1, GrowFacts
        <4>2. owners = {0}
          BY <1>4, <2>3, <3>1 DEF Grows
        <4>3. QED  BY <4>1, <4>2
      <3>2. CASE s # launch.step \/ k # j
        <4>1. grant'[s][k] = grant[s][k]
          BY <1>2, <2>1, <2>3, <3>2, GrowFacts
        <4>2. QED  BY <1>4, <2>1, <4>1
      <3>3. QED  BY <3>1, <3>2
    <2>4. CASE OwnersSet
      <3>1. /\ grant'[s][k].there = grant[s][k].there
            /\ grant'[s][k].owners = grant[s][k].owners \/ grant'[s][k].owners # {}
        BY <2>1, <2>4 DEF OwnersSet
      <3>2. QED  BY <1>4, <2>1, <3>1
    <2>5. QED  BY <1>1, <2>2, <2>3, <2>4 DEF GrantMoves
  <1>5. ASSUME "rbac" \notin run'.finalizers, spoke' # "missing"
        PROVE  \A k \in {"cluster"} \cup run'.noted : ~grant'["execution"][k].there
    <2>1. spoke # "missing"
      BY <1>1, <1>5 DEF RunMoves
    <2>2. CASE "rbac" \notin run.finalizers
      <3>1. launch.pc = "idle"
        BY <2>2 DEF BaseInv, FinalizerInv
      <3>2. Shrinks /\ run'.noted = run.noted
        BY <1>1, <3>1 DEF GrantMoves, RunMoves, Grows, Doing
      <3>3. \A k \in {"cluster"} \cup run.noted : ~grant["execution"][k].there
        BY <2>1, <2>2 DEF GrantInv
      <3>4. \A k \in {"cluster"} \cup run.noted :
               grant'["execution"][k].there => grant["execution"][k].there
        BY <1>2, <3>2, ShrinkFacts
      <3>5. QED  BY <3>2, <3>3, <3>4
    <2>3. CASE ReleaseSandboxes /\ SpokeAllows /\ run'.noted = run.noted
      <3>1. Reachable
        BY <2>1, <2>3 DEF SpokeAllows, Reachable, BaseInv, TypeOK
      <3>2. {"cluster"} \cup run.noted \subseteq ReleasedOfAll["execution"]
        BY <1>2, <3>1 DEF ReleasedOfAll, Released, cleanupStepRBAC, cleanupExecutionRBAC
      <3>3. \A k \in Kinds : k \in ReleasedOfAll["execution"] =>
                grant'["execution"][k] = Absent
        <4> HIDE DEF ReleasedOfAll
        <4>1. QED  BY <1>2, <2>3 DEF ReleaseSandboxes, DeleteAll, Delete
      <3>4. QED  BY <1>2, <2>3, <3>2, <3>3 DEF Absent
    <2>4. QED  BY <1>1, <1>5, <2>2, <2>3 DEF RunMoves
  <1>6. QED  BY <1>3, <1>4, <1>5 DEF GrantInv

----------------------------------------------------------------------------
(* Without a fault.                                                         *)

\* Only a fault counts, and it counts down.
LEMMA FaultsFall ==
    ASSUME TypeOK, [Next]_vars  PROVE faults' = faults \/ faults' < faults
  <1>1. Fault \/ NoFault => faults' = faults \/ faults' < faults
    BY DEF TypeOK, Fault, NoFault
  <1>2. CASE Create
    BY <1>1, <1>2 DEF Create, ensureSA, addReaderSubject, addReaderSubjectOnSpoke,
       ensureExecutionRBAC, createInputConfigMap, ensureResultRBAC, Ensure,
       ensureSandboxKubeconfig, PersistNamespaces, createBarePod, waitForPodDeletion,
       spokeAccessForRun, cleanupOnCreateFailure, SetOwners, SetOwnersFails, NoFault
  <1>3. CASE handleStep \/ handleRevision
    BY <1>1, <1>3, StepStarted DEF NoFault
  <1>4. CASE handleTerminalCleanup \/ ReleaseDeleted
    BY <1>1, <1>4 DEF handleTerminalCleanup, ReleaseDeleted, ReleaseSandboxes,
       ReleaseSandboxesFails, DeleteAll, DeleteFails, NoFault
  <1>5. CASE handleFailed \/ ReleaseGrants
    BY <1>1, <1>5 DEF handleFailed, ReleaseGrants, DeleteAll, DeleteFails
  <1>6. CASE \/ AddFinalizers \/ ClearTerminalLabel \/ patchSandboxInfo \/ failStep
             \/ StampTerminalTime \/ LabelTerminalRun \/ handleTemplogCleanup
             \/ releaseBarePod \/ \E s \in Steps : completeStep(s)
    BY <1>1, <1>6 DEF AddFinalizers, ClearTerminalLabel, patchSandboxInfo, failStep,
       StampTerminalTime, LabelTerminalRun, handleTemplogCleanup, releaseBarePod,
       completeStep, NoFault
  <1>7. CASE \/ sweepExpiredRuns \/ UserDeletes \/ GiveFeedback \/ DeadlinePasses \/ Cluster
             \/ SpokeChanges \/ Crash \/ \E s \in Steps : PodEnds(s)
    BY <1>1, <1>7 DEF sweepExpiredRuns, UserDeletes, GiveFeedback, DeadlinePasses,
       OutsideRun, Cluster, PodRemoved, Collect, SpokeChanges, Crash, PodEnds, NoFault
  <1>8. CASE UNCHANGED vars
    BY <1>8 DEF vars
  <1>9. CASE Worker
    BY <1>2, <1>3, <1>4, <1>5, <1>6, <1>9 DEF Worker
  <1>10. QED
    BY <1>5, <1>6, <1>7, <1>8, <1>9 DEF Next, Handler

\* A step that is not a fault.
Sound == faults' = faults

\* Such a step has not taken a fault.
LEMMA SoundIsFaultless ==
    ASSUME TypeOK, Sound  PROVE ~Fault
  BY DEF TypeOK, Sound, Fault

\* The steps of all but the worker.
Others ==
    \/ Handler \/ sweepExpiredRuns \/ Cluster \/ UserDeletes \/ GiveFeedback
    \/ DeadlinePasses \/ SpokeChanges \/ \E s \in Steps : PodEnds(s)
    \/ UNCHANGED vars

\* Without a fault there is no crash.
LEMMA SoundCases ==
    ASSUME TypeOK, [Next]_vars, Sound  PROVE Worker \/ Others
  BY SoundIsFaultless DEF Next, Others, Crash

\* The launch is the worker's own.
LEMMA OthersLeaveLaunch ==
    ASSUME Others  PROVE launch' = launch
  BY DEF Others, Handler, releaseBarePod, ReleaseGrants, HandlerFrame, completeStep,
     sweepExpiredRuns, UserDeletes, GiveFeedback, DeadlinePasses, OutsideRun, Cluster,
     PodRemoved, Collect, SpokeChanges, PodEnds, vars

\* The worker during the calls of Create.
LEMMA SetupContinues ==
    ASSUME TypeOK, Worker, Sound, launch.pc = "setup", spoke = "ready"
    PROVE  \/ SetupStep \/ createBarePod
           \/ /\ Doing("pod") /\ ~grant[launch.step]["sa"].there /\ launch'.pc = "fail"
              /\ launch'.step = launch.step /\ run' = run
              /\ Shrinks /\ ~grant'[launch.step]["result"].there
  <1>1. ~Fault
    BY SoundIsFaultless
  <1>2. Reachable
    BY DEF Reachable
  <1>3. Create
    BY DEF Worker, AddFinalizers, handleStep, ClearTerminalLabel, handleRevision,
       patchSandboxInfo, failStep, handleFailed, handleTerminalCleanup, StampTerminalTime,
       LabelTerminalRun, ReleaseDeleted, handleTemplogCleanup, Reconciling, Finalizing
  <1>4. SetupStep \/ createBarePod \/ cleanupOnCreateFailure
    BY <1>1, <1>2, <1>3 DEF Create, SetupStep, spokeAccessForRun, waitForPodDeletion,
       SetOwners, SetOwnersFails
  <1>5. CASE cleanupOnCreateFailure
    <2>1. /\ Doing("pod") /\ ~grant[launch.step]["sa"].there
          /\ launch' = [launch EXCEPT !.pc = "fail"]
      BY <1>1, <1>5 DEF cleanupOnCreateFailure
    <2>2. launch'.pc = "fail" /\ launch'.step = launch.step
      BY <2>1 DEF TypeOK, Launch
    <2> DEFINE gone == Only(launch.step, OnCreateFailure(launch.step))
    <2>3. Delete(gone, {}) /\ run' = run
      BY <1>1, <1>5 DEF cleanupOnCreateFailure, Sound
    <2>4. "result" \in gone[launch.step] /\ launch.step \in Steps /\ "result" \in Kinds
      BY DEF Only, OnCreateFailure, TypeOK, Launch, Kinds, Objects
    <2> HIDE DEF gone
    <2>5. Shrinks
      BY <2>3, DeleteShrinks
    <2>6. grant'[launch.step]["result"] = Absent
      BY <2>3, <2>4 DEF Delete
    <2>7. ~grant'[launch.step]["result"].there
      BY <2>6 DEF Absent
    <2>8. QED  BY <2>1, <2>2, <2>3, <2>5, <2>7
  <1>6. QED  BY <1>4, <1>5

\* Without a fault the finalizer goes when the access is gone.
LEMMA AccessRemovedStep ==
    ASSUME BaseInv, GrantInv, [Next]_vars, Sound, spoke = "ready",
           AccessRemoved, FirstLaunch
    PROVE  AccessRemoved'
  <1>1. GrantMoves /\ RunMoves /\ TypeOK
    BY GrantMove, RunMove DEF BaseInv
  <1>2. SUFFICES ASSUME "rbac" \notin run'.finalizers, NEW s \in Steps,
                        NEW k \in {"sa", "reader", "cluster"} \cup run'.noted
                 PROVE  ~grant'[s][k].there
    BY DEF AccessRemoved
  <1>3. k \in Kinds /\ k \in {"sa", "reader", "cluster"} \cup run.noted
        /\ run.noted \subseteq Namespaces
    <2>1. run'.noted = run.noted
      BY <1>1, <1>2 DEF RunMoves, BaseInv, FinalizerInv, Doing
    <2>2. run.noted \subseteq Namespaces
      BY <1>1 DEF TypeOK, Run
    <2>3. QED  BY <2>1, <2>2 DEF Kinds, Objects
  <1>4. CASE "rbac" \notin run.finalizers
    <2>1. launch.pc = "idle"
      BY <1>4 DEF BaseInv, FinalizerInv
    <2>2. Shrinks
      BY <1>1, <2>1 DEF GrantMoves, Grows, Doing
    <2>3. ~grant[s][k].there
      BY <1>3, <1>4 DEF AccessRemoved
    <2>4. QED  BY <1>1, <1>3, <2>2, <2>3, ShrinkFacts
  <1>5. CASE ReleaseSandboxes /\ launch.pc = "idle"
    <2>1. \A j \in ReleasedOfAll[s] : j \in Kinds => grant'[s][j] = Absent
      <3> HIDE DEF ReleasedOfAll
      <3>1. QED  BY <1>5 DEF ReleaseSandboxes, DeleteAll, Delete
    <2>2. Shrinks
      BY <1>1, <1>5, ReleaseTyped
    <2>3. Absent.there = FALSE
      BY DEF Absent
    <2>4. ASSUME k \in ReleasedOfAll[s]  PROVE ~grant'[s][k].there
      BY <1>3, <2>1, <2>3, <2>4
    <2>5. ASSUME ~grant[s][k].there  PROVE ~grant'[s][k].there
      BY <1>1, <1>3, <2>2, <2>5, ShrinkFacts
    <2>6. Reachable
      BY DEF Reachable
    <2>7. CASE s = "execution"
      <3>1. k \in cleanupStepRBAC(s, run.noted, Reachable)
        BY <1>3, <2>6, <2>7 DEF cleanupStepRBAC, cleanupExecutionRBAC,
           removeReaderSubject, removeReaderSubjectOnSpoke
      <3>2. ReleasedOfAll[s] \in {Released(s), cleanupStepRBAC(s, run.noted, Reachable)}
        BY <2>7 DEF ReleasedOfAll
      <3>3. k \in ReleasedOfAll[s]
        BY <3>1, <3>2 DEF Released
      <3>4. QED  BY <2>4, <3>3
    <2>8. CASE s = "analysis"
      <3>1. CASE k \in {"cluster"} \cup Namespaces
        BY <2>5, <2>8, <3>1 DEF GrantInv
      <3>2. CASE k \in {"sa", "reader"} /\ run.ref["analysis"]
        <4>1. k \in cleanupStepRBAC(s, run.noted, Reachable)
          BY <2>6, <3>2 DEF cleanupStepRBAC, removeReaderSubject,
             removeReaderSubjectOnSpoke
        <4>2. ReleasedOfAll[s] = Released(s)
          BY <2>8, <3>2 DEF ReleasedOfAll
        <4>3. k \in ReleasedOfAll[s]
          BY <4>1, <4>2 DEF Released
        <4>4. QED  BY <2>4, <4>3
      <3>3. CASE ~run.ref["analysis"]
        <4>1. NotBegun
          BY <1>5, <3>3 DEF FirstLaunch, SettingUp, Owning, Recording
        <4>2. ~grant[s][k].there
          BY <1>3, <2>8, <4>1 DEF NotBegun, Got
        <4>3. QED  BY <2>5, <4>2
      <3>4. QED  BY <1>3, <3>1, <3>2, <3>3
    <2>9. QED  BY <2>7, <2>8 DEF Steps
  <1>6. QED  BY <1>1, <1>2, <1>4, <1>5 DEF RunMoves

\* A Pod comes from its launch only.
LEMMA PodMove ==
    ASSUME BaseInv, [Next]_vars, NEW s \in Steps, pod[s] = NoPod
    PROVE  pod'[s] = NoPod \/ (createBarePod /\ launch.step = s)
  <1>1. Terminating(NoPod) = NoPod /\ NoPod.uid = 0 /\ NoPod.ph = "none"
    BY DEF Terminating, NoPod
  <1>2. pod \in [Steps -> Pod] /\ launch.step \in Steps /\ release.step \in Steps
    BY DEF BaseInv, TypeOK, Launch, Release
  <1>3. ASSUME ReleaseSandboxes \/ ReleaseSandboxesFails  PROVE pod'[s] = NoPod
    <2> HIDE DEF Terminating, NoPod
    <2>1. \/ pod' = [t \in Steps |-> IF run.ref[t] THEN Terminating(pod[t]) ELSE pod[t]]
          \/ \E u \in Steps : pod' = [t \in Steps |-> IF run.ref[t] /\ t # u
                                        THEN Terminating(pod[t]) ELSE pod[t]]
      BY <1>3 DEF ReleaseSandboxes, ReleaseSandboxesFails
    <2>2. QED  BY <1>1, <2>1
  <1>4. CASE createBarePod
    <2>1. pod' = pod \/ \E p : pod' = [pod EXCEPT ![launch.step] = p]
      BY <1>4 DEF createBarePod
    <2>2. QED  BY <1>2, <1>4, <2>1
  <1>5. CASE SetupStep
    BY <1>5, SetupMoves
  <1>6. CASE \/ waitForPodDeletion \/ spokeAccessForRun \/ SetOwnersFails
             \/ cleanupOnCreateFailure \/ SetOwners \/ patchSandboxInfo \/ failStep
             \/ AddFinalizers \/ ClearTerminalLabel \/ StampTerminalTime
             \/ LabelTerminalRun \/ handleTemplogCleanup \/ handleFailed
    BY <1>6 DEF waitForPodDeletion, spokeAccessForRun, SetOwnersFails,
       cleanupOnCreateFailure, SetOwners, patchSandboxInfo, failStep, AddFinalizers,
       ClearTerminalLabel, StampTerminalTime, LabelTerminalRun, handleTemplogCleanup,
       handleFailed
  <1>7. CASE handleStep \/ handleRevision
    BY <1>7, StepStarted DEF BaseInv
  <1>8. CASE handleTerminalCleanup \/ ReleaseDeleted
    BY <1>3, <1>8 DEF handleTerminalCleanup, ReleaseDeleted
  <1>9. CASE Handler
    <2>1. CASE releaseBarePod
      <3>1. pod' = pod
            \/ pod' = [pod EXCEPT ![release.step] = Terminating(pod[release.step])]
        BY <2>1 DEF releaseBarePod
      <3> HIDE DEF Terminating, NoPod
      <3>2. QED  BY <1>1, <1>2, <3>1
    <2>2. CASE ReleaseGrants \/ \E t \in Steps : completeStep(t)
      BY <2>2 DEF ReleaseGrants, completeStep
    <2>3. QED  BY <1>9, <2>1, <2>2 DEF Handler
  <1>10. ASSUME NEW t \in Steps, PodEnds(t)  PROVE pod'[s] = NoPod
    <2>1. pod[t].ph = "running" /\ \E p : pod' = [pod EXCEPT ![t] = p]
      BY <1>2, <1>10 DEF PodEnds
    <2>2. t # s
      BY <1>1, <2>1
    <2>3. QED  BY <1>2, <2>1, <2>2
  <1>11. ASSUME NEW t \in Steps, PodRemoved(t)  PROVE pod'[s] = NoPod
    <2> HIDE DEF NoPod
    <2>1. QED  BY <1>2, <1>11 DEF PodRemoved
  <1>12. ASSUME NEW t \in Steps, NEW k \in Kinds, Collect(t, k)  PROVE pod'[s] = NoPod
    BY <1>12 DEF Collect
  <1>13. CASE \/ sweepExpiredRuns \/ UserDeletes \/ GiveFeedback \/ DeadlinePasses
              \/ SpokeChanges \/ Crash \/ UNCHANGED vars
    BY <1>13 DEF sweepExpiredRuns, UserDeletes, GiveFeedback, DeadlinePasses, OutsideRun,
       SpokeChanges, Crash, vars
  <1>14. CASE Worker
    BY <1>4, <1>5, <1>6, <1>7, <1>8, <1>14 DEF Worker, Create, SetupStep
  <1>15. QED
    BY <1>9, <1>10, <1>11, <1>12, <1>13, <1>14 DEF Next, Cluster

\* A launch keeps its step.
LEMMA WorkerMove ==
    ASSUME BaseInv, Worker
    PROVE  \/ handleStep \/ handleRevision
           \/ launch'.pc \notin Launching
           \/ /\ launch'.step = launch.step /\ launch.pc \in Launching
              /\ launch'.pc \in Building => launch.pc \in Building
  <1>1. launch \in Launch
    BY DEF BaseInv, TypeOK
  <1>2. ASSUME NEW pc, launch' = [launch EXCEPT !.pc = pc]
        PROVE  launch'.step = launch.step /\ launch'.pc = pc
    BY <1>1, <1>2 DEF Launch
  <1>3. LaunchIdle.pc \notin Launching
    BY DEF LaunchIdle, Launching
  <1>4. CASE SetupStep
    <2>1. /\ launch.pc = "setup"
          /\ launch' = launch \/ launch' = [launch EXCEPT !.at = launch.at + 1]
      BY <1>4, SetupMoves DEF ExecutionStep, CommonStep, Advance
    <2>2. QED  BY <1>1, <2>1 DEF Launch, Launching, Building
  <1>5. CASE createBarePod \/ waitForPodDeletion
    <2>1. /\ launch.pc \in {"setup", "await"}
          /\ \/ \E u : launch' = [launch EXCEPT !.pc = "own", !.uid = u]
             \/ \E pc : launch' = [launch EXCEPT !.pc = pc]
      BY <1>5 DEF createBarePod, waitForPodDeletion, Doing
    <2>2. QED  BY <1>1, <2>1 DEF Launch, Launching, Building
  <1>6. CASE spokeAccessForRun \/ SetOwnersFails \/ cleanupOnCreateFailure
    <2>1. /\ Retry /\ launch.pc \in Launching /\ launch.pc \in Building /\ run' = run
      BY <1>6 DEF spokeAccessForRun, cleanupOnCreateFailure, SetOwnersFails, Retry, Doing,
         Launching, Building
    <2>2. QED  BY <2>1, RetryTyped DEF BaseInv
  <1>7. CASE SetOwners
    BY <1>7, SetOwnersTyped DEF BaseInv, SetOwners, Launching, Building
  <1>8. CASE patchSandboxInfo \/ failStep
    <2>1. /\ launch.pc \in Launching
          /\ launch' = LaunchIdle \/ launch' = [launch EXCEPT !.pc = "fail"]
      BY <1>8 DEF patchSandboxInfo, failStep, Launching
    <2>2. QED  BY <1>2, <1>3, <2>1 DEF Building
  <1>9. CASE handleFailed \/ handleTerminalCleanup \/ StampTerminalTime \/ LabelTerminalRun
    <2>1. \/ launch' = LaunchIdle
          \/ \E pc \in {"terminal", "stamp"} : launch' = [launch EXCEPT !.pc = pc]
          \/ launch' = [launch EXCEPT !.pc = "label", !.read = Edits]
      BY <1>9 DEF handleFailed, handleTerminalCleanup, StampTerminalTime, LabelTerminalRun
    <2>2. launch' = [launch EXCEPT !.pc = "label", !.read = Edits] => launch'.pc = "label"
      BY <1>1 DEF Launch
    <2>3. QED  BY <1>2, <1>3, <2>1, <2>2 DEF Launching
  <1>10. CASE AddFinalizers \/ ClearTerminalLabel \/ ReleaseDeleted \/ handleTemplogCleanup
    BY <1>10 DEF AddFinalizers, ClearTerminalLabel, ReleaseDeleted, handleTemplogCleanup,
       Reconciling, Finalizing, Launching
  <1>11. QED
    BY <1>4, <1>5, <1>6, <1>7, <1>8, <1>9, <1>10 DEF Worker, Create, SetupStep

\* The handler releases what it finds recorded.
LEMMA ReleaseMove ==
    ASSUME BaseInv, [Next]_vars
    PROVE  release' = release \/ release'.pc # "grants" \/ run.ref[release'.step]
  <1>1. release \in Release /\ ReleaseIdle.pc # "grants"
    BY DEF BaseInv, TypeOK, ReleaseIdle
  <1>2. CASE releaseBarePod
    <2>1. \/ run.ref[release.step] /\ release' = [release EXCEPT !.pc = "grants"]
          \/ release' = ReleaseIdle
      BY <1>2 DEF releaseBarePod
    <2>2. release' = [release EXCEPT !.pc = "grants"] => release'.step = release.step
      BY <1>1 DEF Release
    <2>3. QED  BY <1>1, <2>1, <2>2
  <1>3. CASE ReleaseGrants \/ Crash
    BY <1>1, <1>3 DEF ReleaseGrants, Crash
  <1>4. ASSUME NEW s \in Steps, completeStep(s)  PROVE release'.pc # "grants"
    BY <1>4 DEF completeStep
  <1>5. CASE Worker
    <2>1. CASE Create
      BY <2>1, SetupMoves DEF Create, SetupStep, spokeAccessForRun, createBarePod,
         waitForPodDeletion, cleanupOnCreateFailure, SetOwners, SetOwnersFails, WorkerFrame
    <2>2. CASE handleStep \/ handleRevision
      BY <2>2, StepStarted DEF BaseInv
    <2>3. QED
      BY <1>5, <2>1, <2>2 DEF Worker, AddFinalizers, ClearTerminalLabel, patchSandboxInfo,
         failStep, handleFailed, handleTerminalCleanup, StampTerminalTime,
         LabelTerminalRun, ReleaseDeleted, handleTemplogCleanup, WorkerFrame
  <1>6. CASE \/ sweepExpiredRuns \/ UserDeletes \/ GiveFeedback \/ DeadlinePasses
             \/ SpokeChanges \/ Cluster \/ UNCHANGED vars \/ \E s \in Steps : PodEnds(s)
    BY <1>6 DEF sweepExpiredRuns, UserDeletes, GiveFeedback, DeadlinePasses, OutsideRun,
       SpokeChanges, Cluster, PodRemoved, Collect, vars, PodEnds
  <1>7. QED
    BY <1>2, <1>3, <1>4, <1>5, <1>6 DEF Next, Handler

\* Before the first analysis is recorded nobody but its launch touches its access.
LEMMA OthersKeepAnalysis ==
    ASSUME BaseInv, Others, Sound, FirstLaunch, ~run.ref["analysis"],
           Plain, launch.pc # "idle"
    PROVE  grant'["analysis"] = grant["analysis"]
  <1>1. /\ "analysis" \in Steps /\ ~Fault /\ release.step \in Steps
        /\ grant \in [Steps -> [Kinds -> Grant]]
    BY SoundIsFaultless DEF BaseInv, TypeOK, Steps, Release
  <1>2. ~Gone
    BY DEF BaseInv, FinalizerInv
  <1>3. CASE ReleaseGrants
    <2>1. release.step # "analysis"
      BY <1>3 DEF ReleaseGrants, FirstLaunch
    <2> DEFINE gone == Only(release.step, Released(release.step))
    <2>2. gone["analysis"] = {}
      BY <1>1, <2>1 DEF Only
    <2>3. Delete(gone, {})
      BY <1>1, <1>3 DEF ReleaseGrants, DeleteAll, DeleteFails
    <2> HIDE DEF gone
    <2>4. grant'["analysis"] = [k \in Kinds |-> grant["analysis"][k]]
      BY <1>1, <2>2, <2>3 DEF Delete
    <2>5. QED  BY <1>1, <2>4
  <1>4. ASSUME NEW s \in Steps, NEW k \in Kinds, Collect(s, k)
        PROVE  grant'["analysis"] = grant["analysis"]
    <2>1. CASE s = "analysis"
      <3>1. Collectable("analysis", k)
        BY <1>4, <2>1 DEF Collect
      <3>2. PICK o \in grant["analysis"][k].owners : IF o = 0 THEN Gone ELSE pod["analysis"].uid # o
        BY <3>1 DEF Collectable
      <3>3. o = 0
        BY <3>2 DEF Plain
      <3>4. QED  BY <1>2, <3>2, <3>3
    <2>2. CASE s # "analysis"
      BY <1>1, <1>4, <2>2 DEF Collect
    <2>3. QED  BY <2>1, <2>2
  <1>5. CASE grant' = grant
    BY <1>5
  <1>6. QED
    BY <1>3, <1>4, <1>5 DEF Others, Handler, releaseBarePod, completeStep, Cluster,
       PodRemoved, sweepExpiredRuns, UserDeletes, GiveFeedback, DeadlinePasses, OutsideRun,
       SpokeChanges, PodEnds, vars

\* The access of the analysis comes with its launch.
LEMMA NothingBefore ==
    ASSUME BaseInv, [Next]_vars, NEW k \in Kinds, ~Got(k), Got(k)'
    PROVE  launch.step = "analysis" /\ launch.pc \in Launching
  <1>1. GrantMoves /\ TypeOK /\ "analysis" \in Steps
    BY GrantMove DEF BaseInv, Steps
  <1>2. ~Shrinks
    BY <1>1, ShrinkFacts DEF Got
  <1>3. ~OwnersSet
    BY <1>1 DEF OwnersSet, Got
  <1>4. PICK j \in Kinds, owners \in {{}, {0}} : Grows(j, owners)
    BY <1>1, <1>2, <1>3 DEF GrantMoves
  <1>5. launch.step # "analysis" => grant'["analysis"][k] = grant["analysis"][k]
    BY <1>1, <1>4, GrowFacts
  <1>6. launch.pc = "setup"
    BY <1>1, <1>4, GrowFacts
  <1>7. QED  BY <1>5, <1>6 DEF Got, Launching

\* Nothing there: nothing owned.
LEMMA NothingOwned ==
    ASSUME TypeOK, \A k \in Kinds : ~Got(k)  PROVE Plain
  <1>1. ASSUME NEW k \in Kinds  PROVE grant["analysis"][k].owners = {}
    <2> DEFINE g == grant["analysis"][k]
    <2>1. g \in Grant /\ ~g.there
      BY DEF TypeOK, Got, Steps
    <2> HIDE DEF g
    <2>2. g = Absent
      BY <2>1 DEF Grant
    <2>3. g.owners = {}
      BY <2>2 DEF Absent
    <2>4. QED  BY <2>3 DEF g
  <1>2. QED  BY <1>1 DEF Plain

\* The first analysis starts from nothing.
LEMMA NotBegunStep ==
    ASSUME BaseInv, [Next]_vars, Sound, NotBegun
    PROVE  (NotBegun \/ SettingUp)'
  <1>1. TypeOK /\ "analysis" \in Steps /\ TypeOK'
    BY BaseStep DEF BaseInv, Steps
  <1>2. \A k \in Kinds : ~Got(k)'
    BY NothingBefore DEF NotBegun
  <1>3. pod'["analysis"] = NoPod
    <2>1. pod["analysis"] = NoPod
      BY DEF NotBegun
    <2>2. createBarePod => launch.pc \in Launching
      BY DEF createBarePod, Doing, Launching
    <2>3. QED  BY <1>1, <2>1, <2>2, PodMove DEF NotBegun
  <1>4. CASE Others
    <2>1. launch' = launch
      BY <1>4, OthersLeaveLaunch
    <2>2. NotBegun'
      BY <1>2, <1>3, <2>1 DEF NotBegun
    <2>3. QED  BY <2>2
  <1>5. CASE handleStep \/ handleRevision
    <2>1. launch'.pc = "setup" /\ launch'.at = 1
      BY <1>1, <1>5, StepStarted
    <2>2. CASE launch'.step = "analysis"
      <3>1. Plain /\ grant' = grant
        BY <1>1, <1>5, NothingOwned, StepStarted DEF NotBegun
      <3>2. Plain'
        BY <3>1 DEF Plain
      <3>3. \A i \in 1..(launch'.at - 1) : FALSE
        BY <2>1
      <3>4. QED  BY <1>3, <2>1, <2>2, <3>2, <3>3 DEF SettingUp
    <2>3. CASE launch'.step # "analysis"
      BY <1>2, <1>3, <2>3 DEF NotBegun
    <2>4. QED  BY <2>2, <2>3
  <1>6. CASE Worker /\ ~handleStep /\ ~handleRevision
    <2>1. launch'.pc \notin Launching
          \/ (launch'.step = launch.step /\ launch.pc \in Launching)
      BY <1>6, WorkerMove
    <2>2. launch'.pc \notin Launching \/ launch'.step # "analysis"
      BY <2>1 DEF NotBegun
    <2>3. NotBegun'
      BY <1>2, <1>3, <2>2 DEF NotBegun
    <2>4. QED  BY <2>3
  <1>7. QED  BY <1>1, <1>4, <1>5, <1>6, SoundCases

\* Its calls follow one another, up to its Pod.
LEMMA SettingUpStep ==
    ASSUME BaseInv, [Next]_vars, Sound, spoke = "ready", FirstLaunch,
           ~run.ref["analysis"], SettingUp
    PROVE  (SettingUp \/ Owning)'
  <1>1. /\ TypeOK /\ "analysis" \in Steps /\ launch \in Launch /\ launch.at \in Nat
        /\ {"sa", "input", "result"} \subseteq Kinds /\ Common \subseteq Kinds
        /\ grant \in [Steps -> [Kinds -> Grant]]
    BY DEF BaseInv, TypeOK, Launch, Steps, Kinds, Objects, Common
  <1>2. launch.step = "analysis" /\ launch.pc = "setup" /\ pod["analysis"] = NoPod /\ Plain
    BY DEF SettingUp
  <1>3. Setup("analysis")' = Setup("analysis")
    BY RunMove DEF RunMoves, Setup
  <1>4. launch.at \in 1..Len(Setup("analysis"))
    BY <1>2 DEF BaseInv, LaunchInv
  <1>5. CASE Others
    <2>1. launch' = launch /\ grant'["analysis"] = grant["analysis"]
      BY <1>2, <1>5, OthersLeaveLaunch, OthersKeepAnalysis
    <2>2. pod'["analysis"] = NoPod
      <3>1. createBarePod => launch' # launch
        <4>1. createBarePod => \/ \E u : launch' = [launch EXCEPT !.pc = "own", !.uid = u]
                               \/ launch' = [launch EXCEPT !.pc = "await"]
          BY DEF createBarePod
        <4>2. QED  BY <1>1, <1>2, <4>1 DEF Launch
      <3>2. QED  BY <1>1, <1>2, <2>1, <3>1, PodMove
    <2>3. SettingUp'
      BY <1>2, <1>3, <2>1, <2>2 DEF SettingUp, Plain, Got
    <2>4. QED  BY <2>3
  <1>6. CASE SetupStep
    <2>0. ~ExecutionStep
      <3>1. Setup("analysis")[launch.at] \notin {"roles", "cluster", "note"}
        BY <1>4, SetupWithoutRoles
      <3>2. QED  BY <1>2, <3>1 DEF ExecutionStep, Doing
    <2>1. Advance /\ pod' = pod
      BY <1>6, <2>0, SetupMoves DEF CommonStep
    <2>2. PICK k \in Common :
            /\ Doing(k) /\ grant'[launch.step][k].there
            /\ \E owners \in {{}, {0}} : Grows(k, owners) \/ UNCHANGED grant
      BY <1>6, <2>0, SetupMoves DEF CommonStep
    <2>3. Setup("analysis")[launch.at] = k
      BY <1>2, <2>2 DEF Doing
    <2>5. /\ launch'.pc = "setup" /\ launch'.step = "analysis"
          /\ launch'.at = launch.at + 1
      <3>1. launch' = [launch EXCEPT !.at = launch.at + 1]
        BY <2>1 DEF Advance
      <3>2. QED  BY <1>1, <1>2, <3>1 DEF Launch
    <2>6. PICK owners \in {{}, {0}} : Grows(k, owners) \/ UNCHANGED grant
      BY <2>2
    <2>7. \A j \in Kinds : \/ grant'["analysis"][j] = grant["analysis"][j]
                           \/ j = k /\ grant'["analysis"][j].owners = owners
      <3>1. CASE Grows(k, owners)
        BY <1>1, <1>2, <2>2, <3>1, GrowFacts
      <3>2. CASE UNCHANGED grant
        BY <3>2
      <3>3. QED  BY <2>6, <3>1, <3>2
    <2>8. Plain'
      BY <1>2, <2>7 DEF Plain
    <2>9. grant'["analysis"][k].there
      BY <1>2, <2>2
    <2>10. ASSUME NEW i \in 1..(launch'.at - 1)
           PROVE  grant'["analysis"][Setup("analysis")[i]].there
      <3>1. CASE i = launch.at
        BY <2>3, <2>9, <3>1
      <3>2. CASE i # launch.at
        <4>1. i \in 1..(launch.at - 1)
          BY <1>1, <2>5, <2>10, <3>2
        <4>2. Got(Setup("analysis")[i])
          BY <4>1 DEF SettingUp
        <4>3. i \in 1..Len(Setup("analysis"))
          <5>1. Len(Setup("analysis")) \in Nat
            BY SetupAnalysis
          <5>2. QED  BY <1>1, <1>4, <4>1, <5>1
        <4>4. Setup("analysis")[i] \in Kinds \cup {"pod"}
          BY <4>3, SetupWithoutRoles DEF Kinds, Objects
        <4>5. Setup("analysis")[i] # "pod"
          <5>1. SUFFICES ASSUME Setup("analysis")[i] = "pod"  PROVE FALSE
            OBVIOUS
          <5>2. i = Len(Setup("analysis"))
            BY <4>3, <5>1, PodIsLast
          <5>3. QED  BY <1>1, <1>4, <4>1, <5>2
        <4>6. QED  BY <2>7, <2>9, <4>2, <4>4, <4>5 DEF Got
      <3>3. QED  BY <3>1, <3>2
    <2>11. SettingUp'
      BY <1>2, <1>3, <2>1, <2>5, <2>8, <2>10 DEF SettingUp, Got
    <2>12. QED  BY <2>11
  <1>7. ASSUME Doing("pod")  PROVE Got("input") /\ Got("result") /\ Got("sa")
    <2>1. Setup("analysis")[launch.at] = "pod"
      BY <1>2, <1>7 DEF Doing
    <2>2. \A k \in {"sa", "input", "result"} :
            \E j \in 1..(launch.at - 1) : Setup("analysis")[j] = k
      BY <1>4, <2>1, SetupEndsWithPod
    <2>3. QED  BY <2>2 DEF SettingUp
  <1>8. CASE createBarePod
    <2>1. Got("input") /\ Got("result") /\ Got("sa") /\ grant' = grant
      BY <1>7, <1>8 DEF createBarePod
    <2>2. pod["analysis"].ph = "none"
      BY <1>2 DEF NoPod
    <2>3. PICK u : launch' = [launch EXCEPT !.pc = "own", !.uid = u]
      BY <1>2, <1>8, <2>2 DEF createBarePod
    <2>4. launch'.pc = "own" /\ launch'.step = "analysis"
      BY <1>1, <1>2, <2>3 DEF Launch
    <2>5. Owning'
      BY <1>2, <2>1, <2>4 DEF Owning, Plain, Got
    <2>6. QED  BY <2>5
  <1>9. CASE Worker
    <2>1. SetupStep \/ createBarePod \/ (Doing("pod") /\ ~grant["analysis"]["sa"].there)
      BY <1>1, <1>2, <1>9, SetupContinues
    <2>2. QED  BY <1>6, <1>7, <1>8, <2>1 DEF Got
  <1>10. QED  BY <1>1, <1>5, <1>9, SoundCases

\* Its Pod becomes the owner of all it needs.
LEMMA OwningStep ==
    ASSUME BaseInv, [Next]_vars, Sound, FirstLaunch, ~run.ref["analysis"], Owning
    PROVE  (Owning \/ Recording)'
  <1>1. TypeOK /\ ~Fault
    BY SoundIsFaultless DEF BaseInv
  <1>2. launch.step = "analysis" /\ launch.pc = "own" /\ Plain
    BY DEF Owning
  <1>3. CASE Others
    <2>1. launch' = launch /\ grant'["analysis"] = grant["analysis"]
      BY <1>2, <1>3, OthersLeaveLaunch, OthersKeepAnalysis
    <2>2. Owning'
      BY <2>1 DEF Owning, Plain, Got
    <2>3. QED  BY <2>2
  <1>4. CASE Worker
    <2>1. Create
      BY <1>2, <1>4 DEF Worker, AddFinalizers, handleStep, ClearTerminalLabel,
         handleRevision, patchSandboxInfo, failStep, handleFailed, handleTerminalCleanup,
         StampTerminalTime, LabelTerminalRun, ReleaseDeleted, handleTemplogCleanup,
         Reconciling, Finalizing
    <2>2. SetOwners
      BY <1>1, <1>2, <2>1 DEF Create, spokeAccessForRun, ensureSA, addReaderSubject,
         addReaderSubjectOnSpoke, ensureSandboxKubeconfig, ensureExecutionRBAC,
         PersistNamespaces, createInputConfigMap, ensureResultRBAC, createBarePod,
         waitForPodDeletion, cleanupOnCreateFailure, SetOwnersFails, Ensure, Doing
    <2>3. launch'.pc = "ref" /\ launch'.step = "analysis"
      BY <1>2, <2>2, SetOwnersTyped DEF BaseInv, Owning, Got
    <2>4. QED  BY <2>3 DEF Recording
  <1>5. QED  BY <1>1, <1>3, <1>4, SoundCases

\* It is recorded.
LEMMA RecordingStep ==
    ASSUME BaseInv, [Next]_vars, Sound, Recording
    PROVE  Recording' \/ run'.ref["analysis"]
  <1>1. TypeOK /\ ~Fault
    BY SoundIsFaultless DEF BaseInv
  <1>2. launch.step = "analysis" /\ launch.pc = "ref" /\ "analysis" \in Steps
    BY DEF Recording, Steps
  <1>3. CASE Others
    BY <1>3, OthersLeaveLaunch DEF Recording
  <1>4. CASE Worker
    <2>1. ~Create
      BY <1>2 DEF Create, spokeAccessForRun, ensureSA, addReaderSubject,
         addReaderSubjectOnSpoke, ensureSandboxKubeconfig, ensureExecutionRBAC,
         PersistNamespaces, createInputConfigMap, ensureResultRBAC, createBarePod,
         waitForPodDeletion, cleanupOnCreateFailure, SetOwners, SetOwnersFails, Ensure, Doing
    <2>2. patchSandboxInfo
      BY <1>2, <1>4, <2>1 DEF Worker, AddFinalizers, handleStep, ClearTerminalLabel,
         handleRevision, failStep, handleFailed, handleTerminalCleanup,
         StampTerminalTime, LabelTerminalRun, ReleaseDeleted, handleTemplogCleanup,
         Reconciling, Finalizing
    <2>3. run' = [run EXCEPT !.ref["analysis"] = TRUE]
      BY <1>1, <1>2, <2>2 DEF patchSandboxInfo
    <2>4. run'.ref["analysis"] = TRUE
      BY <1>1, <1>2, <2>3, SandboxRecorded
    <2>5. QED  BY <2>4
  <1>5. QED  BY <1>1, <1>3, <1>4, SoundCases

\* Without a fault every analysis that has made anything is recorded or under way.
LEMMA FirstLaunchStep ==
    ASSUME BaseInv, [Next]_vars, Sound, spoke = "ready", FirstLaunch
    PROVE  FirstLaunch'
  <1>1. run.ref["analysis"] => run'.ref["analysis"]
    BY RunMove DEF RunMoves
  <1>2. release'.pc = "grants" /\ release'.step = "analysis" => run'.ref["analysis"]
    BY <1>1, ReleaseMove DEF FirstLaunch
  <1>3. run'.ref["analysis"] \/ NotBegun' \/ SettingUp' \/ Owning' \/ Recording'
    <2>1. CASE run.ref["analysis"]
      BY <1>1, <2>1
    <2>2. CASE NotBegun
      BY <2>2, NotBegunStep
    <2>3. CASE SettingUp /\ ~run.ref["analysis"]
      BY <2>3, SettingUpStep
    <2>4. CASE Owning /\ ~run.ref["analysis"]
      BY <2>4, OwningStep
    <2>5. CASE Recording
      BY <2>5, RecordingStep
    <2>6. QED  BY <2>1, <2>2, <2>3, <2>4, <2>5 DEF FirstLaunch
  <1>4. QED  BY <1>2, <1>3 DEF FirstLaunch

----------------------------------------------------------------------------
(* Without a fault and without a revision.                                  *)

\* The creation of the Pod is behind the other calls.
LEMMA PodComesLast ==
    ASSUME NEW s \in Steps, NEW i \in 1..Len(Setup(s)), Setup(s)[i] = "pod"
    PROVE  /\ \A k \in {"input", "result"} : \E j \in 1..(i - 1) : Setup(s)[j] = k
           /\ s = "execution" => \E j \in 1..(i - 1) : Setup(s)[j] = "note"
  <1>1. CASE s = "analysis"
    BY <1>1, SetupEndsWithPod
  <1>2. CASE s = "execution" /\ ~run.remote
    <2>1. i \in {1, 2, 3, 4, 5, 6, 7, 8}
      <3>1. Len(Setup(s)) = 8
        BY <1>2, SetupExecution
      <3>2. i \in 1..8
        BY <3>1
      <3>3. QED  BY <3>2
    <2>2. i = 8
      BY <1>2, <2>1, SetupExecution
    <2>3. 5 \in 1..(i - 1) /\ 6 \in 1..(i - 1) /\ 7 \in 1..(i - 1)
      BY <2>2
    <2>4. QED  BY <1>2, <2>3, SetupExecution
  <1>3. CASE s = "execution" /\ run.remote
    <2>1. i \in {1, 2, 3, 4, 5, 6, 7, 8, 9}
      <3>1. Len(Setup(s)) = 9
        BY <1>3, SetupExecution
      <3>2. i \in 1..9
        BY <3>1
      <3>3. QED  BY <3>2
    <2>2. i = 9
      BY <1>3, <2>1, SetupExecution
    <2>3. 6 \in 1..(i - 1) /\ 7 \in 1..(i - 1) /\ 8 \in 1..(i - 1)
      BY <2>2
    <2>4. QED  BY <1>3, <2>3, SetupExecution
  <1>4. QED  BY <1>1, <1>2, <1>3 DEF Steps

\* The stage moves forward, a revision apart; only feedback counts as a revision.
StageMoves ==
    /\ run'.revisions = 0 => run.revisions = 0 /\ (run'.feedback => run.feedback)
    /\ \/ run'.stage = run.stage /\ run'.step = run.step
       \/ run'.stage \in {"done", "failed", "gone"}
       \/ run'.stage = "proposed" /\ run.stage = "running" /\ run.step = "analysis"
       \/ handleStep \/ handleRevision

\* Every step of every process moves the stage in one of these ways.
LEMMA StageMove ==
    ASSUME BaseInv, [Next]_vars  PROVE StageMoves
  <1>0. run \in Run
    BY DEF BaseInv, TypeOK
  <1>1. ASSUME run' = run  PROVE StageMoves
    BY <1>1 DEF StageMoves
  <1>2. ASSUME NEW st, run' = [run EXCEPT !.stage = st],
               \/ st \in {"done", "failed"}
               \/ st = "proposed" /\ run.stage = "running" /\ run.step = "analysis"
        PROVE  StageMoves
    BY <1>0, <1>2 DEF StageMoves, Run
  <1>3. CASE SetupStep
    <2>1. CASE PersistNamespaces
      <3> DEFINE names == Annotate(run.noted)
      <3>1. run' = [run EXCEPT !.noted = names]
        BY <2>1 DEF PersistNamespaces
      <3> HIDE DEF names
      <3>2. QED  BY <1>0, <3>1 DEF StageMoves, Run
    <2>2. QED  BY <1>1, <1>3, <2>1, SetupMoves
  <1>4. CASE \/ createBarePod \/ waitForPodDeletion \/ spokeAccessForRun \/ SetOwnersFails
             \/ cleanupOnCreateFailure \/ SetOwners \/ handleFailed \/ handleTerminalCleanup
    BY <1>1, <1>4 DEF createBarePod, waitForPodDeletion, spokeAccessForRun, SetOwnersFails,
       cleanupOnCreateFailure, SetOwners, handleFailed, handleTerminalCleanup
  <1>5. CASE patchSandboxInfo
    <2> DEFINE refs == [run.ref EXCEPT ![launch.step] = TRUE]
    <2>1. run' = run \/ run' = [run EXCEPT !.ref = refs]
      BY <1>0, <1>5 DEF patchSandboxInfo, Run
    <2> HIDE DEF refs
    <2>2. QED  BY <1>0, <1>1, <2>1 DEF StageMoves, Run
  <1>6. CASE failStep
    BY <1>1, <1>2, <1>6 DEF failStep
  <1>7. ASSUME NEW s \in Steps, completeStep(s)  PROVE StageMoves
    <2>1. PICK st \in {"proposed", "done", "failed"} :
            /\ run' = [run EXCEPT !.stage = st]
            /\ st = "proposed" => s = "analysis"
      BY <1>7 DEF completeStep
    <2>2. run.stage = "running" /\ run.step = s
      BY <1>7 DEF completeStep
    <2>3. QED  BY <1>2, <2>1, <2>2
  <1>8. CASE AddFinalizers \/ ClearTerminalLabel \/ LabelTerminalRun \/ DeadlinePasses
    <2>1. \/ run' = run \/ \E b : run' = [run EXCEPT !.label = b]
          \/ \E fs : run' = [run EXCEPT !.finalizers = fs]
          \/ \E t : run' = [run EXCEPT !.ttl = t]
      BY <1>8 DEF AddFinalizers, ClearTerminalLabel, LabelTerminalRun, DeadlinePasses,
         OutsideRun
    <2>2. QED  BY <1>0, <1>1, <2>1 DEF StageMoves, Run
  <1>9. CASE StampTerminalTime
    <2> DEFINE t == IF run.ttl = "none" THEN "set" ELSE run.ttl
    <2>1. run' = run \/ run' = [run EXCEPT !.ttl = t]
      BY <1>9 DEF StampTerminalTime
    <2> HIDE DEF t
    <2>2. QED  BY <1>0, <1>1, <2>1 DEF StageMoves, Run
  <1>10. CASE handleStep \/ handleRevision
    <2>1. PICK r \in Run, s \in Steps :
            /\ \E n : run' = [r EXCEPT !.stage = "running", !.step = s, !.launches = n]
            /\ r.revisions = run.revisions /\ (r.feedback => run.feedback)
      <3>1. CASE handleStep
        BY <1>0, <3>1 DEF handleStep, Start, Steps
      <3>2. CASE handleRevision
        <4> DEFINE refs == [run.ref EXCEPT !["execution"] = FALSE]
                   r == [resetExecutionAndVerification(run) EXCEPT
                             !.ttl = "none", !.feedback = FALSE]
        <4>1. Start("analysis", r, LaunchIdle.option)
          BY <3>2 DEF handleRevision
        <4>2. r = [run EXCEPT !.ref = refs, !.ttl = "none", !.feedback = FALSE]
          BY <1>0 DEF resetExecutionAndVerification, Run
        <4>3. refs \in [Steps -> BOOLEAN]
          BY <1>0 DEF Run, Steps
        <4> HIDE DEF refs, r
        <4>4. r \in Run /\ r.revisions = run.revisions /\ ~r.feedback
          BY <1>0, <4>2, <4>3 DEF Run
        <4>5. QED  BY <4>1, <4>4 DEF Start, Steps
      <3>3. QED  BY <1>10, <3>1, <3>2
    <2>2. run'.revisions = r.revisions /\ run'.feedback = r.feedback
      BY <2>1 DEF Run
    <2>3. QED  BY <1>10, <2>1, <2>2 DEF StageMoves
  <1>11. ASSUME NEW f, Without(f)  PROVE StageMoves
    <2> DEFINE rest == run.finalizers \ {f}
               st == IF rest = {} THEN "gone" ELSE run.stage
    <2>1. run' = [run EXCEPT !.finalizers = rest, !.stage = st]
      BY <1>0, <1>11 DEF Without, Run
    <2>2. st = "gone" \/ st = run.stage
      OBVIOUS
    <2> HIDE DEF rest, st
    <2>3. QED  BY <1>0, <2>1, <2>2 DEF StageMoves, Run
  <1>12. CASE ReleaseDeleted
    BY <1>1, <1>11, <1>12 DEF ReleaseDeleted
  <1>13. CASE handleTemplogCleanup
    <2>1. Without("templog") \/ \E n : run' = [run EXCEPT !.attempts = n]
      BY <1>13 DEF handleTemplogCleanup
    <2>2. QED  BY <1>0, <1>11, <2>1 DEF StageMoves, Run
  <1>14. CASE sweepExpiredRuns \/ UserDeletes
    <2> DEFINE st == IF run.finalizers = {} THEN "gone" ELSE run.stage
    <2>1. run' = [run EXCEPT !.deleting = TRUE, !.stage = st]
      BY <1>0, <1>14 DEF sweepExpiredRuns, UserDeletes, OutsideRun, Deleted, Run
    <2>2. st = "gone" \/ st = run.stage
      OBVIOUS
    <2> HIDE DEF st
    <2>3. QED  BY <1>0, <2>1, <2>2 DEF StageMoves, Run
  <1>15. CASE GiveFeedback
    <2> DEFINE n == run.revisions + 1
    <2>1. run' = [run EXCEPT !.feedback = TRUE, !.revisions = n]
      BY <1>15 DEF GiveFeedback, OutsideRun
    <2>2. n # 0
      BY <1>0 DEF Run
    <2> HIDE DEF n
    <2>3. QED  BY <1>0, <2>1, <2>2 DEF StageMoves, Run
  <1>16. CASE \/ releaseBarePod \/ ReleaseGrants \/ Cluster \/ SpokeChanges \/ Crash
              \/ \E s \in Steps : PodEnds(s)
    BY <1>1, <1>16 DEF releaseBarePod, ReleaseGrants, HandlerFrame, Cluster, PodRemoved,
       Collect, SpokeChanges, Crash, PodEnds
  <1>17. CASE UNCHANGED vars
    BY <1>1, <1>17 DEF vars
  <1>18. CASE Worker
    BY <1>3, <1>4, <1>5, <1>6, <1>8, <1>9, <1>10, <1>12, <1>13, <1>18
       DEF Worker, Create, SetupStep
  <1>19. QED
    BY <1>7, <1>8, <1>14, <1>15, <1>16, <1>17, <1>18 DEF Next, Handler

\* Which step a launch is for: one that has not begun.
LEMMA StartMove ==
    ASSUME TypeOK, handleStep
    PROVE  /\ \E s \in Steps : launch'.step = s /\ ~Begun(s) /\ Begun(s)'
           /\ launch'.pc = "setup" /\ launch'.at = 1
  <1>1. ASSUME NEW s \in Steps, NEW option, Start(s, run, option), ~Begun(s)
        PROVE  /\ launch'.step = s /\ ~Begun(s) /\ Begun(s)'
               /\ launch'.pc = "setup" /\ launch'.at = 1
    <2>1. launch' = [LaunchIdle EXCEPT !.pc = "setup", !.step = s, !.option = option]
      BY <1>1 DEF Start
    <2>2. launch'.step = s /\ launch'.pc = "setup" /\ launch'.at = 1
      BY <2>1 DEF LaunchIdle
    <2> DEFINE n == run.launches + 1
    <2>3. run' = [run EXCEPT !.stage = "running", !.step = s, !.launches = n]
      BY <1>1 DEF Start
    <2> HIDE DEF n
    <2>4. run'.stage = "running" /\ run'.step = s
      BY <2>3 DEF TypeOK, Run
    <2>5. Begun(s)'
      BY <2>4 DEF Begun
    <2>6. QED  BY <1>1, <2>2, <2>5
  <1>2. run.stage = "new" => ~Begun("analysis")
    BY DEF Begun
  <1>3. run.stage = "proposed" => ~Begun("execution")
    BY DEF Begun
  <1>4. QED  BY <1>1, <1>2, <1>3 DEF handleStep, Steps

\* Without feedback a step that has begun does not begin again.
LEMMA BegunStays ==
    ASSUME BaseInv, [Next]_vars, ~run.feedback, NEW s \in Steps, Begun(s)
    PROVE  Begun(s)' /\ ~handleRevision /\ (handleStep => launch'.step # s)
  <1>1. ~handleRevision /\ StageMoves /\ TypeOK
    BY StageMove DEF handleRevision, Revisable, BaseInv
  <1>2. handleStep => launch'.step # s
    BY <1>1, StartMove
  <1>3. CASE handleStep
    <2>1. PICK t \in Steps : launch'.step = t /\ ~Begun(t) /\ Begun(t)'
      BY <1>1, <1>3, StartMove
    <2>2. s = "analysis" => Begun(s)'
      BY <2>1 DEF Begun
    <2>3. s = "execution" => FALSE
      BY <1>2, <1>3, <2>1 DEF Begun, Steps
    <2>4. QED  BY <1>1, <1>2, <2>2, <2>3 DEF Steps
  <1>4. CASE ~handleStep
    BY <1>1, <1>4 DEF StageMoves, Begun
  <1>5. QED  BY <1>1, <1>2, <1>3, <1>4

\* The access of a step comes with its launch.
LEMMA NothingBeforeLaunch ==
    ASSUME BaseInv, [Next]_vars, NEW s \in Steps, NEW k \in Kinds,
           ~grant[s][k].there, grant'[s][k].there
    PROVE  launch.step = s /\ launch.pc = "setup"
  <1>1. GrantMoves /\ TypeOK
    BY GrantMove DEF BaseInv
  <1>2. ~Shrinks
    BY <1>1, ShrinkFacts
  <1>3. ~OwnersSet
    BY DEF OwnersSet
  <1>4. PICK j \in Kinds, owners \in {{}, {0}} : Grows(j, owners)
    BY <1>1, <1>2, <1>3 DEF GrantMoves
  <1>5. launch.step # s => grant'[s][k] = grant[s][k]
    BY <1>1, <1>4, GrowFacts
  <1>6. launch.pc = "setup"
    BY <1>1, <1>4, GrowFacts
  <1>7. QED  BY <1>5, <1>6

\* What is noted after the roles exist stays noted, and they do not become more.
LEMMA RolesStay ==
    ASSUME BaseInv, [Next]_vars, NEW names, RolesIn(names),
           launch.pc = "setup" => launch.step # "execution"
    PROVE  RolesIn(names)' /\ run'.noted = run.noted
  <1>1. "execution" \in Steps /\ Namespaces \subseteq Kinds /\ TypeOK
    BY DEF Steps, Kinds, BaseInv
  <1>2. \A n \in Namespaces : grant'["execution"][n].there => n \in names
    BY <1>1, NothingBeforeLaunch DEF RolesIn
  <1>3. ~Doing("note")
    <2>1. SUFFICES ASSUME launch.pc = "setup"  PROVE Setup(launch.step)[launch.at] # "note"
      BY DEF Doing
    <2>2. launch.step = "analysis"
      BY <2>1 DEF BaseInv, TypeOK, Launch, Steps
    <2>3. launch.at \in 1..Len(Setup("analysis"))
      BY <2>1, <2>2 DEF BaseInv, LaunchInv
    <2>4. QED  BY <2>2, <2>3, SetupWithoutRoles
  <1>4. run'.noted = run.noted
    BY <1>3, RunMove DEF RunMoves
  <1>5. QED  BY <1>2, <1>4 DEF RolesIn

\* Nobody but the launch touches its input and its result role.
LEMMA OthersKeepInput ==
    ASSUME BaseInv, Others, Sound, NEW s \in Steps, NEW k \in {"input", "result"},
           grant[s][k].owners \subseteq {0}, launch.pc # "idle"
    PROVE  grant'[s][k] = grant[s][k]
  <1>1. /\ k \in Kinds /\ ~Fault /\ release.step \in Steps
        /\ grant \in [Steps -> [Kinds -> Grant]]
    BY SoundIsFaultless DEF BaseInv, TypeOK, Kinds, Objects, Release
  <1>2. ~Gone
    BY DEF BaseInv, FinalizerInv
  <1>3. CASE ReleaseGrants
    <2> DEFINE gone == Only(release.step, Released(release.step))
    <2>0. run.noted \subseteq Namespaces /\ k \notin Namespaces
      BY DEF BaseInv, TypeOK, Run, Objects
    <2>1. k \notin Released(release.step)
      BY <2>0 DEF Released, cleanupStepRBAC, cleanupExecutionRBAC, removeReaderSubject,
         removeReaderSubjectOnSpoke, KubeconfigSecret
    <2>2. k \notin gone[s]
      BY <1>1, <2>1 DEF Only
    <2>3. Delete(gone, {})
      BY <1>1, <1>3 DEF ReleaseGrants, DeleteAll, DeleteFails
    <2> HIDE DEF gone
    <2>4. QED  BY <1>1, <2>2, <2>3 DEF Delete
  <1>4. ASSUME NEW t \in Steps, NEW j \in Kinds, Collect(t, j)
        PROVE  grant'[s][k] = grant[s][k]
    <2>1. CASE t = s /\ j = k
      <3>1. Collectable(s, k)
        BY <1>4, <2>1 DEF Collect
      <3>2. PICK o \in grant[s][k].owners : IF o = 0 THEN Gone ELSE pod[s].uid # o
        BY <3>1 DEF Collectable
      <3>3. o = 0
        BY <3>2
      <3>4. QED  BY <1>2, <3>2, <3>3
    <2>2. CASE ~(t = s /\ j = k)
      BY <1>1, <1>4, <2>2 DEF Collect
    <2>3. QED  BY <2>1, <2>2
  <1>5. CASE grant' = grant
    BY <1>5
  <1>6. QED
    BY <1>3, <1>4, <1>5 DEF Others, Handler, releaseBarePod, completeStep, Cluster,
       PodRemoved, sweepExpiredRuns, UserDeletes, GiveFeedback, DeadlinePasses, OutsideRun,
       SpokeChanges, PodEnds, vars

\* Only the worker adds to the access of a run.
LEMMA OthersShrink ==
    ASSUME TypeOK, Others  PROVE Shrinks
  <1>1. CASE ReleaseGrants
    BY <1>1, DeleteShrinks DEF ReleaseGrants, DeleteAll, DeleteFails
  <1>2. ASSUME NEW t \in Steps, NEW j \in Kinds, Collect(t, j)  PROVE Shrinks
    BY <1>2 DEF Collect, Shrinks, TypeOK
  <1>3. CASE grant' = grant
    BY <1>3 DEF Shrinks
  <1>4. QED
    BY <1>1, <1>2, <1>3 DEF Others, Handler, releaseBarePod, completeStep, Cluster,
       PodRemoved, sweepExpiredRuns, UserDeletes, GiveFeedback, DeadlinePasses, OutsideRun,
       SpokeChanges, PodEnds, vars

\* The calls behind the next one.
LEMMA PastMove ==
    ASSUME BaseInv, [Next]_vars, launch'.step = launch.step, NEW call, Past(call)'
    PROVE  /\ launch'.at = launch.at => Past(call)
           /\ launch'.at = launch.at + 1 =>
                Past(call) \/ Setup(launch.step)[launch.at] = call
  <1>1. launch.at \in Nat
    BY DEF BaseInv, TypeOK, Launch
  <1>2. \A t \in Steps : Setup(t)' = Setup(t)
    BY RunMove DEF RunMoves, Setup
  <1>3. launch.step \in Steps
    BY DEF BaseInv, TypeOK, Launch
  <1>4. PICK i \in 1..(launch'.at - 1) : Setup(launch.step)[i] = call
    BY <1>2, <1>3 DEF Past
  <1>5. CASE launch'.at = launch.at
    BY <1>1, <1>4, <1>5 DEF Past
  <1>6. CASE launch'.at = launch.at + 1
    <2>1. i = launch.at \/ i \in 1..(launch.at - 1)
      BY <1>1, <1>4, <1>6
    <2>2. QED  BY <1>1, <1>4, <1>6, <2>1 DEF Past
  <1>7. QED  BY <1>1, <1>5, <1>6

\* A step that waits has nothing, or begins its launch with nothing.
LEMMA WaitingStep ==
    ASSUME BaseInv, [Next]_vars, Sound, ~run.feedback, NEW s \in Steps, Waiting(s)
    PROVE  (Waiting(s) \/ Setting(s))'
  <1>1. TypeOK /\ TypeOK' /\ {"input", "result"} \subseteq Kinds /\ Namespaces \subseteq Kinds
    BY BaseStep DEF BaseInv, Kinds, Objects
  <1>2. ~(launch.step = s /\ launch.pc \in Launching)
    BY DEF Waiting
  <1>3. \A k \in Kinds : ~grant'[s][k].there
    BY <1>2, NothingBeforeLaunch DEF Waiting, Launching
  <1>4. pod'[s] = NoPod
    <2>1. createBarePod => launch.pc \in Launching
      BY DEF createBarePod, Doing, Launching
    <2>2. QED  BY <1>2, <2>1, PodMove DEF Waiting
  <1>5. CASE ~(launch'.step = s /\ launch'.pc \in Launching)
    BY <1>3, <1>4, <1>5 DEF Waiting
  <1>6. CASE launch'.step = s /\ launch'.pc \in Launching
    <2>1. Worker
      BY <1>1, <1>2, <1>6, OthersLeaveLaunch, SoundCases
    <2>2. handleStep
      BY <1>2, <1>6, <2>1, WorkerMove DEF handleRevision, Revisable
    <2>3. launch'.pc = "setup" /\ launch'.at = 1 /\ Begun(s)'
      BY <1>1, <1>6, <2>2, StartMove
    <2>4. \A k \in {"input", "result"} : grant'[s][k].owners = {}
      <3>1. SUFFICES ASSUME NEW k \in {"input", "result"}  PROVE grant'[s][k].owners = {}
        OBVIOUS
      <3> DEFINE g == grant'[s][k]
      <3>2. g \in Grant /\ ~g.there
        BY <1>1, <1>3 DEF TypeOK
      <3> HIDE DEF g
      <3>3. g = Absent
        BY <3>2 DEF Grant
      <3>4. g.owners = {}
        BY <3>3 DEF Absent
      <3>5. QED  BY <3>4 DEF g
    <2>5. ASSUME NEW call  PROVE ~Past(call)'
      <3>1. \A i \in 1..(launch'.at - 1) : FALSE
        BY <2>3
      <3>2. QED  BY <3>1 DEF Past
    <2>6. s = "execution" => RolesIn(launch.option.ns)'
      BY <1>1, <1>3 DEF RolesIn
    <2>7. QED  BY <1>4, <1>6, <2>3, <2>4, <2>5, <2>6 DEF Setting
  <1>7. QED  BY <1>5, <1>6

\* What a call before the Pod does to the input, the result role and the roles.
LEMMA SettingCall ==
    ASSUME BaseInv, [Next]_vars, SetupStep, NEW s \in Steps, Setting(s)
    PROVE  /\ launch'.step = s /\ launch'.pc = "setup" /\ pod'[s] = NoPod
           /\ \A k \in {"input", "result"} :
                grant'[s][k].owners \subseteq {0} /\ (Past(k)' => grant'[s][k].there)
           /\ s = "execution" => /\ RolesIn(launch.option.ns)'
                                 /\ Past("note")' => launch'.option.ns \subseteq run'.noted
  <1>1. /\ launch \in Launch /\ launch.at \in Nat /\ TypeOK /\ run.noted \subseteq Namespaces
        /\ launch.option.ns \subseteq Namespaces /\ Namespaces \subseteq Kinds
        /\ Common \subseteq Kinds /\ Common \cap Namespaces = {}
        /\ {"input", "result"} \subseteq Common /\ "cluster" \in Kinds
        /\ {"input", "result"} \cap Namespaces = {}
    BY AccessAssumption DEF BaseInv, TypeOK, Launch, Run, Kinds, Objects, Common
  <1>2. launch.step = s /\ launch.pc = "setup" /\ pod[s] = NoPod
    BY DEF Setting
  <1>3. /\ ExecutionStep \/ CommonStep
        /\ run' = run \/ PersistNamespaces
        /\ pod' = pod
    BY SetupMoves
  <1>4. /\ launch'.step = s /\ launch'.pc = "setup" /\ launch'.option = launch.option
        /\ launch'.at = launch.at \/ launch'.at = launch.at + 1
    <2>1. launch' = launch \/ launch' = [launch EXCEPT !.at = launch.at + 1]
      BY <1>3 DEF ExecutionStep, CommonStep, Advance
    <2>2. QED  BY <1>1, <1>2, <2>1 DEF Launch
  <1>5. ASSUME NEW call, Past(call)'
        PROVE  Past(call) \/ Setup(launch.step)[launch.at] = call
    BY <1>2, <1>4, <1>5, PastMove
  <1>6. ASSUME NEW k \in {"input", "result"}
        PROVE  grant'[s][k].owners \subseteq {0} /\ (Past(k)' => grant'[s][k].there)
    <2>1. grant[s][k].owners \subseteq {0} /\ (Past(k) => grant[s][k].there)
      BY DEF Setting
    <2>2. CASE ExecutionStep
      <3>1. Setup(launch.step)[launch.at] # k
        BY <2>2 DEF ExecutionStep, Doing
      <3>2. grant'[s][k] = grant[s][k]
        <4>1. ASSUME NEW j \in Kinds, j \in {"cluster"} \cup launch.option.ns, Grows(j, {})
              PROVE  grant'[s][k] = grant[s][k]
          <5>1. j # k
            BY <1>1, <4>1
          <5>2. QED  BY <1>1, <4>1, <5>1, GrowFacts
        <4>2. QED  BY <2>2, <4>1 DEF ExecutionStep
      <3>3. QED  BY <1>5, <2>1, <3>1, <3>2
    <2>3. CASE CommonStep
      <3>1. PICK j \in Common :
              /\ Doing(j) /\ grant'[launch.step][j].there
              /\ \E owners \in {{}, {0}} : Grows(j, owners) \/ UNCHANGED grant
        BY <2>3 DEF CommonStep
      <3>2. PICK owners \in {{}, {0}} : Grows(j, owners) \/ UNCHANGED grant
        BY <3>1
      <3>3. \/ grant'[s][k] = grant[s][k]
            \/ j = k /\ grant'[s][k].owners = owners
        <4>1. CASE Grows(j, owners)
          BY <1>1, <1>2, <3>1, <4>1, GrowFacts
        <4>2. CASE UNCHANGED grant
          BY <4>2
        <4>3. QED  BY <3>2, <4>1, <4>2
      <3>4. CASE j = k
        BY <1>2, <2>1, <3>1, <3>3, <3>4
      <3>5. CASE j # k
        <4>1. Setup(launch.step)[launch.at] # k
          BY <3>1, <3>5 DEF Doing
        <4>2. QED  BY <1>5, <2>1, <3>3, <3>5, <4>1
      <3>6. QED  BY <3>4, <3>5
    <2>4. QED  BY <1>3, <2>2, <2>3
  <1>7. ASSUME s = "execution"  PROVE RolesIn(launch.option.ns)'
    <2>1. SUFFICES ASSUME NEW n \in Namespaces, grant'[s][n].there
                   PROVE  n \in launch.option.ns
      BY <1>4, <1>7 DEF RolesIn
    <2>2. CASE grant'[s][n] = grant[s][n]
      BY <1>7, <2>1, <2>2 DEF Setting, RolesIn
    <2>3. ASSUME NEW j \in Kinds, NEW owners, Grows(j, owners), j # n
          PROVE  grant'[s][n] = grant[s][n]
      BY <1>1, <2>3, GrowFacts
    <2>4. CASE ExecutionStep
      <3>1. CASE UNCHANGED grant
        BY <2>2, <3>1
      <3>2. ASSUME NEW j \in Kinds, j \in {"cluster"} \cup launch.option.ns, Grows(j, {})
            PROVE  n \in launch.option.ns
        <4>1. n # "cluster"
          BY AccessAssumption DEF Objects
        <4>2. QED  BY <2>2, <2>3, <3>2, <4>1
      <3>3. QED  BY <2>4, <3>1, <3>2 DEF ExecutionStep
    <2>5. CASE CommonStep
      <3>1. PICK j \in Common, owners \in {{}, {0}} : Grows(j, owners) \/ UNCHANGED grant
        BY <2>5 DEF CommonStep
      <3>2. j # n /\ j \in Kinds
        BY <1>1
      <3>3. QED  BY <2>2, <2>3, <3>1, <3>2
    <2>6. QED  BY <1>3, <2>4, <2>5
  <1>8. ASSUME s = "execution", Past("note")'
        PROVE  launch'.option.ns \subseteq run'.noted
    <2>1. ASSUME PersistNamespaces  PROVE launch.option.ns \subseteq run'.noted
      <3> DEFINE names == Annotate(run.noted)
      <3>1. run' = [run EXCEPT !.noted = names]
        BY <2>1 DEF PersistNamespaces
      <3>2. launch.option.ns \subseteq names
        BY DEF Annotate
      <3> HIDE DEF names
      <3>3. run'.noted = names
        BY <1>1, <3>1 DEF TypeOK, Run
      <3>4. QED  BY <3>2, <3>3
    <2>2. CASE Past("note")
      <3>1. launch.option.ns \subseteq run.noted
        BY <1>8, <2>2 DEF Setting
      <3>2. QED  BY <1>3, <1>4, <2>1, <3>1
    <2>3. CASE Setup(launch.step)[launch.at] = "note"
      <3>1. PersistNamespaces
        BY <2>3 DEF SetupStep, ensureSA, addReaderSubject, addReaderSubjectOnSpoke,
           ensureExecutionRBAC, createInputConfigMap, ensureResultRBAC,
           ensureSandboxKubeconfig, Ensure, Doing
      <3>2. QED  BY <1>4, <2>1, <3>1
    <2>4. QED  BY <1>5, <1>8, <2>2, <2>3
  <1>9. QED  BY <1>2, <1>3, <1>4, <1>6, <1>7, <1>8

\* A launch goes on to its Pod, or ends without one and takes its result role with it.
LEMMA SettingStep ==
    ASSUME BaseInv, [Next]_vars, Sound, spoke = "ready", ~run.feedback,
           NEW s \in Steps, Setting(s)
    PROVE  (Setting(s) \/ Handing(s) \/ Settled(s))'
  <1>1. /\ launch \in Launch /\ launch.at \in Nat /\ TypeOK /\ Namespaces \subseteq Kinds
        /\ {"input", "result"} \subseteq Kinds
    BY DEF BaseInv, TypeOK, Launch, Kinds, Objects
  <1>2. launch.step = s /\ launch.pc = "setup" /\ pod[s] = NoPod /\ Begun(s)
    BY DEF Setting
  <1>3. Begun(s)'
    BY <1>2, BegunStays
  <1>4. launch.at \in 1..Len(Setup(s))
    BY <1>2 DEF BaseInv, LaunchInv
  <1>5. CASE Others
    <2>1. launch' = launch
      BY <1>5, OthersLeaveLaunch
    <2>2. ASSUME NEW k \in {"input", "result"}  PROVE grant'[s][k] = grant[s][k]
      BY <1>2, <1>5, OthersKeepInput DEF Setting
    <2>3. pod'[s] = NoPod
      <3>1. createBarePod => \/ \E u : launch' = [launch EXCEPT !.pc = "own", !.uid = u]
                             \/ launch' = [launch EXCEPT !.pc = "await"]
        BY DEF createBarePod
      <3>2. ~createBarePod
        BY <1>1, <1>2, <2>1, <3>1 DEF Launch
      <3>3. QED  BY <1>2, <3>2, PodMove
    <2>4. run'.noted = run.noted
      <3>1. PersistNamespaces => launch' = [launch EXCEPT !.at = launch.at + 1]
        BY DEF PersistNamespaces, Advance
      <3>2. ~PersistNamespaces
        BY <1>1, <2>1, <3>1 DEF Launch
      <3>3. QED  BY <3>2, RunMove DEF RunMoves
    <2>5. ASSUME NEW call, Past(call)'  PROVE Past(call)
      BY <2>1, <2>5, PastMove
    <2>6. ASSUME s = "execution"  PROVE RolesIn(launch.option.ns)'
      <3>1. Shrinks
        BY <1>1, <1>5, OthersShrink
      <3>2. \A n \in Namespaces : grant'["execution"][n].there => grant["execution"][n].there
        BY <1>1, <2>6, <3>1, ShrinkFacts
      <3>3. QED  BY <2>1, <2>6, <3>2 DEF RolesIn, Setting
    <2>7. Setting(s)'
      BY <1>2, <1>3, <2>1, <2>2, <2>3, <2>4, <2>5, <2>6 DEF Setting
    <2>8. QED  BY <2>7
  <1>6. CASE SetupStep
    <2>1. Setting(s)'
      BY <1>3, <1>6, SettingCall DEF Setting
    <2>2. QED  BY <2>1
  <1>7. ASSUME Doing("pod")
        PROVE  /\ \A k \in {"input", "result"} :
                    grant[s][k].owners \subseteq {0} /\ grant[s][k].there
               /\ s = "execution" => RolesIn(run.noted)
    <2>1. Setup(s)[launch.at] = "pod"
      BY <1>2, <1>7 DEF Doing
    <2>2. /\ \A k \in {"input", "result"} : Past(k)
          /\ s = "execution" => Past("note")
      BY <1>2, <1>4, <2>1, PodComesLast DEF Past
    <2>3. QED  BY <2>2 DEF Setting, RolesIn
  <1>8. CASE createBarePod
    <2>1. Doing("pod") /\ grant' = grant /\ run' = run
      BY <1>8 DEF createBarePod
    <2>2. pod[s].ph = "none"
      BY <1>2 DEF NoPod
    <2>3. PICK u : launch' = [launch EXCEPT !.pc = "own", !.uid = u]
      BY <1>2, <1>8, <2>2 DEF createBarePod
    <2>4. launch'.pc = "own" /\ launch'.step = s
      BY <1>1, <1>2, <2>3 DEF Launch
    <2>5. Handing(s)'
      BY <1>3, <1>7, <2>1, <2>4 DEF Handing, RolesIn
    <2>6. QED  BY <2>5
  <1>9. CASE /\ Doing("pod") /\ launch'.pc = "fail" /\ run' = run
             /\ Shrinks /\ ~grant'[s]["result"].there
    <2>1. ASSUME s = "execution"  PROVE RolesIn(run.noted)'
      <3>1. \A n \in Namespaces : grant'["execution"][n].there => grant["execution"][n].there
        BY <1>1, <1>9, <2>1, ShrinkFacts
      <3>2. QED  BY <1>7, <1>9, <2>1, <3>1 DEF RolesIn
    <2>2. Settled(s)'
      BY <1>3, <1>9, <2>1 DEF Settled, Building
    <2>3. QED  BY <2>2
  <1>10. CASE Worker
    BY <1>1, <1>2, <1>6, <1>8, <1>9, <1>10, SetupContinues
  <1>11. QED  BY <1>1, <1>5, <1>10, SoundCases

\* The Pod becomes an owner of the result role.
LEMMA HandingStep ==
    ASSUME BaseInv, [Next]_vars, Sound, ~run.feedback, NEW s \in Steps, Handing(s)
    PROVE  (Handing(s) \/ Settled(s))'
  <1>1. TypeOK /\ LaunchInv /\ ~Fault
    BY SoundIsFaultless DEF BaseInv
  <1>2. launch.step = s /\ launch.pc = "own" /\ Begun(s)
    BY DEF Handing
  <1>3. Begun(s)'
    BY <1>2, BegunStays
  <1>4. ASSUME s = "execution"  PROVE RolesIn(run.noted)'
    <2>1. RolesIn(run.noted)
      BY <1>4 DEF Handing
    <2> DEFINE names == run.noted
    <2> HIDE DEF names
    <2>2. RolesIn(names)
      BY <2>1 DEF names
    <2>3. (\A n \in Namespaces : grant'["execution"][n].there => n \in names)
          /\ run'.noted = run.noted
      BY <1>2, <2>1, RolesStay DEF names, RolesIn
    <2>4. QED  BY <2>3 DEF RolesIn, names
  <1>5. CASE Others
    <2>1. launch' = launch
      BY <1>5, OthersLeaveLaunch
    <2>2. ASSUME NEW k \in {"input", "result"}  PROVE grant'[s][k] = grant[s][k]
      BY <1>2, <1>5, OthersKeepInput DEF Handing
    <2>3. Handing(s)'
      BY <1>2, <1>3, <1>4, <2>1, <2>2 DEF Handing
    <2>4. QED  BY <2>3
  <1>6. CASE Worker
    <2>1. Create
      BY <1>2, <1>6 DEF Worker, AddFinalizers, handleStep, ClearTerminalLabel,
         handleRevision, patchSandboxInfo, failStep, handleFailed, handleTerminalCleanup,
         StampTerminalTime, LabelTerminalRun, ReleaseDeleted, handleTemplogCleanup,
         Reconciling, Finalizing
    <2>2. SetOwners
      BY <1>1, <1>2, <2>1 DEF Create, spokeAccessForRun, ensureSA, addReaderSubject,
         addReaderSubjectOnSpoke, ensureSandboxKubeconfig, ensureExecutionRBAC,
         PersistNamespaces, createInputConfigMap, ensureResultRBAC, createBarePod,
         waitForPodDeletion, cleanupOnCreateFailure, SetOwnersFails, Ensure, Doing
    <2>3. launch'.pc \in {"ref", "fail"} /\ grant'[s]["result"].owners # {}
      BY <1>1, <1>2, <2>2, SetOwnersTyped DEF Handing
    <2>4. Settled(s)'
      BY <1>3, <1>4, <2>3 DEF Settled, Building
    <2>5. QED  BY <2>4
  <1>7. QED  BY <1>1, <1>5, <1>6, SoundCases

\* A launch that is over is not repeated.
LEMMA SettledStep ==
    ASSUME BaseInv, [Next]_vars, Sound, ~run.feedback, NEW s \in Steps, Settled(s)
    PROVE  Settled(s)'
  <1>1. TypeOK /\ "result" \in Kinds
    BY DEF BaseInv, Kinds, Objects
  <1>2. Begun(s) /\ (launch.pc \in Building => launch.step # s)
    BY DEF Settled
  <1>3. Begun(s)' /\ ~handleRevision /\ (handleStep => launch'.step # s)
    BY <1>2, BegunStays
  <1>4. launch'.pc \in Building => launch'.step # s
    <2>1. CASE Others
      BY <1>2, <2>1, OthersLeaveLaunch
    <2>2. CASE Worker
      BY <1>2, <1>3, <2>2, WorkerMove DEF Building, Launching
    <2>3. QED  BY <1>1, <2>1, <2>2, SoundCases
  <1>5. ASSUME grant'[s]["result"].there  PROVE grant'[s]["result"].owners # {}
    <2>1. launch.pc = "setup" => launch.step # s
      BY <1>2 DEF Building
    <2>2. grant[s]["result"].there /\ grant[s]["result"].owners # {}
      BY <1>1, <1>5, <2>1, NothingBeforeLaunch DEF Settled
    <2>3. CASE Shrinks
      BY <1>1, <1>5, <2>2, <2>3, ShrinkFacts
    <2>4. ASSUME NEW k \in Kinds, NEW owners \in {{}, {0}}, Grows(k, owners)
          PROVE  grant'[s]["result"] = grant[s]["result"]
      BY <1>1, <2>1, <2>4, GrowFacts
    <2>5. CASE OwnersSet
      BY <1>1, <2>2, <2>5 DEF OwnersSet
    <2>6. QED  BY <2>2, <2>3, <2>4, <2>5, GrantMove DEF GrantMoves
  <1>6. ASSUME s = "execution"  PROVE RolesIn(run.noted)'
    <2>1. RolesIn(run.noted) /\ (launch.pc = "setup" => launch.step # "execution")
      BY <1>2, <1>6 DEF Settled, Building
    <2>2. (\A n \in Namespaces : grant'["execution"][n].there => n \in run.noted)
          /\ run'.noted = run.noted
      BY <2>1, RolesStay DEF RolesIn
    <2>3. QED  BY <2>2 DEF RolesIn
  <1>7. QED  BY <1>3, <1>4, <1>5, <1>6 DEF Settled

\* Without a fault and without a revision each step is launched once.
LEMMA OnceEachStep ==
    ASSUME BaseInv, [Next]_vars, Sound, spoke = "ready", run'.revisions = 0,
           run.revisions = 0 => OnceEach
    PROVE  OnceEach'
  <1>1. run.revisions = 0 /\ (run'.feedback => run.feedback)
    BY StageMove DEF StageMoves
  <1>2. ~run.feedback /\ \A s \in Steps : Waiting(s) \/ Setting(s) \/ Handing(s) \/ Settled(s)
    BY <1>1 DEF OnceEach
  <1>3. ASSUME NEW s \in Steps
        PROVE  (Waiting(s) \/ Setting(s) \/ Handing(s) \/ Settled(s))'
    BY <1>2, WaitingStep, SettingStep, HandingStep, SettledStep
  <1>4. QED  BY <1>1, <1>2, <1>3 DEF OnceEach

\* As long as nothing has failed, the first analysis is recorded and the finalizer
\* leaves no access that the run still knows of.
LEMMA FaultlessStep ==
    ASSUME BaseInv, GrantInv, Faultless, [Next]_vars  PROVE Faultless'
  <1>1. faults \in Nat /\ TypeOK
    BY DEF BaseInv, TypeOK
  <1>2. faults' = faults \/ faults' < faults
    BY <1>1, FaultsFall
  <1>3. faults' \in Nat
    BY BaseStep DEF BaseInv, TypeOK
  <1>4. faults' <= MaxFaults
    BY <1>1, <1>2, <1>3 DEF Faultless
  <1>5. ASSUME faults' = MaxFaults
        PROVE  /\ spoke' = "ready" /\ AccessRemoved' /\ FirstLaunch'
               /\ run'.revisions = 0 => OnceEach'
    <2>1. Sound /\ faults = MaxFaults
      BY <1>1, <1>2, <1>3, <1>5 DEF Faultless, Sound
    <2>2. spoke = "ready" /\ AccessRemoved /\ FirstLaunch
      BY <2>1 DEF Faultless
    <2>3. ~Fault
      BY <1>1, <2>1, SoundIsFaultless
    <2>4. spoke' = "ready"
      <3>1. CASE SpokeChanges
        BY <2>2, <2>3, <3>1 DEF SpokeChanges
      <3>2. CASE spoke' = spoke
        BY <2>2, <3>2
      <3>3. CASE Worker
        <4>1. CASE Create
          BY <3>2, <4>1, SetupMoves DEF Create, SetupStep, spokeAccessForRun, createBarePod,
             waitForPodDeletion, cleanupOnCreateFailure, SetOwners, SetOwnersFails,
             WorkerFrame
        <4>2. CASE handleStep \/ handleRevision
          BY <1>1, <3>2, <4>2, StepStarted
        <4>3. QED
          BY <3>2, <3>3, <4>1, <4>2 DEF Worker, AddFinalizers, ClearTerminalLabel,
             patchSandboxInfo, failStep, handleFailed, handleTerminalCleanup,
             StampTerminalTime, LabelTerminalRun, ReleaseDeleted, handleTemplogCleanup,
             WorkerFrame
      <3>4. CASE Others
        BY <3>1, <3>2, <3>4 DEF Others, Handler, releaseBarePod, ReleaseGrants,
           HandlerFrame, completeStep, sweepExpiredRuns, UserDeletes, GiveFeedback,
           DeadlinePasses, OutsideRun, Cluster, PodRemoved, Collect, PodEnds, vars
      <3>5. QED  BY <1>1, <2>1, <3>3, <3>4, SoundCases
    <2>5. AccessRemoved'
      BY <2>1, <2>2, AccessRemovedStep
    <2>6. FirstLaunch'
      BY <2>1, <2>2, FirstLaunchStep
    <2>7. run'.revisions = 0 => OnceEach'
      BY <2>1, <2>2, OnceEachStep DEF Faultless
    <2>8. QED  BY <2>4, <2>5, <2>6, <2>7
  <1>6. QED  BY <1>4, <1>5 DEF Faultless

\* The inductive invariant.
AccessInv == BaseInv /\ GrantInv /\ Faultless

\* Initially there is nothing.
LEMMA AccessInit ==
    ASSUME Init  PROVE GrantInv /\ Faultless
  <1>1. TypeOK /\ "analysis" \in Steps /\ "execution" \in Steps
    BY BaseInit DEF BaseInv, Steps
  <1>2. \A s \in Steps, k \in Kinds : grant[s][k] = Absent
    BY DEF Init
  <1>3. \A s \in Steps, k \in Kinds : ~grant[s][k].there
    BY <1>2 DEF Absent
  <1>4. GrantInv
    <2>1. run.noted \subseteq Namespaces
      BY <1>1 DEF TypeOK, Run
    <2>2. QED  BY <1>1, <1>3, <2>1 DEF GrantInv, Kinds, Objects
  <1>5. launch.pc = "idle" /\ release.pc = "idle" /\ spoke = "ready" /\ faults = MaxFaults
    BY DEF Init, LaunchIdle, ReleaseIdle
  <1>6. pod["analysis"] = NoPod
    BY <1>1 DEF Init
  <1>7. NotBegun
    BY <1>1, <1>3, <1>5, <1>6 DEF NotBegun, Got, Launching
  <1>8. FirstLaunch
    BY <1>5, <1>7 DEF FirstLaunch
  <1>9. AccessRemoved
    <2>1. run.noted \subseteq Namespaces
      BY <1>1 DEF TypeOK, Run
    <2>2. QED  BY <1>3, <2>1 DEF AccessRemoved, Kinds, Objects
  <1>10. OnceEach
    <2>1. ~run.feedback /\ \A s \in Steps : pod[s] = NoPod
      BY DEF Init
    <2>2. \A s \in Steps : Waiting(s)
      BY <1>3, <1>5, <2>1 DEF Waiting, Launching
    <2>3. QED  BY <2>1, <2>2 DEF OnceEach
  <1>11. QED  BY <1>4, <1>5, <1>8, <1>9, <1>10 DEF Faultless

\* What is left when the run is gone follows from what held while it was deleted.
LEMMA NothingLeft ==
    ASSUME BaseInv, GrantInv, Faultless  PROVE DeletedRunLeavesNothing
  <1>1. Gone => "rbac" \notin run.finalizers /\ run.finalizers = {}
    BY DEF BaseInv, FinalizerInv
  <1>2. ASSUME Gone, spoke # "missing", NEW s \in Steps
        PROVE  \A k \in {"cluster"} \cup run.noted : ~grant[s][k].there
    <2>1. run.noted \subseteq Namespaces
      BY DEF BaseInv, TypeOK, Run
    <2>2. QED  BY <1>1, <1>2, <2>1 DEF GrantInv, Steps
  <1>3. ASSUME Collected, faults = MaxFaults, NEW s \in Steps, NEW k \in Kinds,
               k # "result", k \notin Namespaces \ run.noted
        PROVE  ~grant[s][k].there
    <2>1. Gone /\ pod[s] = NoPod /\ ~Collectable(s, k)
      BY <1>3 DEF Collected
    <2>2. CASE k \in {"sa", "reader", "cluster"} \cup run.noted
      BY <1>1, <1>3, <2>1, <2>2 DEF Faultless, AccessRemoved
    <2>3. CASE k \in {"input", "secret"}
      <3>1. SUFFICES ASSUME grant[s][k].there  PROVE FALSE
        OBVIOUS
      <3>2. grant[s][k].owners # {}
        BY <2>3, <3>1 DEF GrantInv
      <3>3. pod[s].uid = 0
        BY <2>1 DEF NoPod
      <3>4. Collectable(s, k)
        BY <2>1, <3>1, <3>2, <3>3 DEF Collectable
      <3>5. QED  BY <2>1, <3>4
    <2>4. QED  BY <1>3, <2>2, <2>3 DEF Kinds, Objects
  <1>4. Gone /\ logs => run.attempts = templogMaxCleanupAttempts
    BY <1>1 DEF BaseInv, FinalizerInv
  <1>5. ASSUME Collected, faults = MaxFaults, run.revisions = 0, NEW s \in Steps,
               NEW k \in Kinds, grant[s][k].there
        PROVE  FALSE
    <2>1. Gone /\ launch.pc = "idle" /\ pod[s] = NoPod /\ ~Collectable(s, k)
      BY <1>5 DEF Collected
    <2>2. k = "result" \/ k \in Namespaces \ run.noted
      BY <1>3, <1>5
    <2>3. Waiting(s) \/ Settled(s)
      BY <1>5, <2>1 DEF Faultless, OnceEach, Setting, Handing
    <2>4. Settled(s)
      BY <1>5, <2>3 DEF Waiting
    <2>5. CASE k = "result"
      <3>1. pod[s].uid = 0
        BY <2>1 DEF NoPod
      <3>2. Collectable(s, k)
        BY <1>5, <2>1, <2>4, <2>5, <3>1 DEF Collectable, Settled
      <3>3. QED  BY <2>1, <3>2
    <2>6. CASE k \in Namespaces \ run.noted /\ s = "analysis"
      BY <1>5, <2>6 DEF GrantInv
    <2>7. CASE k \in Namespaces \ run.noted /\ s = "execution"
      BY <1>5, <2>4, <2>7 DEF Settled, RolesIn
    <2>8. QED  BY <2>2, <2>5, <2>6, <2>7 DEF Steps
  <1>6. ASSUME Collected, faults = MaxFaults, NEW s \in Steps, NEW k \in Kinds,
               grant[s][k].there
        PROVE  run.revisions > 0 /\ (k = "result" \/ k \in Namespaces \ run.noted)
    <2>1. run.revisions \in Nat
      BY DEF BaseInv, TypeOK, Run
    <2>2. QED  BY <1>3, <1>5, <1>6, <2>1
  <1>7. QED  BY <1>2, <1>4, <1>6 DEF DeletedRunLeavesNothing

\* The finalizers: once a run is gone, neither its cluster role nor a role in a namespace
\* its annotation names is left, unless the kubeconfig of its spoke is missing.  If
\* nothing failed and the run was not revised, nothing at all is left; if it was revised,
\* all that can be left is a result role and roles in namespaces that the annotation does
\* not name any more.  Records of the Collector are left only after three failed attempts.
\* For any number of launches, revisions, options, retries, crashes and failed calls.
THEOREM DeletedRunLeavesNothingAlways == Spec => []DeletedRunLeavesNothing
  <1>1. Init => AccessInv
    BY BaseInit, AccessInit DEF AccessInv
  <1>2. AccessInv /\ [Next]_vars => AccessInv'
    BY BaseStep, GrantInvStep, FaultlessStep DEF AccessInv
  <1>3. AccessInv => DeletedRunLeavesNothing
    BY NothingLeft DEF AccessInv
  <1>4. QED  BY <1>1, <1>2, <1>3, PTL DEF Spec
=============================================================================
