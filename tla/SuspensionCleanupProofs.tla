---------------------- MODULE SuspensionCleanupProofs ----------------------
(***************************************************************************)
(* Theorems about SuspensionCleanup: types, and that a clean-up pass       *)
(* leaves somebody else's Pod alone, for any number of passes at once.     *)
(***************************************************************************)
EXTENDS SuspensionCleanup, TLAPS

USE CleanupAssumption

----------------------------------------------------------------------------
(* The notes of a pass keep their type.                                     *)

LEMMA NothingTyped ==
    NoClaim \in Claim /\ NoSandbox \in Sandbox /\ NoPod \in Pod /\ PassIdle \in Pass
  <1>1. NoClaim \in Claim /\ NoSandbox \in Sandbox /\ NoPod \in Pod
    BY DEF NoClaim, Claim, NoSandbox, Sandbox, NoPod, Pod, Labels
  <1>2. QED  BY <1>1 DEF PassIdle, Pass, PassPCs, Lists

LEMMA ToExtrasTyped ==
    ASSUME NEW p \in Pass  PROVE ToExtras(p) \in Pass
  BY NothingTyped DEF ToExtras, PassIdle, Pass, PassPCs, Lists

LEMMA UnverifiedTyped ==
    ASSUME NEW p \in Pass  PROVE Unverified(p) \in Pass
  BY DEF Unverified, Pass

LEMMA ListedTyped ==
    ASSUME NEW p \in Pass, NEW kind \in Lists, NEW pc \in PassPCs
    PROVE  Listed(p, kind, pc) \in Pass
  BY DEF Listed, Pass

LEMMA ToPodsTyped ==
    ASSUME NEW p \in Pass  PROVE ToPods(p) \in Pass
  <1>1. [p EXCEPT !.pc = "pod", !.parent = FALSE] \in Pass
    BY DEF Pass, PassPCs
  <1>2. [p EXCEPT !.clean = @ /\ ~("pods" \in p.ok /\ p.pod.label = "bad")] \in Pass
    BY DEF Pass
  <1>3. QED  BY <1>1, <1>2, ToExtrasTyped DEF ToPods

LEMMA PlannedTyped ==
    ASSUME NEW p \in Pass, NEW sb \in Sandbox  PROVE Planned(p, sb) \in Pass
  <1> DEFINE w == suspensionSandboxWork(p, sb)
             q == [p EXCEPT !.work = w, !.claim = NoClaim,
                     !.under = ownerClaim(p, sb),
                     !.claimWork = IF claimWork(p) /\ ~claimBlocked(p, sb)
                                   THEN p.claim.uid ELSE 0,
                     !.clean = @ /\ ~inventoryUnverified(p, sb)]
  <1>1. w \in Nat
    BY DEF suspensionSandboxWork, Sandbox
  <1>2. ownerClaim(p, sb) \in BOOLEAN /\ inventoryUnverified(p, sb) \in BOOLEAN
    BY DEF ownerClaim, claimWork, inventoryUnverified
  <1>3. p.claim.uid \in Nat /\ p.clean \in BOOLEAN
    BY DEF Pass, Claim
  <1>4. q \in Pass
    <2> HIDE DEF w
    <2>1. QED  BY <1>1, <1>2, <1>3, NothingTyped DEF Pass
  <1>5. [q EXCEPT !.pc = "identity", !.parent = TRUE] \in Pass
    <2> HIDE DEF q
    <2>1. QED  BY <1>4 DEF Pass, PassPCs
  <1>6. ToPods(q) \in Pass
    <2> HIDE DEF q
    <2>1. QED  BY <1>4, ToPodsTyped
  <1>7. QED  BY <1>5, <1>6 DEF Planned

LEMMA PlannedBlindTyped ==
    ASSUME NEW p \in Pass  PROVE PlannedBlind(p) \in Pass
  <1>1. [p EXCEPT !.claim = NoClaim, !.clean = FALSE] \in Pass
    BY NothingTyped DEF Pass
  <1>2. QED  BY <1>1, ToPodsTyped DEF PlannedBlind

LEMMA BlockTyped ==
    ASSUME NEW p \in Pass  PROVE Block(p) \in Pass
  <1>1. [p EXCEPT !.clean = FALSE, !.claimWork = IF p.under THEN 0 ELSE @] \in Pass
    BY DEF Pass
  <1>2. QED  BY <1>1, ToPodsTyped DEF Block

LEMMA PodSafeTyped ==
    ASSUME NEW p \in Pass  PROVE PodSafe(p) \in Pass /\ PodUnsafe(p) \in Pass
  <1>1. [p EXCEPT !.pc = "sandbox"] \in Pass
    BY DEF Pass, PassPCs
  <1>2. QED
    BY <1>1, BlockTyped, ToExtrasTyped, UnverifiedTyped DEF PodSafe, PodUnsafe

LEMMA ToTyped ==
    ASSUME TypeOK, NEW c \in Cleaners, NEW p \in Pass, To(c, p)
    PROVE  pass' \in [Cleaners -> Pass]
  BY DEF TypeOK, To

LEMMA FaultTyped ==
    ASSUME TypeOK, Fault \/ UNCHANGED faults  PROVE faults' \in Nat
  BY DEF TypeOK, Fault

----------------------------------------------------------------------------
(* Types.                                                                   *)

LEMMA TypeInventory ==
    ASSUME TypeOK, NEW c \in Cleaners, ListPods(c) \/ ListClaims(c) \/ ListSandboxes(c)
    PROVE  TypeOK'
  <1>1. faults' \in Nat /\ UNCHANGED <<world, tampered>>
    BY DEF TypeOK, ListPods, ListClaims, ListSandboxes, OrFault, Fault
  <1>2. pass[c] \in Pass
    BY DEF TypeOK
  <1>3. CASE ListPods(c)
    <2> DEFINE p == [PassIdle EXCEPT !.pod = pod, !.pc = "claims"]
    <2>1. p \in Pass
      BY NothingTyped DEF TypeOK, Pass, PassPCs
    <2> HIDE DEF p
    <2>2. Listed(p, "pods", "claims") \in Pass /\ Unverified(p) \in Pass
      BY <2>1, ListedTyped, UnverifiedTyped DEF Lists, PassPCs
    <2>3. To(c, Listed(p, "pods", "claims")) \/ To(c, Unverified(p))
      BY <1>3 DEF ListPods, OrFault, p
    <2>4. pass' \in [Cleaners -> Pass]
      BY <2>2, <2>3, ToTyped
    <2>5. QED  BY <1>1, <2>4 DEF TypeOK, world
  <1>4. CASE ListClaims(c)
    <2> DEFINE p == [pass[c] EXCEPT !.pc = "sandboxes"]
               q == Listed(p, "claims", "sandboxes")
    <2>1. p \in Pass
      BY <1>2 DEF Pass, PassPCs
    <2> HIDE DEF p
    <2>2. q \in Pass /\ Unverified(p) \in Pass
      BY <2>1, ListedTyped, UnverifiedTyped DEF Lists, PassPCs
    <2> HIDE DEF q
    <2>3. [q EXCEPT !.claim = claim] \in Pass
      BY <2>2 DEF Pass, TypeOK
    <2>4. To(c, [q EXCEPT !.claim = claim]) \/ To(c, Unverified(p))
      BY <1>4 DEF ListClaims, OrFault, p, q
    <2>5. pass' \in [Cleaners -> Pass]
      BY <2>2, <2>3, <2>4, ToTyped
    <2>6. QED  BY <1>1, <2>5 DEF TypeOK, world
  <1>5. CASE ListSandboxes(c)
    <2> DEFINE kinds == {k \in Kinds : extra[k] = "valid"}
               p == [pass[c] EXCEPT !.kinds = kinds,
                        !.clean = @ /\ \A k \in Kinds : extra[k] # "bad"]
               q == Planned(pass[c], sandbox)
    <2>1. p \in Pass
      BY <1>2 DEF Pass
    <2>2. sandbox \in Sandbox
      BY DEF TypeOK
    <2> HIDE DEF p
    <2>3. Planned(p, sandbox) \in Pass /\ PlannedBlind(p) \in Pass /\ q \in Pass
      BY <1>2, <2>1, <2>2, PlannedTyped, PlannedBlindTyped
    <2> HIDE DEF q
    <2>4. [q EXCEPT !.clean = FALSE] \in Pass
      BY <2>3 DEF Pass
    <2>5. \/ To(c, Planned(p, sandbox)) \/ To(c, PlannedBlind(p))
          \/ To(c, [q EXCEPT !.clean = FALSE]) \/ To(c, PassIdle)
      BY <1>5 DEF ListSandboxes, OrFault, p, q
    <2>6. pass' \in [Cleaners -> Pass]
      BY <2>3, <2>4, <2>5, ToTyped, NothingTyped
    <2>7. QED  BY <1>1, <2>6 DEF TypeOK, world
  <1>6. QED  BY <1>3, <1>4, <1>5

LEMMA TypeDelete ==
    ASSUME TypeOK, NEW c \in Cleaners,
           \/ SaveIdentity(c) \/ GetPod(c) \/ DeletePod(c) \/ confirmObjectGone(c)
           \/ DeleteSandbox(c) \/ DeleteExtras(c) \/ DeleteClaim(c)
    PROVE  TypeOK'
  <1>1. faults' \in Nat /\ UNCHANGED <<last, tampered>>
    BY DEF TypeOK, SaveIdentity, GetPod, DeletePod, confirmObjectGone, DeleteSandbox,
           DeleteExtras, DeleteClaim, Frame, OrFault, Fault
  <1>2. pass[c] \in Pass
    BY DEF TypeOK
  <1> DEFINE p == pass[c]
  <1> HIDE DEF p
  <1>3. /\ PodSafe(p) \in Pass /\ PodUnsafe(p) \in Pass /\ Block(p) \in Pass
        /\ ToPods(p) \in Pass /\ ToPods(Unverified(p)) \in Pass
    BY <1>2, PodSafeTyped, BlockTyped, ToPodsTyped, UnverifiedTyped DEF p
  <1>4. CASE SaveIdentity(c)
    <2>1. [p EXCEPT !.pc = "pod", !.handled = TRUE] \in Pass
      BY <1>2 DEF Pass, PassPCs, p
    <2>2. To(c, [p EXCEPT !.pc = "pod", !.handled = TRUE]) \/ To(c, Block(p))
      BY <1>4 DEF SaveIdentity, OrFault, p
    <2>3. pass' \in [Cleaners -> Pass]
      BY <1>3, <2>1, <2>2, ToTyped
    <2>4. sandbox' \in Sandbox /\ UNCHANGED <<claim, pod, extra>>
      BY <1>4 DEF SaveIdentity, OrFault, Sandbox, Labels, TypeOK
    <2>5. QED  BY <1>1, <2>3, <2>4 DEF TypeOK
  <1>5. CASE GetPod(c)
    <2> DEFINE q == [p EXCEPT !.safe = PodOwned(p), !.clean = @ /\ PodOwned(p)]
               r == [q EXCEPT !.completed = p.parent]
    <2>1. q \in Pass
      BY <1>2 DEF Pass, PodOwned, p
    <2> HIDE DEF q
    <2>2. r \in Pass /\ [q EXCEPT !.pc = "delete", !.got = pod.uid] \in Pass
      BY <1>2, <2>1 DEF Pass, PassPCs, TypeOK, Pod, p
    <2> HIDE DEF r
    <2>3. PodSafe(r) \in Pass
      BY <2>2, PodSafeTyped
    <2>4. \/ To(c, PodSafe(p)) \/ To(c, PodUnsafe(p)) \/ To(c, PodSafe(r))
          \/ To(c, [q EXCEPT !.pc = "delete", !.got = pod.uid])
      BY <1>5, Zenon DEF GetPod, OrFault, p, q, r
    <2>5. pass' \in [Cleaners -> Pass]
      BY <1>3, <2>2, <2>3, <2>4, ToTyped
    <2>6. pod' \in Pod /\ UNCHANGED <<claim, sandbox, extra>>
      BY <1>5 DEF GetPod, OrFault, Pod, Labels, TypeOK
    <2>7. QED  BY <1>1, <2>5, <2>6 DEF TypeOK
  <1>6. CASE DeletePod(c)
    <2>1. [p EXCEPT !.pc = "gone"] \in Pass
      BY <1>2 DEF Pass, PassPCs, p
    <2>2. To(c, [p EXCEPT !.pc = "gone"]) \/ To(c, PodUnsafe(p))
      BY <1>6 DEF DeletePod, OrFault, p
    <2>3. pass' \in [Cleaners -> Pass]
      BY <1>3, <2>1, <2>2, ToTyped
    <2>4. pod' \in Pod /\ UNCHANGED <<claim, sandbox, extra>>
      BY <1>6, NothingTyped DEF DeletePod, OrFault, TypeOK
    <2>5. QED  BY <1>1, <2>3, <2>4 DEF TypeOK
  <1>7. CASE confirmObjectGone(c)
    <2>1. To(c, PodSafe(p)) \/ To(c, PodUnsafe(p))
      BY <1>7 DEF confirmObjectGone, OrFault, p
    <2>2. pass' \in [Cleaners -> Pass]
      BY <1>3, <2>1, ToTyped
    <2>3. QED  BY <1>1, <1>7, <2>2 DEF TypeOK, confirmObjectGone
  <1>8. CASE DeleteSandbox(c)
    <2>1. To(c, ToPods(p)) \/ To(c, Block(p)) \/ To(c, ToPods(Unverified(p)))
      BY <1>8 DEF DeleteSandbox, OrFault, p
    <2>2. pass' \in [Cleaners -> Pass]
      BY <1>3, <2>1, ToTyped
    <2>3. sandbox' \in Sandbox /\ UNCHANGED <<claim, pod, extra>>
      BY <1>8, NothingTyped DEF DeleteSandbox, OrFault, Sandbox, TypeOK
    <2>4. QED  BY <1>1, <2>2, <2>3 DEF TypeOK
  <1>9. CASE DeleteExtras(c)
    <2> DEFINE after == [p EXCEPT !.pc = IF p.claimWork = 0 THEN "pods?" ELSE "claim"]
    <2>1. after \in Pass
      BY <1>2 DEF Pass, PassPCs, p
    <2> HIDE DEF after
    <2>2. Unverified(after) \in Pass
      BY <2>1, UnverifiedTyped
    <2>3. To(c, after) \/ To(c, Unverified(after))
      BY <1>9 DEF DeleteExtras, OrFault, p, after
    <2>4. pass' \in [Cleaners -> Pass]
      BY <2>1, <2>2, <2>3, ToTyped
    <2>5. \E S \in SUBSET Kinds :
             extra' = [k \in Kinds |-> IF k \in S THEN "gone" ELSE extra[k]]
      <3>1. p.kinds \in SUBSET Kinds
        BY <1>2 DEF Pass, p
      <3>2. QED  BY <1>9, <3>1 DEF DeleteExtras, OrFault, p
    <2>6. extra' \in [Kinds -> {"absent", "valid", "bad", "gone"}]
      BY <2>5 DEF TypeOK
    <2>7. UNCHANGED <<claim, sandbox, pod>>
      BY <1>9 DEF DeleteExtras
    <2>8. QED  BY <1>1, <2>4, <2>6, <2>7 DEF TypeOK
  <1>10. CASE DeleteClaim(c)
    <2> DEFINE q == [p EXCEPT !.pc = "pods?", !.claimWork = 0]
    <2>1. q \in Pass
      BY <1>2 DEF Pass, PassPCs, p
    <2> HIDE DEF q
    <2>2. Unverified(q) \in Pass
      BY <2>1, UnverifiedTyped
    <2>3. To(c, q) \/ To(c, Unverified(q))
      BY <1>10 DEF DeleteClaim, OrFault, p, q
    <2>4. pass' \in [Cleaners -> Pass]
      BY <2>1, <2>2, <2>3, ToTyped
    <2>5. claim' \in Claim /\ UNCHANGED <<sandbox, pod, extra>>
      BY <1>10, NothingTyped DEF DeleteClaim, OrFault, TypeOK
    <2>6. QED  BY <1>1, <2>4, <2>5 DEF TypeOK
  <1>11. QED  BY <1>4, <1>5, <1>6, <1>7, <1>8, <1>9, <1>10

LEMMA TypeConfirm ==
    ASSUME TypeOK, NEW c \in Cleaners,
           ConfirmPods(c) \/ ConfirmClaims(c) \/ ConfirmRest(c) \/ Return(c) \/ Abandon(c)
    PROVE  TypeOK'
  <1>1. ASSUME NEW pc \in PassPCs, NEW next \in PassPCs, NEW empty \in BOOLEAN,
               Confirming(c, pc, next, empty)
        PROVE  TypeOK'
    <2> DEFINE p == [pass[c] EXCEPT !.pc = next]
    <2>1. p \in Pass
      BY DEF TypeOK, Pass
    <2> HIDE DEF p
    <2>2. [p EXCEPT !.clean = @ /\ empty] \in Pass /\ Unverified(p) \in Pass
      BY <2>1, UnverifiedTyped DEF Pass
    <2>3. To(c, [p EXCEPT !.clean = @ /\ empty]) \/ To(c, Unverified(p))
      BY <1>1 DEF Confirming, OrFault, p
    <2>4. pass' \in [Cleaners -> Pass]
      BY <2>2, <2>3, ToTyped
    <2>5. faults' \in Nat /\ UNCHANGED <<claim, sandbox, pod, extra, last, tampered>>
      BY <1>1 DEF Confirming, OrFault, Fault, Frame, TypeOK
    <2>6. QED  BY <2>4, <2>5 DEF TypeOK
  <1>2. CASE ConfirmPods(c)
    BY <1>1, <1>2 DEF ConfirmPods, PassPCs
  <1>3. CASE ConfirmClaims(c)
    BY <1>1, <1>3 DEF ConfirmClaims, PassPCs
  <1>4. CASE ConfirmRest(c)
    BY <1>1, <1>4 DEF ConfirmRest, NoExtras, PassPCs
  <1>5. CASE Return(c) \/ Abandon(c)
    <2>1. pass' \in [Cleaners -> Pass]
      BY <1>5, NothingTyped, ToTyped DEF Return, Abandon
    <2>2. faults' \in Nat /\ UNCHANGED <<world, tampered>>
      BY <1>5 DEF Return, Abandon, Fault, TypeOK
    <2>3. QED  BY <2>1, <2>2 DEF TypeOK, world
  <1>6. QED  BY <1>2, <1>3, <1>4, <1>5

\* A new UID; the others stay.
LEMMA NewTyped ==
    ASSUME TypeOK, NEW o \in {"claim", "sandbox", "pod"}, New(o)
    PROVE  last' \in [{"claim", "sandbox", "pod"} -> Nat] /\ last[o] + 1 \in Nat
  BY DEF New, TypeOK

LEMMA NewPodTyped ==
    ASSUME TypeOK, NEW label \in Labels, NEW owner \in Nat, NEW mine \in BOOLEAN,
           NewPod(label, owner, mine)
    PROVE  pod' \in Pod /\ last' \in [{"claim", "sandbox", "pod"} -> Nat]
  BY NewTyped DEF NewPod, Pod

LEMMA TypeWorld ==
    ASSUME TypeOK, WorldNext  PROVE TypeOK'
  <1>1. CASE createSandboxClaim
    <2>1. last' \in [{"claim", "sandbox", "pod"} -> Nat] /\ claim' \in Claim
      BY <1>1, NewTyped DEF createSandboxClaim, Claim, Labels
    <2>2. QED  BY <1>1, <2>1 DEF createSandboxClaim, World, TypeOK
  <1>2. CASE createBarePod
    BY <1>2, NewPodTyped DEF createBarePod, World, Labels, TypeOK
  <1>3. CASE ForeignPod
    BY <1>3, NewPodTyped DEF ForeignPod, World, Labels, TypeOK
  <1>4. CASE MakeSandbox
    <2>1. last' \in [{"claim", "sandbox", "pod"} -> Nat] /\ sandbox' \in Sandbox
      BY <1>4, NewTyped DEF MakeSandbox, Sandbox, Labels, TypeOK, Claim
    <2>2. QED  BY <1>4, <2>1 DEF MakeSandbox, World, TypeOK
  <1>5. CASE MakePod
    <2>1. sandbox.uid \in Nat
      BY DEF TypeOK, Sandbox
    <2>2. QED  BY <1>5, <2>1, NewPodTyped DEF MakePod, World, Labels, TypeOK
  <1>6. CASE BindClaim
    BY <1>6 DEF BindClaim, World, TypeOK, Claim
  <1>7. CASE CollectSandbox \/ CollectPod \/ RemovePod \/ releaseSandboxClaimPod
    BY <1>7, NothingTyped
       DEF CollectSandbox, CollectPod, RemovePod, releaseSandboxClaimPod, World, TypeOK
  <1>8. CASE OrphanPod
    BY <1>8, NothingTyped DEF OrphanPod, World, TypeOK, Pod
  <1>9. CASE PodEnds
    BY <1>9 DEF PodEnds, World, TypeOK, Pod
  <1>10. CASE releaseSandboxClaim
    <2>1. faults' \in Nat
      BY <1>10 DEF releaseSandboxClaim, OrFault, Fault, TypeOK
    <2>2. extra' \in [Kinds -> {"absent", "valid", "bad", "gone"}]
      BY <1>10 DEF releaseSandboxClaim, OrFault, TypeOK
    <2>3. QED  BY <1>10, <2>1, <2>2, NothingTyped DEF releaseSandboxClaim, TypeOK
  <1>11. CASE Tamper
    <2>1. faults' \in Nat /\ tampered' \in BOOLEAN /\ UNCHANGED <<pass, last>>
      BY <1>11 DEF Tamper, Fault, TypeOK
    <2>2. claim' \in Claim /\ sandbox' \in Sandbox /\ pod' \in Pod
      BY <1>11 DEF Tamper, TypeOK, Claim, Sandbox, Pod, Labels
    <2>3. extra' \in [Kinds -> {"absent", "valid", "bad", "gone"}]
      BY <1>11 DEF Tamper, TypeOK
    <2>4. QED  BY <2>1, <2>2, <2>3 DEF TypeOK
  <1>12. ASSUME NEW k \in Kinds, LaunchGrants(k)  PROVE TypeOK'
    BY <1>12 DEF LaunchGrants, World, TypeOK
  <1>13. QED
    BY <1>1, <1>2, <1>3, <1>4, <1>5, <1>6, <1>7, <1>8, <1>9, <1>10, <1>11, <1>12
       DEF WorldNext

\* Every variable of a clean-up keeps its type, for any set of cleaners and any bounds
\* (the records CleanupSuspension keeps between its API calls).
THEOREM TypeCorrect == Spec => []TypeOK
  <1>1. ASSUME Init  PROVE TypeOK
    <2>1. claim \in Claim /\ sandbox \in Sandbox /\ pod \in Pod
      BY <1>1, NothingTyped DEF Init
    <2>2. extra \in [Kinds -> {"absent", "valid", "bad", "gone"}]
      BY <1>1 DEF Init
    <2>3. pass \in [Cleaners -> Pass]
      BY <1>1, NothingTyped DEF Init
    <2>4. /\ last \in [{"claim", "sandbox", "pod"} -> Nat]
          /\ tampered \in BOOLEAN /\ faults \in Nat
      BY <1>1 DEF Init
    <2>5. QED  BY <2>1, <2>2, <2>3, <2>4 DEF TypeOK
  <1>2. TypeOK /\ [Next]_vars => TypeOK'
    <2> SUFFICES ASSUME TypeOK, [Next]_vars  PROVE TypeOK'
      OBVIOUS
    <2>1. CASE UNCHANGED vars
      BY <2>1 DEF vars, world, TypeOK
    <2>2. CASE WorldNext
      BY <2>2, TypeWorld
    <2>3. ASSUME NEW c \in Cleaners, CleanerNext(c) \/ Abandon(c)  PROVE TypeOK'
      BY <2>3, TypeInventory, TypeDelete, TypeConfirm DEF CleanerNext
    <2>4. QED  BY <2>1, <2>2, <2>3 DEF Next
  <1>3. QED  BY <1>1, <1>2, PTL DEF Spec

----------------------------------------------------------------------------
(* Somebody else's Pod.                                                     *)

\* The Pod a pass is about to delete is the run's, if it is still the Pod that was
\* read; a pass that deals with the Pod of a sandbox knows the sandbox.
PassKnowsPod(c) ==
    /\ pass[c].parent => pass[c].work # 0
    /\ pass[c].pc = "delete" =>
         /\ pass[c].got # 0 /\ pass[c].got <= last["pod"]
         /\ pod.uid = pass[c].got => pod.mine

\* Somebody else's Pod carries nothing of the run, and UIDs are not used again.
ForeignInv ==
    /\ ~pod.mine => pod.owner = 0 /\ pod.label = "none"
    /\ pod.uid <= last["pod"]
    /\ \A c \in Cleaners : PassKnowsPod(c)

\* A note after which the pass deletes no Pod next.
Quiet(p) == p \in Pass /\ (p.parent => p.work # 0) /\ p.pc # "delete"

\* What one pass does to its notes and to the Pod, the other passes stay as they are.
LEMMA PassStep ==
    ASSUME TypeOK, ForeignInv, NEW c \in Cleaners, NEW p \in Pass, To(c, p),
           last' = last, p.parent => p.work # 0,
           p.pc = "delete" => p.got # 0 /\ p.got = pod.uid /\ pod'.mine,
           \/ pod' = NoPod \/ pod' = pod
           \/ pod.mine /\ pod' = [pod EXCEPT !.label = "ours"]
    PROVE  ForeignInv'
  <1>1. pod \in Pod /\ last["pod"] \in Nat /\ pod.uid \in Nat
    BY DEF TypeOK, Pod
  <1>2. /\ pod'.uid \in {0, pod.uid} /\ (pod'.uid # 0 => pod'.mine = pod.mine)
        /\ ~pod'.mine => pod'.owner = 0 /\ pod'.label = "none"
    BY <1>1 DEF ForeignInv, NoPod, Pod
  <1>3. ASSUME NEW d \in Cleaners, d # c  PROVE PassKnowsPod(d)'
    <2>1. pass'[d] = pass[d] /\ PassKnowsPod(d)
      BY <1>3 DEF To, TypeOK, ForeignInv
    <2>2. QED  BY <1>2, <2>1 DEF PassKnowsPod
  <1>4. PassKnowsPod(c)'
    <2>1. pass'[c] = p
      BY DEF To, TypeOK
    <2>2. QED  BY <1>1, <2>1 DEF PassKnowsPod, ForeignInv
  <1>5. pod'.uid <= last'["pod"]
    BY <1>1, <1>2 DEF ForeignInv
  <1>6. QED  BY <1>2, <1>3, <1>4, <1>5 DEF ForeignInv

LEMMA QuietStep ==
    ASSUME TypeOK, ForeignInv, NEW c \in Cleaners, NEW p, Quiet(p), To(c, p),
           last' = last, pod' = NoPod \/ pod' = pod
    PROVE  ForeignInv'
  BY PassStep DEF Quiet

LEMMA QuietMoves ==
    ASSUME NEW p \in Pass
    PROVE  /\ Quiet(ToPods(p)) /\ Quiet(ToExtras(p)) /\ Quiet(Block(p))
           /\ Quiet(PodUnsafe(p))
           /\ (p.parent => p.work # 0) => Quiet(PodSafe(p))
  <1>1. ASSUME NEW q \in Pass  PROVE Quiet(ToExtras(q))
    BY ToExtrasTyped DEF Quiet, ToExtras, PassIdle
  <1>2. ASSUME NEW q \in Pass  PROVE Quiet(ToPods(q))
    <2> DEFINE r == [q EXCEPT !.clean = @ /\ ~("pods" \in q.ok /\ q.pod.label = "bad")]
    <2>1. r \in Pass
      BY DEF Pass
    <2> HIDE DEF r
    <2>2. Quiet(ToExtras(r))
      BY <1>1, <2>1
    <2>3. Quiet([q EXCEPT !.pc = "pod", !.parent = FALSE])
      BY DEF Quiet, Pass, PassPCs
    <2>4. QED  BY <2>2, <2>3 DEF ToPods, r
  <1>3. Quiet(Block(p))
    <2> DEFINE r == [p EXCEPT !.clean = FALSE, !.claimWork = IF p.under THEN 0 ELSE @]
    <2>1. r \in Pass
      BY DEF Pass
    <2> HIDE DEF r
    <2>2. QED  BY <1>2, <2>1 DEF Block, r
  <1>4. Quiet(PodUnsafe(p))
    BY <1>1, <1>3, UnverifiedTyped DEF PodUnsafe
  <1>5. ASSUME p.parent => p.work # 0  PROVE Quiet(PodSafe(p))
    <2>1. Quiet([p EXCEPT !.pc = "sandbox"])
      BY <1>5 DEF Quiet, Pass, PassPCs
    <2>2. QED  BY <1>1, <2>1 DEF PodSafe
  <1>6. QED  BY <1>1, <1>2, <1>3, <1>4, <1>5

LEMMA QuietUnverified ==
    ASSUME NEW p, Quiet(p)  PROVE Quiet(Unverified(p))
  BY UnverifiedTyped DEF Quiet, Unverified, Pass

LEMMA QuietPlanned ==
    ASSUME NEW p \in Pass, NEW sb \in Sandbox
    PROVE  Quiet(Planned(p, sb)) /\ Quiet(PlannedBlind(p))
  <1> DEFINE w == suspensionSandboxWork(p, sb)
             q == [p EXCEPT !.work = w, !.claim = NoClaim,
                     !.under = ownerClaim(p, sb),
                     !.claimWork = IF claimWork(p) /\ ~claimBlocked(p, sb)
                                   THEN p.claim.uid ELSE 0,
                     !.clean = @ /\ ~inventoryUnverified(p, sb)]
             r == [p EXCEPT !.claim = NoClaim, !.clean = FALSE]
  <1>1. w \in Nat
    BY DEF suspensionSandboxWork, Sandbox
  <1>2. ownerClaim(p, sb) \in BOOLEAN /\ inventoryUnverified(p, sb) \in BOOLEAN
    BY DEF ownerClaim, claimWork, inventoryUnverified
  <1>3. p.claim.uid \in Nat /\ p.clean \in BOOLEAN
    BY DEF Pass, Claim
  <1>4. q \in Pass /\ q.work = w /\ r \in Pass
    <2> HIDE DEF w
    <2>1. QED  BY <1>1, <1>2, <1>3, NothingTyped DEF Pass
  <1>5. CASE w # 0
    <2>1. Planned(p, sb) = [q EXCEPT !.pc = "identity", !.parent = TRUE]
      BY <1>5 DEF Planned
    <2> HIDE DEF q
    <2>2. Quiet([q EXCEPT !.pc = "identity", !.parent = TRUE])
      BY <1>4, <1>5 DEF Quiet, Pass, PassPCs
    <2>3. QED  BY <1>4, <2>1, <2>2, QuietMoves DEF PlannedBlind
  <1>6. CASE w = 0
    <2>1. Planned(p, sb) = ToPods(q)
      BY <1>6 DEF Planned
    <2> HIDE DEF q
    <2>2. QED  BY <1>4, <2>1, QuietMoves DEF PlannedBlind
  <1>7. QED  BY <1>5, <1>6

LEMMA ForeignInventory ==
    ASSUME TypeOK, ForeignInv, NEW c \in Cleaners,
           ListPods(c) \/ ListClaims(c) \/ ListSandboxes(c)
    PROVE  ForeignInv'
  <1>1. last' = last /\ pod' = pod
    BY DEF ListPods, ListClaims, ListSandboxes, world
  <1>2. pass[c] \in Pass /\ (pass[c].parent => pass[c].work # 0)
    BY DEF TypeOK, ForeignInv, PassKnowsPod
  <1>3. CASE ListPods(c)
    <2> DEFINE p == [PassIdle EXCEPT !.pod = pod, !.pc = "claims"]
    <2>1. Quiet(p) /\ Quiet(Listed(p, "pods", "claims"))
      BY NothingTyped DEF Quiet, Listed, TypeOK, Pass, PassPCs, PassIdle, Lists
    <2> HIDE DEF p
    <2>2. To(c, Listed(p, "pods", "claims")) \/ To(c, Unverified(p))
      BY <1>3 DEF ListPods, OrFault, p
    <2>3. QED  BY <1>1, <2>1, <2>2, QuietUnverified, QuietStep
  <1>4. CASE ListClaims(c)
    <2> DEFINE p == [pass[c] EXCEPT !.pc = "sandboxes"]
               q == [Listed(p, "claims", "sandboxes") EXCEPT !.claim = claim]
    <2>1. Quiet(p)
      BY <1>2 DEF Quiet, Pass, PassPCs
    <2> HIDE DEF p
    <2>2. Quiet(q)
      BY <2>1 DEF Quiet, Listed, TypeOK, Pass, PassPCs, Lists
    <2>3. To(c, q) \/ To(c, Unverified(p))
      BY <1>4 DEF ListClaims, OrFault, p
    <2> HIDE DEF q
    <2>4. QED  BY <1>1, <2>1, <2>2, <2>3, QuietUnverified, QuietStep
  <1>5. CASE ListSandboxes(c)
    <2> DEFINE kinds == {k \in Kinds : extra[k] = "valid"}
               p == [pass[c] EXCEPT !.kinds = kinds,
                        !.clean = @ /\ \A k \in Kinds : extra[k] # "bad"]
               q == Planned(pass[c], sandbox)
               r == [q EXCEPT !.clean = FALSE]
    <2>1. p \in Pass /\ sandbox \in Sandbox
      BY <1>2 DEF Pass, TypeOK
    <2> HIDE DEF p
    <2>2. Quiet(Planned(p, sandbox)) /\ Quiet(PlannedBlind(p)) /\ Quiet(q)
      BY <1>2, <2>1, QuietPlanned
    <2> HIDE DEF q
    <2>3. Quiet(r) /\ Quiet(PassIdle)
      BY <2>2, QuietUnverified, NothingTyped DEF Quiet, Unverified, PassIdle
    <2>4. \/ To(c, Planned(p, sandbox)) \/ To(c, PlannedBlind(p))
          \/ To(c, r) \/ To(c, PassIdle)
      BY <1>5 DEF ListSandboxes, OrFault, p, q
    <2> HIDE DEF r
    <2>5. QED  BY <1>1, <2>2, <2>3, <2>4, QuietStep
  <1>6. QED  BY <1>3, <1>4, <1>5

\* deleteSuspensionPod: the Pod it labels, and the Pod it notes for deletion, are
\* the run's, by their own label or by their owner.
LEMMA ForeignGetPod ==
    ASSUME TypeOK, ForeignInv, NEW c \in Cleaners, GetPod(c)
    PROVE  /\ ForeignInv' /\ pod'.uid = pod.uid
           /\ ~pod.mine => pod' = pod
  <1> DEFINE p == pass[c]
             q == [p EXCEPT !.safe = PodOwned(p), !.clean = @ /\ PodOwned(p)]
             r == [q EXCEPT !.completed = p.parent]
             s == [q EXCEPT !.pc = "delete", !.got = pod.uid]
  <1>1. p \in Pass /\ (p.parent => p.work # 0) /\ pod \in Pod /\ last' = last
    BY DEF TypeOK, ForeignInv, PassKnowsPod, GetPod, Frame
  <1>2. Quiet(PodSafe(p)) /\ Quiet(PodUnsafe(p))
    BY <1>1, QuietMoves
  <1> HIDE DEF p
  <1>3. q \in Pass /\ q.parent = p.parent /\ q.work = p.work
    BY <1>1 DEF Pass, PodOwned
  <1> HIDE DEF q
  <1>4. /\ r \in Pass /\ r.parent = p.parent /\ r.work = p.work
        /\ s \in Pass /\ s.parent = p.parent /\ s.work = p.work
        /\ s.got = pod.uid
    BY <1>1, <1>3 DEF Pass, PassPCs, Pod
  <1> HIDE DEF r, s
  <1>5. Quiet(PodSafe(r))
    BY <1>1, <1>4, QuietMoves
  <1>6. CASE pod' = pod /\ \/ To(c, PodSafe(p)) \/ To(c, PodUnsafe(p))
    BY <1>1, <1>2, <1>6, QuietStep
  <1>7. CASE /\ pod.uid # 0
             /\ pod.label = "ours" \/ (p.parent /\ PodOwned(p) /\ pod.label = "none")
             /\ pod' = IF p.parent THEN [pod EXCEPT !.label = "ours"] ELSE pod
             /\ To(c, IF pod.active THEN s ELSE PodSafe(r))
    <2>1. pod.mine
      BY <1>1, <1>7 DEF ForeignInv, PodOwned
    <2>2. /\ pod' = pod \/ pod' = [pod EXCEPT !.label = "ours"]
          /\ pod'.uid = pod.uid /\ pod'.mine = pod.mine
      BY <1>1, <1>7 DEF Pod
    <2>3. CASE To(c, s)
      BY <1>1, <1>4, <1>7, <2>1, <2>2, <2>3, PassStep
    <2>4. CASE To(c, PodSafe(r))
      BY <1>1, <1>5, <2>1, <2>2, <2>4, PassStep DEF Quiet
    <2>5. QED  BY <1>7, <2>1, <2>2, <2>3, <2>4
  <1>8. QED
    BY <1>6, <1>7, Zenon DEF GetPod, OrFault, p, q, r, s

\* The precondition on the UID: what was noted is the run's, or is not there.
LEMMA ForeignDeletePod ==
    ASSUME TypeOK, ForeignInv, NEW c \in Cleaners, DeletePod(c)
    PROVE  ForeignInv' /\ (pod.uid # 0 /\ ~pod.mine => pod' = pod)
  <1> DEFINE p == pass[c]
             q == [p EXCEPT !.pc = "gone"]
  <1>1. p \in Pass /\ (p.parent => p.work # 0) /\ last' = last
    BY DEF TypeOK, ForeignInv, PassKnowsPod, DeletePod, Frame
  <1>2. pod.uid = p.got => pod.mine
    BY DEF ForeignInv, PassKnowsPod, DeletePod, Frame
  <1> HIDE DEF p
  <1>3. Quiet(q) /\ Quiet(PodUnsafe(p))
    BY <1>1, QuietMoves DEF Quiet, Pass, PassPCs
  <1> HIDE DEF q
  <1>4. \/ pod.uid \in {0, p.got} /\ pod' = NoPod /\ To(c, q)
        \/ pod' = pod /\ To(c, PodUnsafe(p))
    BY DEF DeletePod, OrFault, p, q
  <1>5. QED  BY <1>1, <1>2, <1>3, <1>4, QuietStep

LEMMA ForeignRest ==
    ASSUME TypeOK, ForeignInv, NEW c \in Cleaners,
           \/ SaveIdentity(c) \/ confirmObjectGone(c) \/ DeleteSandbox(c)
           \/ DeleteExtras(c) \/ DeleteClaim(c)
           \/ ConfirmPods(c) \/ ConfirmClaims(c) \/ ConfirmRest(c)
           \/ Return(c) \/ Abandon(c)
    PROVE  ForeignInv' /\ pod' = pod
  <1> DEFINE p == pass[c]
  <1>1. last' = last /\ pod' = pod
    BY DEF SaveIdentity, confirmObjectGone, DeleteSandbox, DeleteExtras, DeleteClaim,
           ConfirmPods, ConfirmClaims, ConfirmRest, Confirming, Return, Abandon,
           Frame, world
  <1>2. p \in Pass /\ (p.parent => p.work # 0)
    BY DEF TypeOK, ForeignInv, PassKnowsPod
  <1> HIDE DEF p
  <1>3. /\ Quiet(Block(p)) /\ Quiet(PodSafe(p)) /\ Quiet(PodUnsafe(p))
        /\ Quiet(ToPods(p)) /\ Quiet(ToPods(Unverified(p))) /\ Quiet(PassIdle)
    BY <1>2, QuietMoves, UnverifiedTyped, NothingTyped DEF Quiet, PassIdle
  <1>4. ASSUME NEW pc \in PassPCs \ {"delete"}
        PROVE  Quiet([p EXCEPT !.pc = pc])
    BY <1>2 DEF Quiet, Pass
  <1>5. CASE SaveIdentity(c)
    <2> DEFINE q == [p EXCEPT !.pc = "pod", !.handled = TRUE]
    <2>1. Quiet(q)
      BY <1>2 DEF Quiet, Pass, PassPCs
    <2> HIDE DEF q
    <2>2. To(c, q) \/ To(c, Block(p))
      BY <1>5 DEF SaveIdentity, OrFault, p, q
    <2>3. QED  BY <1>1, <1>3, <2>1, <2>2, QuietStep
  <1>6. CASE confirmObjectGone(c)
    <2>1. To(c, PodSafe(p)) \/ To(c, PodUnsafe(p))
      BY <1>6 DEF confirmObjectGone, OrFault, p
    <2>2. QED  BY <1>1, <1>3, <2>1, QuietStep
  <1>7. CASE DeleteSandbox(c)
    <2>1. To(c, ToPods(p)) \/ To(c, Block(p)) \/ To(c, ToPods(Unverified(p)))
      BY <1>7 DEF DeleteSandbox, OrFault, p
    <2>2. QED  BY <1>1, <1>3, <2>1, QuietStep
  <1>8. CASE DeleteExtras(c)
    <2> DEFINE after == [p EXCEPT !.pc = IF p.claimWork = 0 THEN "pods?" ELSE "claim"]
    <2>1. Quiet(after)
      BY <1>4 DEF PassPCs
    <2> HIDE DEF after
    <2>2. To(c, after) \/ To(c, Unverified(after))
      BY <1>8 DEF DeleteExtras, OrFault, p, after
    <2>3. QED  BY <1>1, <2>1, <2>2, QuietUnverified, QuietStep
  <1>9. CASE DeleteClaim(c)
    <2> DEFINE q == [p EXCEPT !.pc = "pods?", !.claimWork = 0]
    <2>1. Quiet(q)
      BY <1>2 DEF Quiet, Pass, PassPCs
    <2> HIDE DEF q
    <2>2. To(c, q) \/ To(c, Unverified(q))
      BY <1>9 DEF DeleteClaim, OrFault, p, q
    <2>3. QED  BY <1>1, <2>1, <2>2, QuietUnverified, QuietStep
  <1>10. ASSUME NEW pc \in PassPCs, NEW next \in PassPCs \ {"delete"},
                NEW empty \in BOOLEAN, Confirming(c, pc, next, empty)
         PROVE  ForeignInv'
    <2> DEFINE q == [p EXCEPT !.pc = next]
               r == [q EXCEPT !.clean = @ /\ empty]
    <2>1. Quiet(q)
      BY <1>4
    <2> HIDE DEF q
    <2>2. Quiet(r)
      BY <2>1 DEF Quiet, Pass
    <2> HIDE DEF r
    <2>3. To(c, r) \/ To(c, Unverified(q))
      BY <1>10 DEF Confirming, OrFault, p, q, r
    <2>4. QED  BY <1>1, <2>1, <2>2, <2>3, QuietUnverified, QuietStep
  <1>11. CASE ConfirmPods(c) \/ ConfirmClaims(c) \/ ConfirmRest(c)
    BY <1>1, <1>10, <1>11 DEF ConfirmPods, ConfirmClaims, ConfirmRest, NoExtras, PassPCs
  <1>12. CASE Return(c) \/ Abandon(c)
    BY <1>1, <1>3, <1>12, QuietStep DEF Return, Abandon
  <1>13. QED
    BY <1>1, <1>5, <1>6, <1>7, <1>8, <1>9, <1>11, <1>12

\* The world gives a new Pod a new UID, and no foreign Pod an owner or a label.
LEMMA ForeignWorld ==
    ASSUME TypeOK, ForeignInv, WorldNext
    PROVE  /\ ForeignInv'
           /\ pod.uid # 0 /\ ~pod.mine =>
                pod'.label = pod.label /\ (pod'.uid = pod.uid \/ RemovePod)
  <1>1. pass' = pass
    BY DEF WorldNext, createSandboxClaim, createBarePod, ForeignPod, MakeSandbox, MakePod,
           BindClaim, CollectSandbox, OrphanPod, CollectPod, PodEnds, RemovePod,
           releaseSandboxClaimPod, releaseSandboxClaim, Tamper, LaunchGrants, World
  <1>2. /\ pod \in Pod /\ pod.uid \in Nat /\ last["pod"] \in Nat
        /\ \A c \in Cleaners : pass[c].got \in Nat
    BY DEF TypeOK, Pod, Pass
  <1>3. /\ pod.uid <= last["pod"]
        /\ ~pod.mine => pod.owner = 0 /\ pod.label = "none"
        /\ \A c \in Cleaners : PassKnowsPod(c)
    BY DEF ForeignInv
  <1>4. CASE \E l \in Labels, o \in Nat, m \in BOOLEAN :
                NewPod(l, o, m) /\ (m \/ (o = 0 /\ l = "none"))
    <2>1. /\ pod.uid = 0 /\ last'["pod"] = last["pod"] + 1
          /\ pod'.uid = last["pod"] + 1
          /\ ~pod'.mine => pod'.owner = 0 /\ pod'.label = "none"
      BY <1>4 DEF NewPod, New, TypeOK
    <2>2. \A c \in Cleaners : PassKnowsPod(c)'
      BY <1>1, <1>2, <1>3, <2>1 DEF PassKnowsPod
    <2>3. QED  BY <1>2, <2>1, <2>2 DEF ForeignInv
  <1>5. CASE /\ pod' = NoPod /\ last' = last
             /\ RemovePod \/ pod.mine
    BY <1>1, <1>2, <1>3, <1>5 DEF ForeignInv, PassKnowsPod, NoPod, RemovePod
  <1>6. CASE /\ last'["pod"] = last["pod"] /\ pod'.uid = pod.uid
             /\ pod'.mine = pod.mine
             /\ ~pod.mine => pod'.label = pod.label /\ pod'.owner = 0
    BY <1>1, <1>2, <1>3, <1>6 DEF ForeignInv, PassKnowsPod
  <1>7. CASE createBarePod \/ ForeignPod
    BY <1>4, <1>7 DEF createBarePod, ForeignPod, Labels
  <1>8. CASE MakePod
    <2>1. sandbox.uid \in Nat
      BY DEF TypeOK, Sandbox
    <2>2. QED  BY <1>4, <1>8, <2>1 DEF MakePod, Labels
  <1>9. CASE CollectPod \/ releaseSandboxClaimPod
    BY <1>3, <1>5, <1>9 DEF CollectPod, releaseSandboxClaimPod
  <1>10. CASE RemovePod
    <2>1. pod' = NoPod /\ last' = last
      BY <1>10 DEF RemovePod
    <2>2. ForeignInv'
      BY <1>5, <1>10, <2>1
    <2>3. ~pod.mine => pod'.label = pod.label
      BY <1>3, <2>1 DEF NoPod
    <2>4. QED  BY <1>10, <2>2, <2>3
  <1>11. CASE OrphanPod \/ PodEnds \/ Tamper
    BY <1>2, <1>3, <1>6, <1>11 DEF OrphanPod, PodEnds, Tamper, Pod
  <1>12. CASE createSandboxClaim \/ MakeSandbox
    BY <1>2, <1>3, <1>6, <1>12 DEF createSandboxClaim, MakeSandbox, New, TypeOK
  <1>13. CASE \/ BindClaim \/ CollectSandbox \/ releaseSandboxClaim
              \/ \E k \in Kinds : LaunchGrants(k)
    BY <1>2, <1>3, <1>6, <1>13
       DEF BindClaim, CollectSandbox, releaseSandboxClaim, LaunchGrants
  <1>14. QED
    BY <1>7, <1>8, <1>9, <1>10, <1>11, <1>12, <1>13 DEF WorldNext

LEMMA ForeignInvStep ==
    ASSUME TypeOK, ForeignInv, [Next]_vars
    PROVE  /\ ForeignInv'
           /\ pod.uid # 0 /\ ~pod.mine =>
                pod'.label = pod.label /\ (pod'.uid = pod.uid \/ RemovePod)
  <1>1. CASE UNCHANGED vars
    BY <1>1 DEF vars, world, ForeignInv, PassKnowsPod
  <1>2. CASE WorldNext
    BY <1>2, ForeignWorld
  <1>3. ASSUME NEW c \in Cleaners, CleanerNext(c) \/ Abandon(c)
        PROVE  ForeignInv' /\ (pod.uid # 0 /\ ~pod.mine => pod' = pod)
    <2>1. CASE ListPods(c) \/ ListClaims(c) \/ ListSandboxes(c)
      BY <2>1, ForeignInventory DEF ListPods, ListClaims, ListSandboxes, world
    <2>2. CASE GetPod(c)
      BY <2>2, ForeignGetPod
    <2>3. CASE DeletePod(c)
      BY <2>3, ForeignDeletePod
    <2>4. QED  BY <1>3, <2>1, <2>2, <2>3, ForeignRest DEF CleanerNext
  <1>4. QED  BY <1>1, <1>2, <1>3 DEF Next

\* No pass, and nobody else in the model but the one who removes Pods by hand, takes
\* or labels a Pod of somebody else that has the run's name, whatever the number of
\* passes and of Pods under the name (deleteSuspensionPod and the UID preconditions).
THEOREM ForeignPodUntouchedAlways == Spec => ForeignPodUntouched
  <1>1. Init => ForeignInv
    BY DEF Init, ForeignInv, PassKnowsPod, NoPod, PassIdle
  <1>2. TypeOK /\ ForeignInv /\ [Next]_vars => ForeignInv'
    BY ForeignInvStep
  <1>3. TypeOK /\ ForeignInv /\ [Next]_vars =>
          [ pod.uid # 0 /\ ~pod.mine =>
              pod'.label = pod.label /\ (pod'.uid = pod.uid \/ RemovePod) ]_vars
    BY ForeignInvStep
  <1>4. QED  BY <1>1, <1>2, <1>3, TypeCorrect, PTL DEF Spec, ForeignPodUntouched
=============================================================================
