----------------------- MODULE CleanupConfirmProofs -----------------------
(***************************************************************************)
(* Theorems about SuspensionCleanup: what a confirmed pass has achieved,   *)
(* and what it leaves of a Pod that had ended, for any number of passes at *)
(* once and of objects under one name.                                     *)
(***************************************************************************)
EXTENDS SuspensionCleanupProofs

----------------------------------------------------------------------------
(* What holds of the objects, and of the notes p of a pass.                 *)

\* Every UID that is noted anywhere has been given out.
Given(p) ==
    /\ p.pod.uid <= last["pod"] /\ p.claim.uid <= last["claim"]
    /\ p.work <= last["sandbox"] /\ p.claimWork <= last["claim"]

\* Before the plan is made there is no work, and only a pass at work on the Pod of a
\* sandbox goes on to the sandbox.
Planning == {"idle", "claims", "sandboxes"}

Shaped(p) ==
    /\ p.pc \in Planning => p.work = 0 /\ p.claimWork = 0
    /\ p.parent => p.work # 0
    /\ p.pc \in {"identity", "sandbox"} => p.parent
    /\ p.claim.uid # 0 => p.claim.label # "none"
    /\ p.pc = "sandboxes" /\ p.clean => "claims" \in p.ok

\* The identity is saved before anything under the sandbox is touched.
Marked(p) ==
    p.pc \in {"pod", "delete", "gone", "sandbox"} /\ p.parent /\ p.work = sandbox.uid
        => sandbox.label # "none"

\* The listed objects have been deleted, if the pass can still be confirmed.
Emptied(p) ==
    p.pc \in {"claim", "pods?", "claims?", "rest?", "done"} /\ p.clean
        => \A k \in p.kinds : extra[k] = "gone"

\* The Pod the pass has listed is still there.
Same(p) == pod.uid = p.pod.uid /\ pod.uid # 0

\* A label is not lost, and a claim that is not the listed one came later.
Listing(p) ==
    Same(p) =>
      /\ p.pod.label # "none" => pod.label # "none"
      /\ p.pc = "sandboxes" /\ p.clean /\ pod.owner = sandbox.uid /\ pod.owner # 0
           => p.claim.uid = sandbox.owner \/ claim.uid # sandbox.owner

\* A pass that will delete a sandbox and leave its Pod.
Orphaner(p) == p.pc = "sandbox" /\ p.completed /\ p.work = sandbox.uid

\* The collector will take the Pod, or nothing leads to it.
Lost ==
    \/ pod.owner # 0 /\ pod.owner # sandbox.uid
    \/ /\ pod.owner # 0 /\ pod.owner = sandbox.uid
       /\ sandbox.owner # 0 /\ sandbox.owner # claim.uid /\ ~sandbox.orphaning
       /\ \A e \in Cleaners : ~Orphaner(pass[e])
    \/ pod.owner = 0 /\ pod.label = "none"

\* What a pass that may still be confirmed owes for the active Pod it has listed.
Stopping(p) ==
    /\ p.pc \notin Planning /\ p.clean
    /\ Same(p) /\ p.pod.mine /\ p.pod.active /\ AtWork
    => \/ Lost
       \/ p.pc \notin {"claims?", "rest?", "done"} /\ pod.label # "none"
       \/ p.pc \in {"identity", "pod"} /\ p.parent

\* What a pass that has listed an ended Pod does about it.
Keeping(p) ==
    p.pc # "idle" /\ Same(p) /\ ~p.pod.active =>
      /\ ~pod.active /\ p.pc \notin {"delete", "gone"}
      /\ p.pc = "sandbox" => p.completed

\* ... and about the claim of its sandbox.
Sparing(p) ==
    /\ p.pc # "idle" /\ Same(p) /\ ~p.pod.active
    /\ p.claimWork # 0 /\ p.claimWork = claim.uid /\ claim.uid = sandbox.owner
    /\ pod.owner # 0 /\ pod.owner = sandbox.uid
    => \/ sandbox.orphaning
       \/ /\ p.under /\ p.parent /\ p.work = sandbox.uid
          /\ p.pc \in {"identity", "pod", "sandbox"}

PassInv(p) ==
    /\ Given(p) /\ Shaped(p) /\ Marked(p) /\ Emptied(p) /\ Listing(p)
    /\ Stopping(p) /\ Keeping(p) /\ Sparing(p)

ObjectInv ==
    /\ claim.uid <= last["claim"] /\ sandbox.owner <= last["claim"]
    /\ sandbox.uid <= last["sandbox"] /\ pod.owner <= last["sandbox"]
    /\ pod.uid <= last["pod"]
    /\ claim.uid # 0 => claim.label # "none"
    /\ sandbox.uid # 0 => sandbox.owner # 0
    /\ sandbox.orphaning => sandbox.label # "none"
    /\ pod.mine \/ pod.active => pod.uid # 0

ConfirmInv == ObjectInv /\ \A c \in Cleaners : PassInv(pass[c])

----------------------------------------------------------------------------
(* What any step leaves of the objects.                                     *)

PodMoves ==
    \/ /\ pod'.uid = pod.uid /\ pod'.mine = pod.mine /\ (pod'.active => pod.active)
       /\ pod.label # "none" => pod'.label # "none"
       /\ pod.label = "none" /\ pod.owner = 0 => pod'.label = "none"
       /\ \/ pod'.owner = pod.owner
          \/ pod'.owner = 0 /\ pod.owner = sandbox.uid /\ sandbox.orphaning
    \/ pod' = NoPod
    \/ pod'.uid = last["pod"] + 1 /\ pod'.owner \in {0, sandbox.uid}
       /\ last'["pod"] = last["pod"] + 1

SandboxMoves ==
    \/ /\ sandbox'.uid = sandbox.uid /\ sandbox'.owner = sandbox.owner
       /\ sandbox.orphaning => sandbox'.orphaning
       /\ sandbox'.orphaning =>
            sandbox.orphaning \/ \E e \in Cleaners : Orphaner(pass[e])
       /\ sandbox.label # "none" => sandbox'.label # "none"
    \/ sandbox' = NoSandbox
    \/ /\ sandbox'.uid = last["sandbox"] + 1 /\ sandbox'.owner = claim.uid
       /\ claim.uid # 0 /\ ~sandbox'.orphaning
       /\ last'["sandbox"] = last["sandbox"] + 1

ClaimMoves ==
    \/ claim'.uid = claim.uid /\ (claim.label # "none" => claim'.label # "none")
    \/ claim' = NoClaim
    \/ claim'.uid = last["claim"] + 1 /\ claim'.label # "none"
       /\ last'["claim"] = last["claim"] + 1

ObjectsMove ==
    /\ \A o \in {"claim", "sandbox", "pod"} : last'[o] >= last[o]
    /\ PodMoves /\ SandboxMoves /\ ClaimMoves
    /\ \A k \in Kinds : extra[k] = "gone" => extra'[k] = "gone"

\* The numbers an invariant compares.
LEMMA Numbers ==
    ASSUME TypeOK
    PROVE  /\ claim.uid \in Nat /\ sandbox.uid \in Nat /\ sandbox.owner \in Nat
           /\ pod.uid \in Nat /\ pod.owner \in Nat
           /\ last["claim"] \in Nat /\ last["sandbox"] \in Nat /\ last["pod"] \in Nat
           /\ claim \in Claim /\ sandbox \in Sandbox /\ pod \in Pod
  BY DEF TypeOK, Claim, Sandbox, Pod

\* The types of what a pass has noted.
LEMMA PassNumbers ==
    ASSUME NEW p \in Pass
    PROVE  /\ p.pod.uid \in Nat /\ p.claim.uid \in Nat /\ p.work \in Nat
           /\ p.claimWork \in Nat /\ p.pod \in Pod /\ p.claim \in Claim
           /\ p.kinds \subseteq Kinds
  BY DEF Pass, Pod, Claim

----------------------------------------------------------------------------
(* What a pass notes next.                                                  *)

\* A pass that has left the sandbox behind keeps what it knows of Pod and objects.
Past(p, q) ==
    /\ q \in Pass /\ q.pc \in {"pod", "extras"} /\ ~q.parent
    /\ q.pod = p.pod /\ q.kinds = p.kinds /\ (q.clean => p.clean)
    /\ q.claim \in {NoClaim, p.claim} /\ q.work \in {0, p.work}
    /\ q.claimWork \in {0, p.claimWork}

\* A pass that turns to the extra objects keeps what it has noted; ...
LEMMA PastExtras ==
    ASSUME NEW p \in Pass  PROVE Past(p, ToExtras(p))
  BY ToExtrasTyped DEF Past, ToExtras, PassIdle

\* ... so does one that turns to the Pods without a sandbox, ...
LEMMA PastPods ==
    ASSUME NEW p \in Pass  PROVE Past(p, ToPods(p))
  <1> DEFINE r == [p EXCEPT !.clean = @ /\ ~("pods" \in p.ok /\ p.pod.label = "bad")]
             s == [p EXCEPT !.pc = "pod", !.parent = FALSE]
  <1>1. /\ r \in Pass /\ r.pod = p.pod /\ r.kinds = p.kinds /\ (r.clean => p.clean)
        /\ r.claim = p.claim /\ r.work = p.work /\ r.claimWork = p.claimWork
    BY DEF Pass
  <1>2. Past(p, s)
    BY DEF Past, Pass, PassPCs
  <1>3. ToPods(p) = s \/ ToPods(p) = ToExtras(r)
    BY DEF ToPods
  <1> HIDE DEF r, s
  <1>4. Past(r, ToExtras(r))
    BY <1>1, PastExtras
  <1>5. QED  BY <1>1, <1>2, <1>3, <1>4 DEF Past

\* ... and one that could not verify an object, which is not clean any more.
LEMMA PastUnverified ==
    ASSUME NEW p \in Pass
    PROVE  /\ Past(p, ToPods(Unverified(p))) /\ ~ToPods(Unverified(p)).clean
           /\ Past(p, ToExtras(Unverified(p))) /\ ~ToExtras(Unverified(p)).clean
  <1> DEFINE r == Unverified(p)
  <1>1. /\ r \in Pass /\ r.pod = p.pod /\ r.kinds = p.kinds /\ ~r.clean
        /\ r.claim = p.claim /\ r.work = p.work /\ r.claimWork = p.claimWork
    BY DEF Pass, Unverified
  <1> HIDE DEF r
  <1>2. Past(r, ToPods(r)) /\ Past(r, ToExtras(r))
    BY <1>1, PastPods, PastExtras
  <1>3. QED  BY <1>1, <1>2 DEF Past, r

\* A block also gives up the claim above the sandbox, ...
LEMMA PastBlock ==
    ASSUME NEW p \in Pass
    PROVE  Past(p, Block(p)) /\ ~Block(p).clean /\ (p.under => Block(p).claimWork = 0)
  <1> DEFINE r == [p EXCEPT !.clean = FALSE, !.claimWork = IF p.under THEN 0 ELSE @]
  <1>1. /\ r \in Pass /\ r.pod = p.pod /\ r.kinds = p.kinds /\ ~r.clean
        /\ r.claim = p.claim /\ r.work = p.work
        /\ r.claimWork = IF p.under THEN 0 ELSE p.claimWork
    BY DEF Pass
  <1>2. Block(p) = ToPods(r)
    BY DEF Block
  <1> HIDE DEF r
  <1>3. Past(r, ToPods(r))
    BY <1>1, PastPods
  <1>4. QED  BY <1>1, <1>2, <1>3 DEF Past

\* ... as a Pod that is not safe does.
LEMMA PastUnsafe ==
    ASSUME NEW p \in Pass
    PROVE  /\ Past(p, PodUnsafe(p)) /\ ~PodUnsafe(p).clean
           /\ p.parent /\ p.under => PodUnsafe(p).claimWork = 0
  BY PastBlock, PastUnverified DEF PodUnsafe

\* With the Pod out of the way the sandbox is next, or the extra objects.
LEMMA PastSafe ==
    ASSUME NEW p \in Pass
    PROVE  /\ p.parent => PodSafe(p) = [p EXCEPT !.pc = "sandbox"]
           /\ ~p.parent => Past(p, PodSafe(p))
  BY PastExtras DEF PodSafe

\* What deleteSuspensionPod notes about the Pod it has read.
Reads(p, q) ==
    /\ q \in Pass /\ q.pod = p.pod /\ q.kinds = p.kinds /\ (q.clean => p.clean)
    /\ q.claim = p.claim /\ q.work = p.work /\ q.claimWork = p.claimWork
    /\ q.under = p.under /\ q.parent = p.parent

\* GetPod by its outcomes.
LEMMA GetPodMoves ==
    ASSUME TypeOK, NEW c \in Cleaners, GetPod(c)
    PROVE  LET p == pass[c]
               q == pass'[c]
           IN  /\ p \in Pass /\ p.pc = "pod"
               /\ UNCHANGED <<claim, sandbox, extra, last>>
               /\ \/ pod.uid = 0 /\ pod' = pod /\ q = PodSafe(p)
                  \/ pod' = pod /\ q = PodUnsafe(p)
                  \/ /\ pod.uid # 0
                     /\ pod.label = "ours" \/ (p.parent /\ pod.owner = p.work)
                     /\ pod' = IF p.parent THEN [pod EXCEPT !.label = "ours"] ELSE pod
                     /\ \/ pod.active /\ Reads(p, q) /\ q.pc = "delete"
                        \/ /\ ~pod.active
                           /\ \E r \in Pass : /\ Reads(p, r) /\ r.pc = p.pc
                                              /\ r.completed = p.parent
                                              /\ q = PodSafe(r)
  <1> DEFINE p == pass[c]
             q == [p EXCEPT !.safe = PodOwned(p), !.clean = @ /\ PodOwned(p)]
             r == [q EXCEPT !.completed = p.parent]
             s == [q EXCEPT !.pc = "delete", !.got = pod.uid]
  <1>1. p \in Pass /\ pod \in Pod /\ p.pc = "pod"
        /\ UNCHANGED <<claim, sandbox, extra, last>>
    BY DEF TypeOK, GetPod, Frame
  <1> HIDE DEF p
  <1>2. q \in Pass /\ Reads(p, q) /\ q.pc = p.pc
    BY <1>1 DEF Pass, PodOwned, Reads
  <1> HIDE DEF q
  <1>3. /\ r \in Pass /\ Reads(p, r) /\ r.completed = p.parent /\ r.pc = p.pc
        /\ s \in Pass /\ Reads(p, s) /\ s.pc = "delete"
    BY <1>1, <1>2 DEF Pass, PassPCs, Pod, Reads
  <1> HIDE DEF r, s
  <1>4. ASSUME NEW n, To(c, n)  PROVE pass'[c] = n
    BY <1>4 DEF To, TypeOK
  <1>5. \/ pod.uid = 0 /\ pod' = pod /\ To(c, PodSafe(p))
        \/ pod' = pod /\ To(c, PodUnsafe(p))
        \/ /\ pod.uid # 0
           /\ pod.label = "ours" \/ (p.parent /\ PodOwned(p) /\ pod.label = "none")
           /\ pod' = IF p.parent THEN [pod EXCEPT !.label = "ours"] ELSE pod
           /\ To(c, IF pod.active THEN s ELSE PodSafe(r))
    BY Zenon DEF GetPod, OrFault, p, q, r, s
  <1>6. QED
    BY <1>1, <1>3, <1>4, <1>5 DEF p, PodOwned

\* The lists.
LEMMA InventoryMoves ==
    ASSUME TypeOK, NEW c \in Cleaners, ListPods(c) \/ ListClaims(c)
    PROVE  LET p == pass[c]
               q == pass'[c]
           IN  /\ p \in Pass /\ q \in Pass /\ UNCHANGED world
               /\ \/ /\ q.pc = "claims" /\ q.pod = pod /\ q.claim = NoClaim
                     /\ q.work = 0 /\ q.claimWork = 0 /\ ~q.parent
                  \/ /\ p.pc = "claims" /\ q.pc = "sandboxes"
                     /\ q.pod = p.pod /\ q.work = p.work /\ q.claimWork = p.claimWork
                     /\ q.parent = p.parent /\ q.claim \in {claim, p.claim}
                     /\ q.clean => "claims" \in q.ok /\ q.claim = claim
  <1>1. pass[c] \in Pass /\ UNCHANGED world
    BY DEF TypeOK, ListPods, ListClaims
  <1>2. ASSUME NEW n, To(c, n)  PROVE pass'[c] = n
    BY <1>2 DEF To, TypeOK
  <1>3. CASE ListPods(c)
    <2> DEFINE p == [PassIdle EXCEPT !.pod = pod, !.pc = "claims"]
               q == Listed(p, "pods", "claims")
               r == Unverified(p)
    <2>1. /\ p \in Pass /\ p.pc = "claims" /\ p.pod = pod /\ p.claim = NoClaim
          /\ p.work = 0 /\ p.claimWork = 0 /\ ~p.parent
      BY NothingTyped DEF TypeOK, Pass, PassPCs, PassIdle
    <2> HIDE DEF p
    <2>2. /\ q \in Pass /\ q.pc = "claims" /\ q.pod = pod /\ q.claim = NoClaim
          /\ q.work = 0 /\ q.claimWork = 0 /\ ~q.parent
      BY <2>1 DEF Listed, Pass, PassPCs, Lists
    <2>3. /\ r \in Pass /\ r.pc = "claims" /\ r.pod = pod /\ r.claim = NoClaim
          /\ r.work = 0 /\ r.claimWork = 0 /\ ~r.parent
      BY <2>1 DEF Unverified, Pass
    <2>4. To(c, q) \/ To(c, r)
      BY <1>3 DEF ListPods, OrFault, p
    <2> HIDE DEF q, r
    <2>5. pass'[c] = q \/ pass'[c] = r
      BY <1>2, <2>4
    <2>6. QED  BY <1>1, <2>2, <2>3, <2>5
  <1>4. CASE ListClaims(c)
    <2> DEFINE o == pass[c]
               p == [o EXCEPT !.pc = "sandboxes"]
               q == [Listed(p, "claims", "sandboxes") EXCEPT !.claim = claim]
               r == Unverified(p)
    <2>1. o \in Pass /\ o.pc = "claims" /\ claim \in Claim
      BY <1>1, <1>4 DEF ListClaims, TypeOK
    <2>2. To(c, q) \/ To(c, r)
      BY <1>4 DEF ListClaims, OrFault
    <2> HIDE DEF o
    <2>3. /\ p \in Pass /\ p.pc = "sandboxes" /\ p.pod = o.pod /\ p.claim = o.claim
          /\ p.work = o.work /\ p.claimWork = o.claimWork /\ p.parent = o.parent
      BY <2>1 DEF Pass, PassPCs
    <2> HIDE DEF p
    <2>4. /\ q \in Pass /\ q.pc = "sandboxes" /\ q.pod = o.pod /\ q.claim = claim
          /\ q.work = o.work /\ q.claimWork = o.claimWork /\ q.parent = o.parent
          /\ "claims" \in q.ok
      BY <2>1, <2>3 DEF Listed, Pass, PassPCs, Lists
    <2>5. /\ r \in Pass /\ r.pc = "sandboxes" /\ r.pod = o.pod /\ r.claim = o.claim
          /\ r.work = o.work /\ r.claimWork = o.claimWork /\ r.parent = o.parent
          /\ ~r.clean
      BY <2>3 DEF Unverified, Pass
    <2> HIDE DEF q, r
    <2>6. pass'[c] = q \/ pass'[c] = r
      BY <1>2, <2>2
    <2>7. QED  BY <1>1, <2>1, <2>4, <2>5, <2>6 DEF o
  <1>5. QED  BY <1>3, <1>4

\* The plan, by what it says of the sandbox and the claim.
Plans(p, q, sb) ==
    /\ q \in Pass /\ q.pod = p.pod /\ q.kinds = p.kinds /\ q.claim = NoClaim
    /\ q.claimWork # 0 =>
         claimWork(p) /\ ~claimBlocked(p, sb) /\ q.claimWork = p.claim.uid
    /\ q.clean => p.clean /\ ~inventoryUnverified(p, sb)
    /\ IF suspensionSandboxWork(p, sb) # 0
       THEN /\ q.pc = "identity" /\ q.parent /\ q.work = suspensionSandboxWork(p, sb)
            /\ q.under = ownerClaim(p, sb)
       ELSE q.pc \in {"pod", "extras"} /\ ~q.parent /\ q.work = 0

\* What is planned from the listings and the sandbox that was read.
LEMMA PlannedPlans ==
    ASSUME NEW p \in Pass, NEW sb \in Sandbox
    PROVE  Plans(p, Planned(p, sb), sb)
  <1> DEFINE w == suspensionSandboxWork(p, sb)
             q == [p EXCEPT !.work = w, !.claim = NoClaim,
                     !.under = ownerClaim(p, sb),
                     !.claimWork = IF claimWork(p) /\ ~claimBlocked(p, sb)
                                   THEN p.claim.uid ELSE 0,
                     !.clean = @ /\ ~inventoryUnverified(p, sb)]
             r == [q EXCEPT !.pc = "identity", !.parent = TRUE]
  <1>1. w \in Nat
    BY DEF suspensionSandboxWork, Sandbox
  <1>2. ownerClaim(p, sb) \in BOOLEAN /\ inventoryUnverified(p, sb) \in BOOLEAN
    BY DEF ownerClaim, claimWork, inventoryUnverified
  <1>3. p.claim.uid \in Nat /\ p.clean \in BOOLEAN
    BY DEF Pass, Claim
  <1>4. Planned(p, sb) = IF w # 0 THEN r ELSE ToPods(q)
    BY DEF Planned
  <1> HIDE DEF w
  <1>5. /\ q \in Pass /\ q.work = w /\ q.claim = NoClaim /\ q.pod = p.pod
        /\ q.kinds = p.kinds /\ q.under = ownerClaim(p, sb)
        /\ q.claimWork = (IF claimWork(p) /\ ~claimBlocked(p, sb) THEN p.claim.uid ELSE 0)
        /\ q.clean => p.clean /\ ~inventoryUnverified(p, sb)
    BY <1>1, <1>2, <1>3, NothingTyped DEF Pass
  <1> HIDE DEF q
  <1>6. /\ r \in Pass /\ r.work = w /\ r.claim = NoClaim /\ r.pod = p.pod
        /\ r.kinds = p.kinds /\ r.under = ownerClaim(p, sb)
        /\ r.claimWork = q.claimWork /\ r.clean = q.clean
        /\ r.pc = "identity" /\ r.parent
    BY <1>5 DEF Pass, PassPCs
  <1> HIDE DEF r
  <1>7. CASE w # 0
    BY <1>4, <1>5, <1>6, <1>7 DEF Plans, w
  <1>8. CASE w = 0
    <2>1. Past(q, ToPods(q))
      BY <1>5, PastPods
    <2>2. QED  BY <1>4, <1>5, <1>8, <2>1 DEF Plans, Past, w
  <1>9. QED  BY <1>7, <1>8

\* ListSandboxes: the pass as it was, but for the objects it has listed, is planned;
\* or it is planned without the sandboxes; or it is given up.
LEMMA ListSandboxesMoves ==
    ASSUME TypeOK, NEW c \in Cleaners, ListSandboxes(c)
    PROVE  LET p == pass[c]
               q == pass'[c]
           IN  /\ p \in Pass /\ p.pc = "sandboxes" /\ UNCHANGED world
               /\ \/ q = PassIdle
                  \/ Past(p, [q EXCEPT !.kinds = p.kinds]) /\ q \in Pass /\ ~q.clean
                  \/ \E r \in Pass :
                        /\ r = [p EXCEPT !.kinds = r.kinds, !.clean = r.clean]
                        /\ r.clean => p.clean
                        /\ q \in Pass /\ Plans(r, q, sandbox)
  <1> DEFINE o == pass[c]
             kinds == {k \in Kinds : extra[k] = "valid"}
             p == [o EXCEPT !.kinds = kinds,
                      !.clean = @ /\ \A k \in Kinds : extra[k] # "bad"]
             b == [p EXCEPT !.claim = NoClaim, !.clean = FALSE]
             q == Planned(o, sandbox)
             r == [q EXCEPT !.clean = FALSE]
  <1>1. o \in Pass /\ o.pc = "sandboxes" /\ UNCHANGED world /\ sandbox \in Sandbox
    BY DEF TypeOK, ListSandboxes
  <1>2. \/ To(c, Planned(p, sandbox)) \/ To(c, PlannedBlind(p))
        \/ To(c, r) \/ To(c, PassIdle)
    BY DEF ListSandboxes, OrFault
  <1>3. ASSUME NEW n, To(c, n)  PROVE pass'[c] = n
    BY <1>3 DEF To, TypeOK
  <1> HIDE DEF o
  <1>4. kinds \in SUBSET Kinds
    OBVIOUS
  <1> HIDE DEF kinds
  <1>5. /\ p \in Pass /\ p = [o EXCEPT !.kinds = p.kinds, !.clean = p.clean]
        /\ (p.clean => o.clean)
        /\ p.pod = o.pod /\ p.claim = o.claim /\ p.work = o.work
        /\ p.claimWork = o.claimWork
    BY <1>1, <1>4 DEF Pass
  <1>6. o = [o EXCEPT !.kinds = o.kinds, !.clean = o.clean]
    BY <1>1 DEF Pass
  <1> HIDE DEF p
  <1>7. CASE To(c, Planned(p, sandbox))
    <2>1. Plans(p, Planned(p, sandbox), sandbox)
      BY <1>1, <1>5, PlannedPlans
    <2>2. QED  BY <1>1, <1>3, <1>5, <1>7, <2>1 DEF Plans, o
  <1>8. CASE To(c, PlannedBlind(p))
    <2>1. /\ b \in Pass /\ b.pod = p.pod /\ b.kinds = p.kinds /\ ~b.clean
          /\ b.claim = NoClaim /\ b.work = p.work /\ b.claimWork = p.claimWork
      BY <1>5, NothingTyped DEF Pass
    <2>2. PlannedBlind(p) = ToPods(b)
      BY DEF PlannedBlind
    <2> HIDE DEF b
    <2> DEFINE n == ToPods(b)
               m == [n EXCEPT !.kinds = o.kinds]
    <2>3. Past(b, n)
      BY <2>1, PastPods
    <2> HIDE DEF n
    <2>4. /\ m \in Pass /\ m.pc = n.pc /\ m.parent = n.parent /\ m.pod = n.pod
          /\ m.kinds = o.kinds /\ m.clean = n.clean /\ m.claim = n.claim
          /\ m.work = n.work /\ m.claimWork = n.claimWork
      BY <1>1, <2>3 DEF Past, Pass
    <2>5. Past(o, m) /\ n \in Pass /\ ~n.clean
      BY <1>5, <2>1, <2>3, <2>4 DEF Past
    <2>6. pass'[c] = n
      BY <1>3, <1>8, <2>2 DEF n
    <2>7. QED  BY <1>1, <2>5, <2>6 DEF o
  <1>9. CASE To(c, r)
    <2>1. Plans(o, q, sandbox)
      BY <1>1, PlannedPlans
    <2> HIDE DEF q
    <2>2. Plans(o, r, sandbox)
      BY <2>1 DEF Plans, Pass
    <2>3. pass'[c] = r
      BY <1>3, <1>9
    <2>4. QED  BY <1>1, <1>6, <2>2, <2>3 DEF Plans, o
  <1>10. CASE To(c, PassIdle)
    BY <1>1, <1>3, <1>10 DEF o
  <1>11. QED  BY <1>2, <1>7, <1>8, <1>9, <1>10

\* The sandbox is labelled first, or the pass turns away from it.
LEMMA SaveIdentityMoves ==
    ASSUME TypeOK, NEW c \in Cleaners, SaveIdentity(c)
    PROVE  LET p == pass[c]
               q == pass'[c]
           IN  /\ p \in Pass /\ p.pc = "identity"
               /\ UNCHANGED <<claim, pod, extra, last>>
               /\ \/ /\ Reads(p, q) /\ q.pc = "pod"
                     /\ sandbox' = [sandbox EXCEPT !.label = "ours"]
                  \/ sandbox' = sandbox /\ q = Block(p)
  <1> DEFINE p == pass[c]
             n == [p EXCEPT !.pc = "pod", !.handled = TRUE]
  <1>1. /\ p \in Pass /\ p.pc = "identity" /\ UNCHANGED <<claim, pod, extra, last>>
        /\ \/ To(c, n) /\ sandbox' = [sandbox EXCEPT !.label = "ours"]
           \/ sandbox' = sandbox /\ To(c, Block(p))
    BY DEF TypeOK, SaveIdentity, Frame, OrFault
  <1>2. ASSUME NEW m, To(c, m)  PROVE pass'[c] = m
    BY <1>2 DEF To, TypeOK
  <1> HIDE DEF p
  <1>3. Reads(p, n) /\ n.pc = "pod"
    BY <1>1 DEF Reads, Pass, PassPCs
  <1> HIDE DEF n
  <1>4. QED  BY <1>1, <1>2, <1>3 DEF p

\* The Pod is deleted; the pass is done with it when it sees it gone.
LEMMA DeletePodMoves ==
    ASSUME TypeOK, NEW c \in Cleaners, DeletePod(c) \/ confirmObjectGone(c)
    PROVE  LET p == pass[c]
               q == pass'[c]
           IN  /\ p \in Pass /\ UNCHANGED <<claim, sandbox, extra, last>>
               /\ p.pc \in {"delete", "gone"}
               /\ \/ p.pc = "delete" /\ pod' = NoPod /\ Reads(p, q) /\ q.pc = "gone"
                  \/ pod' = pod /\ q = PodUnsafe(p)
                  \/ pod' = pod /\ pod.uid = 0 /\ q = PodSafe(p)
  <1> DEFINE p == pass[c]
             n == [p EXCEPT !.pc = "gone"]
  <1>1. p \in Pass /\ UNCHANGED <<claim, sandbox, extra, last>>
    BY DEF TypeOK, DeletePod, confirmObjectGone, Frame
  <1>2. ASSUME NEW m, To(c, m)  PROVE pass'[c] = m
    BY <1>2 DEF To, TypeOK
  <1>3. CASE DeletePod(c)
    <2>1. /\ p.pc = "delete"
          /\ (pod' = NoPod /\ To(c, n)) \/ (pod' = pod /\ To(c, PodUnsafe(p)))
      BY <1>3 DEF DeletePod, OrFault, Frame
    <2> HIDE DEF p
    <2>2. Reads(p, n) /\ n.pc = "gone"
      BY <1>1 DEF Reads, Pass, PassPCs
    <2> HIDE DEF n
    <2>3. QED  BY <1>1, <1>2, <2>1, <2>2 DEF p
  <1>4. CASE confirmObjectGone(c)
    <2>1. /\ p.pc = "gone" /\ pod' = pod
          /\ (pod.uid = 0 /\ To(c, PodSafe(p))) \/ To(c, PodUnsafe(p))
      BY <1>4 DEF confirmObjectGone, OrFault, Frame
    <2>2. QED  BY <1>1, <1>2, <2>1
  <1>5. QED  BY <1>3, <1>4

\* The sandbox that was planned goes, or begins to orphan.
LEMMA DeleteSandboxMoves ==
    ASSUME TypeOK, NEW c \in Cleaners, DeleteSandbox(c)
    PROVE  LET p == pass[c]
               q == pass'[c]
           IN  /\ p \in Pass /\ p.pc = "sandbox" /\ UNCHANGED <<claim, pod, extra, last>>
               /\ \/ sandbox.uid = 0 /\ sandbox' = sandbox /\ q = ToPods(p)
                  \/ /\ sandbox.uid = p.work /\ q = ToPods(p)
                     /\ sandbox' = IF p.completed \/ sandbox.orphaning
                                   THEN [sandbox EXCEPT !.orphaning = TRUE] ELSE NoSandbox
                  \/ /\ sandbox' = sandbox
                     /\ q = IF p.completed THEN Block(p) ELSE ToPods(Unverified(p))
  <1>1. ASSUME NEW m, To(c, m)  PROVE pass'[c] = m
    BY <1>1 DEF To, TypeOK
  <1>2. pass[c] \in Pass /\ pass[c].pc = "sandbox" /\ UNCHANGED <<claim, pod, extra, last>>
    BY DEF TypeOK, DeleteSandbox, Frame
  <1>3. QED  BY <1>1, <1>2 DEF DeleteSandbox, OrFault

\* The extra objects and the claim go; sandbox and Pod are left alone.
LEMMA DeleteRestMoves ==
    ASSUME TypeOK, NEW c \in Cleaners, DeleteExtras(c) \/ DeleteClaim(c)
    PROVE  LET p == pass[c]
               q == pass'[c]
           IN  /\ p \in Pass /\ UNCHANGED <<sandbox, pod, last>>
               /\ q \in Pass /\ q.pod = p.pod /\ q.kinds = p.kinds /\ q.claim = p.claim
               /\ q.work = p.work /\ q.parent = p.parent /\ (q.clean => p.clean)
               /\ \/ /\ p.pc = "extras" /\ claim' = claim /\ q.claimWork = p.claimWork
                     /\ q.pc \in {"claim", "pods?"}
                     /\ \A k \in Kinds : extra'[k] \in {"gone", extra[k]}
                     /\ q.clean => \A k \in p.kinds : extra'[k] = "gone"
                  \/ /\ p.pc = "claim" /\ q.pc = "pods?" /\ extra' = extra
                     /\ q.claimWork = 0
                     /\ \/ claim.uid \in {0, p.claimWork} /\ claim' = NoClaim
                        \/ claim' = claim
  <1> DEFINE p == pass[c]
  <1>1. p \in Pass /\ p.kinds \in SUBSET Kinds
    BY DEF TypeOK, Pass
  <1>2. ASSUME NEW m, To(c, m)  PROVE pass'[c] = m
    BY <1>2 DEF To, TypeOK
  <1>3. CASE DeleteExtras(c)
    <2> DEFINE n == [p EXCEPT !.pc = IF p.claimWork = 0 THEN "pods?" ELSE "claim"]
               u == Unverified(n)
               without(S) == extra' = [k \in Kinds |-> IF k \in S THEN "gone" ELSE extra[k]]
    <2>1. /\ p.pc = "extras" /\ UNCHANGED <<claim, sandbox, pod, last>>
          /\ \/ without(p.kinds) /\ To(c, n)
             \/ (\E k \in p.kinds : without(p.kinds \ {k})) /\ To(c, u)
      BY <1>3 DEF DeleteExtras, OrFault, Frame
    <2> HIDE DEF p
    <2>2. /\ n \in Pass /\ n.pod = p.pod /\ n.kinds = p.kinds /\ n.claim = p.claim
          /\ n.work = p.work /\ n.parent = p.parent /\ n.clean = p.clean
          /\ n.claimWork = p.claimWork /\ n.pc \in {"claim", "pods?"}
      BY <1>1 DEF Pass, PassPCs
    <2> HIDE DEF n
    <2>3. /\ u \in Pass /\ u.pod = p.pod /\ u.kinds = p.kinds /\ u.claim = p.claim
          /\ u.work = p.work /\ u.parent = p.parent /\ ~u.clean
          /\ u.claimWork = p.claimWork /\ u.pc \in {"claim", "pods?"}
      BY <2>2 DEF Pass, Unverified
    <2> HIDE DEF u
    <2>4. /\ \A k \in Kinds : extra'[k] \in {"gone", extra[k]}
          /\ without(p.kinds) => \A k \in p.kinds : extra'[k] = "gone"
      BY <1>1, <2>1
    <2>5. QED  BY <1>1, <1>2, <2>1, <2>2, <2>3, <2>4 DEF p
  <1>4. CASE DeleteClaim(c)
    <2> DEFINE n == [p EXCEPT !.pc = "pods?", !.claimWork = 0]
               u == Unverified(n)
    <2>1. /\ p.pc = "claim" /\ UNCHANGED <<sandbox, pod, extra, last>>
          /\ To(c, n) \/ To(c, u)
          /\ \/ claim.uid \in {0, p.claimWork} /\ claim' = NoClaim
             \/ claim' = claim
      BY <1>4 DEF DeleteClaim, OrFault, Frame
    <2> HIDE DEF p
    <2>2. /\ n \in Pass /\ n.pod = p.pod /\ n.kinds = p.kinds /\ n.claim = p.claim
          /\ n.work = p.work /\ n.parent = p.parent /\ n.clean = p.clean
          /\ n.claimWork = 0 /\ n.pc = "pods?"
      BY <1>1 DEF Pass, PassPCs
    <2> HIDE DEF n
    <2>3. /\ u \in Pass /\ u.pod = p.pod /\ u.kinds = p.kinds /\ u.claim = p.claim
          /\ u.work = p.work /\ u.parent = p.parent /\ ~u.clean
          /\ u.claimWork = 0 /\ u.pc = "pods?"
      BY <2>2 DEF Pass, Unverified
    <2> HIDE DEF u
    <2>4. QED  BY <1>1, <1>2, <2>1, <2>2, <2>3 DEF p
  <1>5. QED  BY <1>3, <1>4

\* The confirmation only reads, and an active Pod of ours makes the pass unclean.
LEMMA ConfirmMoves ==
    ASSUME TypeOK, NEW c \in Cleaners,
           ConfirmPods(c) \/ ConfirmClaims(c) \/ ConfirmRest(c)
    PROVE  LET p == pass[c]
               q == pass'[c]
           IN  /\ p \in Pass /\ UNCHANGED world /\ Reads(p, q)
               /\ \/ /\ p.pc = "pods?" /\ q.pc = "claims?"
                     /\ q.clean => pod.label = "none" \/ ~pod.active
                  \/ p.pc = "claims?" /\ q.pc = "rest?"
                  \/ p.pc = "rest?" /\ q.pc = "done"
  <1> DEFINE p == pass[c]
  <1>1. p \in Pass
    BY DEF TypeOK
  <1>2. ASSUME NEW m, To(c, m)  PROVE pass'[c] = m
    BY <1>2 DEF To, TypeOK
  <1>3. ASSUME NEW pc, NEW next \in PassPCs, NEW empty \in BOOLEAN,
               Confirming(c, pc, next, empty)
        PROVE  /\ UNCHANGED world /\ Reads(p, pass'[c]) /\ p.pc = pc
               /\ pass'[c].pc = next /\ (pass'[c].clean => empty)
    <2> DEFINE n == [p EXCEPT !.pc = next]
               m == [n EXCEPT !.clean = @ /\ empty]
               u == Unverified(n)
    <2>1. UNCHANGED world /\ (To(c, m) \/ To(c, u)) /\ p.pc = pc
      BY <1>3 DEF Confirming, OrFault, Frame, world
    <2> HIDE DEF p
    <2>2. n \in Pass /\ Reads(p, n) /\ n.pc = next
      BY <1>1 DEF Pass, PassPCs, Reads
    <2> HIDE DEF n
    <2>3. Reads(p, m) /\ m.pc = next /\ (m.clean => empty)
      BY <2>2 DEF Pass, Reads
    <2>4. Reads(p, u) /\ u.pc = next /\ ~u.clean
      BY <2>2 DEF Pass, Reads, Unverified
    <2> HIDE DEF m, u
    <2>5. pass'[c] = m \/ pass'[c] = u
      BY <1>2, <2>1
    <2>6. QED  BY <2>1, <2>3, <2>4, <2>5
  <1>4. CASE ConfirmPods(c)
    BY <1>1, <1>3, <1>4 DEF ConfirmPods, PassPCs
  <1>5. CASE ConfirmClaims(c)
    BY <1>1, <1>3, <1>5 DEF ConfirmClaims, PassPCs
  <1>6. CASE ConfirmRest(c)
    BY <1>1, <1>3, <1>6 DEF ConfirmRest, NoExtras, PassPCs
  <1>7. QED  BY <1>4, <1>5, <1>6

\* The world changes no pass, and a cleaner only its own.
LEMMA OthersStay ==
    ASSUME TypeOK
    PROVE  /\ WorldNext => pass' = pass
           /\ \A c \in Cleaners : CleanerNext(c) \/ Abandon(c) =>
                \A d \in Cleaners \ {c} : pass'[d] = pass[d]
  <1>1. ASSUME WorldNext  PROVE pass' = pass
    BY <1>1
       DEF WorldNext, createSandboxClaim, createBarePod, ForeignPod, MakeSandbox, MakePod,
           BindClaim, CollectSandbox, OrphanPod, CollectPod, PodEnds, RemovePod,
           releaseSandboxClaimPod, releaseSandboxClaim, Tamper, LaunchGrants, World
  <1>2. ASSUME NEW c \in Cleaners, NEW d \in Cleaners, d # c, NEW n, To(c, n)
        PROVE  pass'[d] = pass[d]
    BY <1>2 DEF To, TypeOK
  <1>3. ASSUME NEW c \in Cleaners, CleanerNext(c) \/ Abandon(c)
        PROVE  \E n : To(c, n)
    <2>1. CASE ListPods(c) \/ ListClaims(c)
      BY <2>1 DEF ListPods, ListClaims, OrFault
    <2>2. CASE ListSandboxes(c)
      BY <2>2 DEF ListSandboxes, OrFault
    <2>3. CASE SaveIdentity(c) \/ GetPod(c)
      BY <2>3, Zenon DEF SaveIdentity, GetPod, OrFault
    <2>4. CASE DeletePod(c) \/ confirmObjectGone(c) \/ DeleteSandbox(c)
      BY <2>4 DEF DeletePod, confirmObjectGone, DeleteSandbox, OrFault
    <2>5. CASE DeleteExtras(c) \/ DeleteClaim(c)
      BY <2>5 DEF DeleteExtras, DeleteClaim, OrFault
    <2>6. CASE ConfirmPods(c) \/ ConfirmClaims(c) \/ ConfirmRest(c)
      BY <2>6 DEF ConfirmPods, ConfirmClaims, ConfirmRest, Confirming, OrFault
    <2>7. CASE Return(c) \/ Abandon(c)
      BY <2>7 DEF Return, Abandon
    <2>8. QED
      BY <1>3, <2>1, <2>2, <2>3, <2>4, <2>5, <2>6, <2>7 DEF CleanerNext
  <1>4. QED  BY <1>1, <1>2, <1>3

\* The end of a pass changes no object.
LEMMA ReturnMoves ==
    ASSUME TypeOK, NEW c \in Cleaners, Return(c) \/ Abandon(c)
    PROVE  UNCHANGED world /\ pass'[c] = PassIdle
  BY DEF Return, Abandon, To, TypeOK

\* A pass comes to delete a sandbox only when there is no active Pod.
LEMMA NoNewOrphaner ==
    ASSUME TypeOK, ObjectInv, [Next]_vars, NEW e \in Cleaners, pod.active,
           pass'[e].pc = "sandbox"
    PROVE  pass'[e] = pass[e]
  <1>1. CASE WorldNext \/ UNCHANGED vars
    BY <1>1, OthersStay DEF vars
  <1>2. ASSUME NEW c \in Cleaners, CleanerNext(c) \/ Abandon(c), c # e
        PROVE  pass'[e] = pass[e]
    BY <1>2, OthersStay
  <1>3. ASSUME CleanerNext(e) \/ Abandon(e)  PROVE FALSE
    <2>1. pass[e] \in Pass /\ pod.uid # 0
      BY DEF TypeOK, ObjectInv
    <2>2. CASE ListPods(e) \/ ListClaims(e)
      BY <2>2, InventoryMoves
    <2>3. CASE ListSandboxes(e)
      <3>1. PassIdle.pc = "idle"
        BY DEF PassIdle
      <3>2. ASSUME Past(pass[e], [pass'[e] EXCEPT !.kinds = pass[e].kinds]),
                   pass'[e] \in Pass
            PROVE  FALSE
        BY <3>2 DEF Past, Pass
      <3>3. ASSUME NEW r \in Pass, Plans(r, pass'[e], sandbox)  PROVE FALSE
        BY <3>3 DEF Plans
      <3>4. QED  BY <2>3, <3>1, <3>2, <3>3, ListSandboxesMoves
    <2>4. CASE SaveIdentity(e)
      BY <2>1, <2>4, SaveIdentityMoves, PastBlock DEF Past
    <2>5. CASE GetPod(e)
      BY <2>1, <2>5, GetPodMoves, PastUnsafe DEF Past
    <2>6. CASE DeletePod(e) \/ confirmObjectGone(e)
      BY <2>1, <2>6, DeletePodMoves, PastUnsafe DEF Past
    <2>7. CASE DeleteSandbox(e)
      BY <2>1, <2>7, DeleteSandboxMoves, PastPods, PastBlock, PastUnverified DEF Past
    <2>8. CASE DeleteExtras(e) \/ DeleteClaim(e)
      BY <2>8, DeleteRestMoves
    <2>9. CASE ConfirmPods(e) \/ ConfirmClaims(e) \/ ConfirmRest(e)
      BY <2>9, ConfirmMoves
    <2>10. CASE Return(e) \/ Abandon(e)
      BY <2>10, ReturnMoves DEF PassIdle
    <2>11. QED
      BY <1>3, <2>2, <2>3, <2>4, <2>5, <2>6, <2>7, <2>8, <2>9, <2>10 DEF CleanerNext
  <1>4. QED  BY <1>1, <1>2, <1>3 DEF Next

\* No object changes its identity, and no deleted one comes back.
LEMMA ObjectsMoveAlways ==
    ASSUME TypeOK, TypeOK', ConfirmInv, [Next]_vars  PROVE ObjectsMove
  <1> USE DEF ObjectsMove
  <1>1. /\ claim \in Claim /\ sandbox \in Sandbox /\ pod \in Pod
        /\ last["claim"] \in Nat /\ last["sandbox"] \in Nat /\ last["pod"] \in Nat
        /\ sandbox.uid \in Nat /\ ObjectInv
    BY Numbers DEF ConfirmInv
  <1>2. (pod' = pod => PodMoves) /\ (pod' = NoPod => PodMoves)
    BY DEF PodMoves
  <1>3. (sandbox' = sandbox => SandboxMoves) /\ (sandbox' = NoSandbox => SandboxMoves)
    BY DEF SandboxMoves
  <1>4. (claim' = claim => ClaimMoves) /\ (claim' = NoClaim => ClaimMoves)
    BY DEF ClaimMoves
  <1>5. /\ last' = last => \A o \in {"claim", "sandbox", "pod"} : last'[o] >= last[o]
        /\ extra' = extra => \A k \in Kinds : extra[k] = "gone" => extra'[k] = "gone"
    BY <1>1
  <1>6. CASE UNCHANGED world
    BY <1>2, <1>3, <1>4, <1>5, <1>6 DEF world
  <1>7. CASE WorldNext
    <2>1. ASSUME NEW o \in {"claim", "sandbox", "pod"}, New(o)
          PROVE  /\ \A n \in {"claim", "sandbox", "pod"} : last'[n] >= last[n]
                 /\ last'[o] = last[o] + 1
      BY <1>1, <2>1 DEF New, TypeOK
    <2>2. CASE createSandboxClaim
      <3>1. ClaimMoves
        BY <2>1, <2>2 DEF createSandboxClaim, ClaimMoves
      <3>2. QED  BY <1>2, <1>3, <1>5, <2>1, <2>2, <3>1 DEF createSandboxClaim
    <2>3. CASE createBarePod \/ ForeignPod
      <3>1. PodMoves /\ New("pod")
        BY <2>1, <2>3 DEF createBarePod, ForeignPod, NewPod, PodMoves
      <3>2. QED  BY <1>3, <1>4, <1>5, <2>1, <2>3, <3>1 DEF createBarePod, ForeignPod
    <2>4. CASE MakePod
      <3>1. New("pod") /\ pod'.uid = last["pod"] + 1 /\ pod'.owner = sandbox.uid
        BY <2>4 DEF MakePod, NewPod
      <3>2. PodMoves
        BY <2>1, <3>1 DEF PodMoves
      <3>3. QED  BY <1>3, <1>4, <1>5, <2>1, <2>4, <3>1, <3>2 DEF MakePod
    <2>5. CASE MakeSandbox
      <3>1. SandboxMoves
        BY <2>1, <2>5 DEF MakeSandbox, SandboxMoves
      <3>2. QED  BY <1>2, <1>4, <1>5, <2>1, <2>5, <3>1 DEF MakeSandbox
    <2>6. CASE BindClaim
      <3>1. ClaimMoves
        BY <1>1, <2>6 DEF BindClaim, ClaimMoves, Claim
      <3>2. QED  BY <1>2, <1>3, <1>5, <2>6, <3>1 DEF BindClaim
    <2>7. CASE CollectSandbox
      BY <1>2, <1>3, <1>4, <1>5, <2>7 DEF CollectSandbox
    <2>8. CASE OrphanPod
      <3>1. PodMoves
        BY <1>1, <2>8 DEF OrphanPod, PodMoves, Pod
      <3>2. QED  BY <1>3, <1>4, <1>5, <2>8, <3>1 DEF OrphanPod
    <2>9. CASE CollectPod \/ RemovePod \/ releaseSandboxClaimPod
      BY <1>2, <1>3, <1>4, <1>5, <2>9 DEF CollectPod, RemovePod, releaseSandboxClaimPod
    <2>10. CASE PodEnds
      <3>1. PodMoves
        BY <1>1, <2>10 DEF PodEnds, PodMoves, Pod
      <3>2. QED  BY <1>3, <1>4, <1>5, <2>10, <3>1 DEF PodEnds
    <2>11. CASE releaseSandboxClaim
      <3>1. \A k \in Kinds : extra[k] = "gone" => extra'[k] = "gone"
        BY <2>11 DEF releaseSandboxClaim, OrFault
      <3>2. QED  BY <1>2, <1>3, <1>4, <1>5, <2>11, <3>1 DEF releaseSandboxClaim
    <2>12. CASE Tamper
      <3>1. PodMoves /\ SandboxMoves /\ ClaimMoves /\ last' = last
        <4>1. \/ claim' = claim
              \/ claim' = [claim EXCEPT !.label = "bad"]
          BY <2>12 DEF Tamper
        <4>2. \/ sandbox' = sandbox
              \/ sandbox' = [sandbox EXCEPT !.label = "bad"]
          BY <2>12 DEF Tamper
        <4>3. \/ pod' = pod
              \/ pod.label = "ours" /\ pod' = [pod EXCEPT !.label = "bad"]
          BY <2>12 DEF Tamper
        <4>4. PodMoves
          BY <1>1, <1>2, <4>3 DEF PodMoves, Pod
        <4>5. SandboxMoves
          BY <1>1, <1>3, <4>2 DEF SandboxMoves, Sandbox
        <4>6. ClaimMoves
          BY <1>1, <1>4, <4>1 DEF ClaimMoves, Claim
        <4>7. QED  BY <2>12, <4>4, <4>5, <4>6 DEF Tamper
      <3>2. \A k \in Kinds : extra[k] = "gone" => extra'[k] = "gone"
        BY <2>12 DEF Tamper, TypeOK
      <3>3. QED  BY <1>5, <3>1, <3>2
    <2>13. ASSUME NEW k \in Kinds, LaunchGrants(k)  PROVE ObjectsMove
      <3>1. \A j \in Kinds : extra[j] = "gone" => extra'[j] = "gone"
        BY <2>13 DEF LaunchGrants, TypeOK
      <3>2. QED  BY <1>2, <1>3, <1>4, <1>5, <2>13, <3>1 DEF LaunchGrants
    <2>14. QED
      BY <1>7, <2>2, <2>3, <2>4, <2>5, <2>6, <2>7, <2>8, <2>9, <2>10, <2>11, <2>12, <2>13
         DEF WorldNext
  <1>8. ASSUME NEW c \in Cleaners, CleanerNext(c) \/ Abandon(c)  PROVE ObjectsMove
    <2>1. pass[c] \in Pass /\ PassInv(pass[c])
      BY DEF TypeOK, ConfirmInv
    <2>2. CASE \/ ListPods(c) \/ ListClaims(c) \/ ListSandboxes(c)
               \/ ConfirmPods(c) \/ ConfirmClaims(c) \/ ConfirmRest(c)
               \/ Return(c) \/ Abandon(c)
      BY <1>6, <2>2, InventoryMoves, ListSandboxesMoves, ConfirmMoves, ReturnMoves
    <2>3. CASE SaveIdentity(c)
      <3>1. SandboxMoves
        BY <1>1, <1>3, <2>3, SaveIdentityMoves DEF SandboxMoves, Sandbox
      <3>2. QED  BY <1>2, <1>4, <1>5, <2>3, <3>1, SaveIdentityMoves
    <2>4. CASE GetPod(c)
      <3>1. \/ pod' = pod
            \/ /\ pod' = [pod EXCEPT !.label = "ours"]
               /\ pod.label = "ours" \/ pod.owner # 0
        BY <2>1, <2>4, GetPodMoves DEF PassInv, Shaped
      <3>2. PodMoves
        BY <1>1, <1>2, <3>1 DEF PodMoves, Pod
      <3>3. QED  BY <1>3, <1>4, <1>5, <2>4, <3>2, GetPodMoves
    <2>5. CASE DeletePod(c) \/ confirmObjectGone(c)
      BY <1>2, <1>3, <1>4, <1>5, <2>5, DeletePodMoves
    <2>6. CASE DeleteSandbox(c)
      <3>1. \/ sandbox' = sandbox \/ sandbox' = NoSandbox
            \/ /\ sandbox' = [sandbox EXCEPT !.orphaning = TRUE]
               /\ sandbox.orphaning \/ Orphaner(pass[c])
        BY <2>6, DeleteSandboxMoves DEF Orphaner
      <3>2. SandboxMoves
        BY <1>1, <1>3, <3>1 DEF SandboxMoves, Sandbox
      <3>3. QED  BY <1>2, <1>4, <1>5, <2>6, <3>2, DeleteSandboxMoves
    <2>7. CASE DeleteExtras(c) \/ DeleteClaim(c)
      BY <1>2, <1>3, <1>4, <1>5, <2>7, DeleteRestMoves
    <2>8. QED
      BY <1>8, <2>2, <2>3, <2>4, <2>5, <2>6, <2>7 DEF CleanerNext
  <1>9. CASE UNCHANGED vars
    BY <1>6, <1>9 DEF vars
  <1>10. QED  BY <1>7, <1>8, <1>9 DEF Next

----------------------------------------------------------------------------
(* The steps of others.                                                     *)

\* The objects stay as the invariant has them.
LEMMA ObjectStep ==
    ASSUME TypeOK, TypeOK', ConfirmInv, ObjectsMove  PROVE ObjectInv'
  <1>1. ObjectInv
    BY DEF ConfirmInv
  <1>2. /\ last'["claim"] >= last["claim"] /\ last'["sandbox"] >= last["sandbox"]
        /\ last'["pod"] >= last["pod"]
        /\ last'["claim"] \in Nat /\ last'["sandbox"] \in Nat /\ last'["pod"] \in Nat
    BY DEF ObjectsMove, TypeOK
  <1>3. /\ pod'.owner <= last'["sandbox"] /\ pod'.uid <= last'["pod"]
        /\ pod'.mine \/ pod'.active => pod'.uid # 0
    BY <1>1, <1>2, Numbers DEF ObjectInv, ObjectsMove, PodMoves, NoPod
  <1>4. claim'.uid <= last'["claim"] /\ (claim'.uid # 0 => claim'.label # "none")
    BY <1>1, <1>2, Numbers DEF ObjectInv, ObjectsMove, ClaimMoves, NoClaim
  <1>5. /\ sandbox'.uid <= last'["sandbox"] /\ sandbox'.owner <= last'["claim"]
        /\ sandbox'.uid # 0 => sandbox'.owner # 0
    BY <1>1, <1>2, Numbers DEF ObjectInv, ObjectsMove, SandboxMoves, NoSandbox
  <1>6. sandbox'.orphaning => sandbox'.label # "none"
    <2>1. ASSUME NEW e \in Cleaners, Orphaner(pass[e])
          PROVE  sandbox.label # "none"
      BY <2>1 DEF ConfirmInv, PassInv, Marked, Shaped, Orphaner
    <2>2. QED
      BY <1>1, <2>1 DEF ObjectInv, ObjectsMove, SandboxMoves, NoSandbox
  <1>7. QED  BY <1>3, <1>4, <1>5, <1>6 DEF ObjectInv

\* What holds of the notes of a pass holds after a step of others.
LEMMA PassStable ==
    ASSUME TypeOK, TypeOK', ConfirmInv, ObjectsMove, [Next]_vars,
           NEW p \in Pass, PassInv(p)
    PROVE  PassInv(p)'
  <1>1. /\ last'["claim"] >= last["claim"] /\ last'["sandbox"] >= last["sandbox"]
        /\ last'["pod"] >= last["pod"] /\ ObjectInv
        /\ last'["claim"] \in Nat /\ last'["sandbox"] \in Nat /\ last'["pod"] \in Nat
        /\ PodMoves /\ SandboxMoves /\ ClaimMoves
    BY DEF ObjectsMove, TypeOK, ConfirmInv
  <1>2. Given(p)' /\ Shaped(p)'
    BY <1>1, Numbers, PassNumbers DEF Given, Shaped, PassInv
  <1>3. Marked(p)'
    BY <1>1, Numbers, PassNumbers
       DEF Marked, PassInv, SandboxMoves, NoSandbox, Given, Shaped
  <1>4. Emptied(p)'
    BY PassNumbers DEF Emptied, PassInv, ObjectsMove
  <1>5. ASSUME Same(p)'
        PROVE  /\ Same(p) /\ pod'.mine = pod.mine /\ (pod'.active => pod.active)
               /\ pod.label # "none" => pod'.label # "none"
               /\ pod.label = "none" /\ pod.owner = 0 => pod'.label = "none"
               /\ \/ pod'.owner = pod.owner
                  \/ pod'.owner = 0 /\ pod.owner = sandbox.uid /\ sandbox.orphaning
    BY <1>1, <1>5, Numbers, PassNumbers DEF Same, PodMoves, NoPod, PassInv, Given
  <1>6. Listing(p)'
    BY <1>1, <1>5, Numbers, PassNumbers
       DEF Listing, PassInv, Given, ObjectInv, SandboxMoves, NoSandbox, ClaimMoves, NoClaim
  <1>7. Keeping(p)'
    BY <1>5 DEF Keeping, PassInv
  <1>8. Sparing(p)'
    BY <1>1, <1>5, Numbers, PassNumbers
       DEF Sparing, PassInv, Given, Shaped, ObjectInv, SandboxMoves, NoSandbox,
           ClaimMoves, NoClaim
  <1>9. Stopping(p)'
    <2> SUFFICES ASSUME p.pc \notin Planning, p.clean, Same(p)', p.pod.mine,
                        p.pod.active, AtWork'
                 PROVE  \/ Lost'
                        \/ p.pc \notin {"claims?", "rest?", "done"} /\ pod'.label # "none"
                        \/ p.pc \in {"identity", "pod"} /\ p.parent
      BY DEF Stopping
    <2>1. AtWork /\ Same(p)
      BY <1>5 DEF AtWork
    <2>2. \/ Lost
          \/ p.pc \notin {"claims?", "rest?", "done"} /\ pod.label # "none"
          \/ p.pc \in {"identity", "pod"} /\ p.parent
      BY <2>1 DEF Stopping, PassInv
    <2>3. CASE Lost
      <3>1. CASE pod.owner = 0 /\ pod.label = "none"
        BY <1>1, <1>5, <3>1 DEF Lost
      <3>2. CASE pod.owner # 0 /\ pod.owner # sandbox.uid
        BY <1>1, <1>5, <3>2, Numbers DEF Lost, SandboxMoves, NoSandbox, ObjectInv
      <3>3. CASE /\ pod.owner # 0 /\ pod.owner = sandbox.uid
                 /\ sandbox.owner # 0 /\ sandbox.owner # claim.uid /\ ~sandbox.orphaning
                 /\ \A e \in Cleaners : ~Orphaner(pass[e])
        <4>1. pod'.owner = pod.owner
          BY <1>5, <3>3
        <4>2. CASE sandbox'.uid # pod.owner
          BY <3>3, <4>1, <4>2 DEF Lost
        <4>3. CASE sandbox'.uid = pod.owner
          <5>1. sandbox'.owner = sandbox.owner /\ ~sandbox'.orphaning
            BY <1>1, <3>3, <4>3, Numbers DEF SandboxMoves, NoSandbox, ObjectInv
          <5>2. sandbox'.owner # claim'.uid
            BY <1>1, <3>3, <5>1, Numbers DEF ClaimMoves, NoClaim, ObjectInv
          <5>3. ASSUME NEW e \in Cleaners, Orphaner(pass[e])'  PROVE FALSE
            <6>1. pass'[e] = pass[e]
              BY <1>1, <2>1, <5>3, NoNewOrphaner DEF Orphaner, AtWork
            <6>2. QED  BY <3>3, <4>3, <5>3, <6>1 DEF Orphaner
          <5>4. QED  BY <3>3, <4>1, <4>3, <5>1, <5>2, <5>3 DEF Lost
        <4>4. QED  BY <4>2, <4>3
      <3>4. QED  BY <2>3, <3>1, <3>2, <3>3 DEF Lost
    <2>4. QED  BY <1>5, <2>2, <2>3
  <1>10. QED
    BY <1>2, <1>3, <1>4, <1>6, <1>7, <1>8, <1>9 DEF PassInv
----------------------------------------------------------------------------
(* The steps of a pass itself.                                              *)

\* A pass that gives up something keeps what it owes.
LEMMA OwnPast ==
    ASSUME TypeOK, NEW p \in Pass, NEW q, PassInv(p), Past(p, q), p.pc \notin Planning,
           q.clean => ~(p.pc \in {"identity", "pod"} /\ p.parent),
           \/ q.claimWork = 0 \/ ~p.under \/ ~p.parent \/ sandbox.orphaning
           \/ p.work # sandbox.uid
           \/ p.pc \notin {"identity", "pod", "sandbox"}
           \/ p.pc = "sandbox" /\ ~p.completed,
           p.pc \notin {"claims?", "rest?", "done"}
    PROVE  PassInv(q)
  <1>1. p.pc # "idle" /\ q.pc \notin Planning /\ q.pc # "idle"
    BY DEF Planning, Past
  <1>2. q.claim.uid # 0 => q.claim.label # "none"
    BY DEF PassInv, Shaped, Past, NoClaim
  <1>3. q.claim.uid \in {0, p.claim.uid}
    BY DEF Past, NoClaim
  <1>4. Given(q)
    <2>1. Given(p) /\ q.pod = p.pod
      BY DEF PassInv, Past
    <2>2. q.work \in {0, p.work} /\ q.claimWork \in {0, p.claimWork}
      BY DEF Past
    <2>3. QED  BY <1>3, <2>1, <2>2, Numbers DEF Given
  <1>5. Shaped(q) /\ Marked(q) /\ Emptied(q)
    BY <1>1, <1>2 DEF Shaped, Marked, Emptied, Past
  <1>6. Same(q) = Same(p) /\ q.pod = p.pod
    BY DEF Same, Past
  <1>7. Listing(q)
    BY <1>1, <1>6 DEF Listing, PassInv, Past
  <1>8. Stopping(q)
    BY <1>1, <1>6 DEF Stopping, PassInv, Past
  <1>9. Keeping(q)
    BY <1>1, <1>6 DEF Keeping, PassInv, Past
  <1>10. Sparing(q)
    BY <1>1, <1>6 DEF Sparing, Keeping, PassInv, Past
  <1>11. QED
    BY <1>4, <1>5, <1>7, <1>8, <1>9, <1>10 DEF PassInv

\* The plan of a pass that may still be confirmed: a listed active Pod without a label
\* is under a sandbox the pass works on, or is lost; and the claim of a sandbox whose
\* Pod has ended is only to be removed together with the sandbox.
LEMMA OwnPlans ==
    ASSUME TypeOK, ConfirmInv, NEW p \in Pass, NEW q, PassInv(p), p.pc = "sandboxes",
           Plans(p, q, sandbox)
    PROVE  PassInv(q)
  <1>1. ObjectInv /\ q \in Pass /\ q.pod = p.pod /\ q.claim = NoClaim
    BY DEF ConfirmInv, Plans
  <1>2. q.pc \in {"identity", "pod", "extras"}
    BY DEF Plans
  <1>3. Same(q) = Same(p)
    BY <1>1 DEF Same
  <1>4. suspensionSandboxWork(p, sandbox) \in {0, sandbox.uid}
    BY DEF suspensionSandboxWork
  <1>5. Given(q)
    <2>1. Given(p) /\ NoClaim.uid = 0
      BY DEF PassInv, NoClaim
    <2>2. q.work \in {0, sandbox.uid} /\ q.claimWork \in {0, p.claim.uid}
      BY <1>4 DEF Plans
    <2>3. QED  BY <1>1, <2>1, <2>2, Numbers DEF Given, ObjectInv
  <1>6. Shaped(q) /\ Marked(q) /\ Emptied(q)
    BY <1>1, <1>2 DEF Shaped, Marked, Emptied, Plans, Planning, NoClaim
  <1>7. Listing(q)
    BY <1>1, <1>2, <1>3 DEF Listing, PassInv
  <1>8. Keeping(q)
    BY <1>1, <1>2, <1>3 DEF Keeping, PassInv
  <1>9. Sparing(q)
    <2> SUFFICES ASSUME Same(p), q.claimWork # 0, q.claimWork = claim.uid,
                        claim.uid = sandbox.owner, pod.owner # 0, pod.owner = sandbox.uid
                 PROVE  /\ q.under /\ q.parent /\ q.work = sandbox.uid
                        /\ q.pc \in {"identity", "pod", "sandbox"}
      BY <1>3 DEF Sparing
    <2>1. claimWork(p) /\ ~claimBlocked(p, sandbox) /\ ownerClaim(p, sandbox)
      BY DEF Plans, ownerClaim
    <2>2. suspensionSandboxWork(p, sandbox) = sandbox.uid
      BY <2>1 DEF suspensionSandboxWork, claimBlocked, Inventoried
    <2>3. QED  BY <2>1, <2>2 DEF Plans
  <1>10. Stopping(q)
    <2> SUFFICES ASSUME q.clean, Same(p), AtWork, pod.label = "none",
                        suspensionSandboxWork(p, sandbox) = 0
                 PROVE  Lost
      BY <1>2, <1>3 DEF Stopping, Plans
    <2>1. p.clean /\ ~inventoryUnverified(p, sandbox) /\ "claims" \in p.ok
      BY DEF Plans, PassInv, Shaped
    <2>2. p.pod.label = "none"
      BY DEF PassInv, Listing
    <2>3. CASE pod.owner # 0 /\ pod.owner = sandbox.uid
      <3>1. ~PodConflicts(p, sandbox) /\ ~Inventoried(p, sandbox)
        BY <2>2, <2>3 DEF PodConflicts, PodNamesSandbox, suspensionSandboxWork
      <3>2. sandbox.label # "bad" /\ p.claim.label # "bad"
            /\ ~(sandbox.label = "ours" /\ UnknownOwner(p, sandbox))
        BY <2>1 DEF inventoryUnverified
      <3>3. ~ownerClaim(p, sandbox) /\ sandbox.label = "none"
        BY <3>1, <3>2, Numbers DEF Inventoried, Sandbox, Labels
      <3>4. sandbox.owner # 0
        BY <1>1, <2>3 DEF ObjectInv
      <3>5. sandbox.owner # p.claim.uid
        <4>1. p.claim.uid # 0 => p.claim.label = "ours"
          BY <3>2, PassNumbers DEF PassInv, Shaped, Claim, Labels
        <4>2. QED  BY <3>3, <3>4, <4>1 DEF ownerClaim, claimWork
      <3>6. sandbox.owner # claim.uid
        BY <2>1, <2>3, <3>5 DEF PassInv, Listing
      <3>7. ~sandbox.orphaning
        BY <1>1, <3>3 DEF ObjectInv
      <3>8. ASSUME NEW e \in Cleaners, Orphaner(pass[e])  PROVE FALSE
        BY <3>3, <3>8 DEF ConfirmInv, PassInv, Marked, Shaped, Orphaner
      <3>9. QED  BY <2>3, <3>4, <3>6, <3>7, <3>8 DEF Lost
    <2>4. QED  BY <2>3 DEF Lost
  <1>11. QED
    BY <1>5, <1>6, <1>7, <1>8, <1>9, <1>10 DEF PassInv

\* A pass that has not begun.
LEMMA OwnIdle ==
    ASSUME TypeOK, ConfirmInv  PROVE PassInv(PassIdle)
  <1>1. /\ PassIdle.pc = "idle" /\ PassIdle.work = 0 /\ PassIdle.claimWork = 0
        /\ ~PassIdle.parent /\ PassIdle.pod = NoPod /\ PassIdle.claim = NoClaim
    BY DEF PassIdle
  <1>2. NoPod.uid = 0 /\ NoClaim.uid = 0
    BY DEF NoPod, NoClaim
  <1>3. last["claim"] >= 0 /\ last["sandbox"] >= 0 /\ last["pod"] >= 0
    BY Numbers
  <1>4. Given(PassIdle)
    BY <1>1, <1>2, <1>3 DEF Given
  <1>5. QED
    BY <1>1, <1>2, <1>4
       DEF PassInv, Shaped, Marked, Emptied, Listing, Same, Stopping, Keeping, Sparing,
           Planning

\* deleteSuspensionPod as far as the notes of the pass go.
LEMMA OwnReads ==
    ASSUME NEW p \in Pass, NEW q, PassInv(p), Reads(p, q),
           \/ p.pc = "delete" /\ q.pc = "gone"
           \/ p.pc = "pods?" /\ q.pc = "claims?" /\ (q.clean => pod.label = "none" \/ ~pod.active)
           \/ p.pc = "claims?" /\ q.pc = "rest?"
           \/ p.pc = "rest?" /\ q.pc = "done"
    PROVE  PassInv(q)
  <1>1. Same(q) = Same(p)
    BY DEF Same, Reads
  <1>2. Given(q) /\ Shaped(q) /\ Marked(q) /\ Emptied(q) /\ Listing(q)
    BY <1>1 DEF Given, Shaped, Marked, Emptied, Listing, Planning, Reads, PassInv
  <1>3. Stopping(q) /\ Keeping(q) /\ Sparing(q)
    BY <1>1 DEF Stopping, Keeping, Sparing, AtWork, Planning, Reads, PassInv
  <1>4. QED  BY <1>2, <1>3 DEF PassInv

\* The Pod is out of the way.
LEMMA OwnSafe ==
    ASSUME TypeOK, NEW p \in Pass, PassInv(p), pod.uid = 0, p.pc \in {"pod", "gone"}
    PROVE  PassInv(PodSafe(p))
  <1>1. CASE p.parent
    <2> DEFINE q == [p EXCEPT !.pc = "sandbox"]
    <2>1. PodSafe(p) = q
      BY <1>1, PastSafe
    <2>2. Reads(p, q) /\ q.pc = "sandbox"
      BY DEF Reads, Pass, PassPCs
    <2> HIDE DEF q
    <2>3. ~Same(q)
      BY DEF Same
    <2>4. PassInv(q)
      BY <1>1, <2>2, <2>3
         DEF PassInv, Given, Shaped, Marked, Emptied, Listing, Stopping, Keeping, Sparing,
             Planning, Reads
    <2>5. QED  BY <2>1, <2>4
  <1>2. CASE ~p.parent
    BY <1>2, OwnPast, PastSafe DEF Planning
  <1>3. QED  BY <1>1, <1>2

\* What pass c notes is right, in the state its step leads to.
LEMMA OwnStep ==
    ASSUME TypeOK, TypeOK', ConfirmInv, ObjectsMove, [Next]_vars,
           NEW c \in Cleaners, CleanerNext(c) \/ Abandon(c)
    PROVE  \A q \in Pass : q = pass'[c] => PassInv(q)'
  <1> SUFFICES ASSUME NEW q \in Pass, q = pass'[c]  PROVE PassInv(q)'
    OBVIOUS
  <1>1. PICK p \in Pass : p = pass[c]
    BY DEF TypeOK
  <1>2. PassInv(p) /\ ObjectInv
    BY <1>1 DEF ConfirmInv
  <1>3. SUFFICES ASSUME ~PassInv(q)  PROVE PassInv(q)'
    BY PassStable
  <1>4. PassInv(p)'
    BY <1>2, PassStable
  <1>5. CASE ListPods(c) \/ ListClaims(c)
    <2>1. CASE /\ q.pc = "claims" /\ q.pod = pod /\ q.claim = NoClaim
               /\ q.work = 0 /\ q.claimWork = 0 /\ ~q.parent
      <3>1. Given(q)
        BY <1>2, <2>1, Numbers DEF Given, NoClaim, ObjectInv
      <3>2. QED
        BY <1>3, <2>1, <3>1
           DEF PassInv, Shaped, Marked, Emptied, Listing, Same, Stopping, Keeping, Sparing,
               Planning, NoClaim
    <2>2. CASE /\ p.pc = "claims" /\ q.pc = "sandboxes"
               /\ q.pod = p.pod /\ q.work = p.work /\ q.claimWork = p.claimWork
               /\ q.parent = p.parent /\ q.claim \in {claim, p.claim}
               /\ q.clean => "claims" \in q.ok /\ q.claim = claim
      <3>1. Given(q)
        BY <1>2, <2>2 DEF Given, ObjectInv, PassInv
      <3>2. Shaped(q)
        BY <1>2, <2>2 DEF Shaped, ObjectInv, PassInv, Planning
      <3>3. QED
        BY <1>2, <1>3, <2>2, <3>1, <3>2
           DEF PassInv, Shaped, Marked, Emptied, Listing, Same, Stopping, Keeping, Sparing,
               Planning
    <2>3. QED  BY <1>1, <1>5, <2>1, <2>2, InventoryMoves
  <1>6. CASE ListSandboxes(c)
    <2>1. CASE q = PassIdle
      BY <1>3, <2>1, OwnIdle
    <2>2. CASE Past(p, [q EXCEPT !.kinds = p.kinds]) /\ ~q.clean /\ p.pc = "sandboxes"
      <3>1. /\ q.pc \in {"pod", "extras"} /\ ~q.parent /\ q.pod = p.pod
            /\ q.claim \in {NoClaim, p.claim} /\ q.work = 0 /\ q.claimWork = 0
        BY <1>2, <2>2 DEF Past, Pass, PassInv, Shaped, Planning
      <3>2. Given(q)
        BY <1>2, <3>1, Numbers DEF Given, PassInv, NoClaim
      <3>3. QED
        BY <1>2, <1>3, <2>2, <3>1, <3>2
           DEF PassInv, Shaped, Marked, Emptied, Listing, Same, Stopping, Keeping, Sparing,
               Planning, NoClaim
    <2>3. ASSUME NEW r \in Pass, r = [p EXCEPT !.kinds = r.kinds, !.clean = r.clean],
                 r.clean => p.clean, Plans(r, q, sandbox), p.pc = "sandboxes"
          PROVE  FALSE
      <3>1. /\ r.pc = p.pc /\ r.pod = p.pod /\ r.claim = p.claim /\ r.work = p.work
            /\ r.claimWork = p.claimWork /\ r.parent = p.parent /\ r.ok = p.ok
        BY <2>3 DEF Pass
      <3>2. PassInv(r)
        BY <1>2, <2>3, <3>1
           DEF PassInv, Given, Shaped, Marked, Emptied, Listing, Same, Stopping, Keeping,
               Sparing, Planning
      <3>3. QED  BY <1>3, <2>3, <3>1, <3>2, OwnPlans
    <2>4. QED  BY <1>1, <1>6, <2>1, <2>2, <2>3, ListSandboxesMoves
  <1>7. CASE SaveIdentity(c)
    <2>1. CASE q = Block(p) /\ p.pc = "identity"
      BY <1>2, <1>3, <2>1, OwnPast, PastBlock DEF Planning
    <2>2. CASE /\ p.pc = "identity" /\ Reads(p, q) /\ q.pc = "pod"
               /\ sandbox' = [sandbox EXCEPT !.label = "ours"]
      <3>1. sandbox'.label # "none"
        BY <2>2, Numbers DEF Sandbox
      <3>2. Same(q)' = Same(p)'
        BY <2>2 DEF Same, Reads
      <3>3. QED
        BY <1>4, <2>2, <3>1, <3>2
           DEF PassInv, Given, Shaped, Marked, Emptied, Listing, Stopping, Keeping,
               Sparing, Planning, Reads
    <2>3. QED  BY <1>1, <1>7, <2>1, <2>2, SaveIdentityMoves
  <1>8. CASE GetPod(c)
    <2>1. p.pc = "pod"
      BY <1>1, <1>8, GetPodMoves
    <2>2. CASE pod.uid = 0 /\ q = PodSafe(p)
      BY <1>2, <1>3, <2>1, <2>2, OwnSafe
    <2>3. CASE q = PodUnsafe(p)
      BY <1>2, <1>3, <2>1, <2>3, OwnPast, PastUnsafe DEF Planning
    <2>4. CASE /\ pod' = pod \/ pod' = [pod EXCEPT !.label = "ours"]
               /\ pod.label = "ours" \/ pod' = [pod EXCEPT !.label = "ours"]
      <3>1. pod'.active = pod.active /\ pod'.label # "none"
        BY <2>4, Numbers DEF Pod
      <3>2. CASE pod.active /\ Reads(p, q) /\ q.pc = "delete"
        <4>1. Same(q)' = Same(p)'
          BY <3>2 DEF Same, Reads
        <4>2. QED
          BY <1>4, <2>1, <3>1, <3>2, <4>1
             DEF PassInv, Given, Shaped, Marked, Emptied, Listing, Stopping, Keeping,
                 Sparing, Planning, Reads
      <3>3. ASSUME NEW r \in Pass, Reads(p, r), r.pc = p.pc, r.completed = p.parent,
                   q = PodSafe(r), ~pod.active
            PROVE  PassInv(q)'
        <4>1. CASE r.parent
          <5>1. q = [r EXCEPT !.pc = "sandbox"]
            BY <3>3, <4>1, PastSafe
          <5>2. Reads(p, q) /\ q.pc = "sandbox" /\ q.completed
            <6>1. Reads(r, q) /\ q.pc = "sandbox" /\ q.completed = r.completed
              BY <5>1 DEF Reads, Pass
            <6>2. QED  BY <3>3, <4>1, <6>1 DEF Reads
          <5>3. Same(q)' = Same(p)' /\ ~AtWork'
            BY <3>1, <3>3, <5>2 DEF Same, Reads, AtWork
          <5>4. QED
            BY <1>4, <2>1, <3>3, <4>1, <5>2, <5>3
               DEF PassInv, Given, Shaped, Marked, Emptied, Listing, Stopping, Keeping,
                   Sparing, Planning, Reads
        <4>2. CASE ~r.parent
          <5>1. Past(r, q)
            BY <3>3, <4>2, PastSafe
          <5>2. Same(r) = Same(p)
            BY <3>3 DEF Same, Reads
          <5>3. PassInv(r)
            BY <1>2, <2>1, <3>3, <4>2, <5>2
               DEF PassInv, Given, Shaped, Marked, Emptied, Listing, Stopping, Keeping,
                   Sparing, Planning, Reads
          <5>4. QED  BY <1>3, <2>1, <3>3, <4>2, <5>1, <5>3, OwnPast DEF Planning
        <4>3. QED  BY <4>1, <4>2
      <3>4. QED  BY <1>1, <1>8, <2>2, <2>3, <3>2, <3>3, GetPodMoves
    <2>5. QED  BY <1>1, <1>8, <2>2, <2>3, <2>4, GetPodMoves
  <1>9. CASE DeletePod(c) \/ confirmObjectGone(c)
    <2>1. p.pc \in {"delete", "gone"}
      BY <1>1, <1>9, DeletePodMoves
    <2>2. CASE q = PodUnsafe(p)
      BY <1>2, <1>3, <2>1, <2>2, OwnPast, PastUnsafe DEF Planning
    <2>3. CASE confirmObjectGone(c) /\ q # PodUnsafe(p)
      <3>1. p.pc = "gone" /\ pod.uid = 0 /\ q = PodSafe(p)
        BY <1>1, <2>3, DeletePodMoves DEF confirmObjectGone, Frame
      <3>2. QED  BY <1>2, <1>3, <3>1, OwnSafe
    <2>4. CASE DeletePod(c) /\ q # PodUnsafe(p)
      <3>1. p.pc = "delete" /\ Reads(p, q) /\ q.pc = "gone"
        BY <1>1, <2>4 DEF DeletePod, OrFault, Frame, To, TypeOK, Reads, Pass, PassPCs
      <3>2. QED  BY <1>2, <1>3, <3>1, OwnReads
    <2>5. QED  BY <1>9, <2>2, <2>3, <2>4
  <1>10. CASE DeleteSandbox(c)
    <2>1. p.pc = "sandbox" /\ p.parent /\ p.work # 0
      BY <1>1, <1>2, <1>10, DeleteSandboxMoves DEF PassInv, Shaped
    <2>2. CASE sandbox.uid = 0 /\ q = ToPods(p)
      BY <1>2, <1>3, <2>1, <2>2, OwnPast, PastPods DEF Planning
    <2>3. CASE q = IF p.completed THEN Block(p) ELSE ToPods(Unverified(p))
      BY <1>2, <1>3, <2>1, <2>3, OwnPast, PastBlock, PastUnverified DEF Planning
    <2>4. CASE /\ sandbox.uid = p.work /\ q = ToPods(p)
               /\ sandbox' = IF p.completed \/ sandbox.orphaning
                             THEN [sandbox EXCEPT !.orphaning = TRUE] ELSE NoSandbox
      <3>1. Past(p, q)
        BY <2>4, PastPods
      <3>2. p.completed => sandbox'.orphaning
        BY <2>4, Numbers DEF Sandbox
      <3>3. CASE p.completed
        <4>1. /\ Same(q)' = Same(p)' /\ q.claim.uid \in {0, p.claim.uid}
              /\ q.claim.uid # 0 => q.claim = p.claim
          BY <3>1 DEF Same, Past, NoClaim
        <4>2. Given(q)'
          <5>1. Given(p)' /\ q.pod = p.pod /\ q.work \in {0, p.work}
                /\ q.claimWork \in {0, p.claimWork}
            BY <1>4, <3>1 DEF PassInv, Past
          <5>2. last'["claim"] \in Nat /\ last'["sandbox"] \in Nat
            BY DEF TypeOK
          <5>3. QED  BY <4>1, <5>1, <5>2 DEF Given
        <4>3. QED
          BY <1>4, <2>1, <3>1, <3>2, <3>3, <4>1, <4>2
             DEF PassInv, Shaped, Marked, Emptied, Listing, Stopping, Keeping, Sparing,
                 Planning, Past
      <3>4. CASE ~p.completed
        BY <1>2, <1>3, <2>1, <3>1, <3>4, OwnPast DEF Planning
      <3>5. QED  BY <3>3, <3>4
    <2>5. QED  BY <1>1, <1>10, <2>2, <2>3, <2>4, DeleteSandboxMoves
  <1>11. CASE DeleteExtras(c) \/ DeleteClaim(c)
    <2>1. /\ q.pod = p.pod /\ q.kinds = p.kinds /\ q.claim = p.claim
          /\ q.work = p.work /\ q.parent = p.parent /\ (q.clean => p.clean)
      BY <1>1, <1>11, DeleteRestMoves
    <2>2. CASE /\ p.pc = "extras" /\ q.claimWork = p.claimWork
               /\ q.pc \in {"claim", "pods?"}
               /\ q.clean => \A k \in p.kinds : extra'[k] = "gone"
      <3>1. Same(q)' = Same(p)'
        BY <2>1 DEF Same
      <3>2. QED
        BY <1>4, <2>1, <2>2, <3>1
           DEF PassInv, Given, Shaped, Marked, Emptied, Listing, Stopping, Keeping,
               Sparing, Planning
    <2>3. CASE p.pc = "claim" /\ q.pc = "pods?" /\ q.claimWork = 0
      <3>1. Same(q) = Same(p)
        BY <2>1 DEF Same
      <3>2. Given(q)
        BY <1>2, <2>1, <2>3, Numbers DEF Given, PassInv
      <3>3. QED
        BY <1>2, <1>3, <2>1, <2>3, <3>1, <3>2
           DEF PassInv, Shaped, Marked, Emptied, Listing, Stopping, Keeping,
               Sparing, Planning
    <2>4. QED  BY <1>1, <1>11, <2>2, <2>3, DeleteRestMoves
  <1>12. CASE ConfirmPods(c) \/ ConfirmClaims(c) \/ ConfirmRest(c)
    BY <1>1, <1>2, <1>3, <1>12, ConfirmMoves, OwnReads
  <1>13. CASE Return(c) \/ Abandon(c)
    BY <1>3, <1>13, ReturnMoves, OwnIdle
  <1>14. QED
    BY <1>5, <1>6, <1>7, <1>8, <1>9, <1>10, <1>11, <1>12, <1>13 DEF CleanerNext

\* The inductive invariant is kept by every step ...
LEMMA ConfirmInvStep ==
    ASSUME TypeOK, TypeOK', ConfirmInv, [Next]_vars
    PROVE  ConfirmInv' /\ ObjectsMove
  <1>1. ObjectsMove
    BY ObjectsMoveAlways
  <1>2. ObjectInv'
    BY <1>1, ObjectStep
  <1>3. ASSUME NEW d \in Cleaners  PROVE PassInv(pass[d])'
    <2>1. PICK q \in Pass : q = pass'[d]
      BY DEF TypeOK
    <2>2. PassInv(q)'
      <3>1. CASE pass'[d] = pass[d]
        <4>1. PassInv(q)
          BY <2>1, <3>1 DEF ConfirmInv
        <4>2. QED  BY <1>1, <4>1, PassStable
      <3>2. CASE pass'[d] # pass[d]
        <4>1. CleanerNext(d) \/ Abandon(d)
          BY <3>2, OthersStay DEF Next, vars
        <4>2. QED  BY <1>1, <2>1, <4>1, OwnStep
      <3>3. QED  BY <3>1, <3>2
    <2>3. QED
      BY <2>1, <2>2
         DEF PassInv, Given, Shaped, Marked, Emptied, Listing, Same, Stopping, Keeping,
             Sparing
  <1>4. QED  BY <1>1, <1>2, <1>3 DEF ConfirmInv

\* ... and holds initially.
LEMMA ConfirmInvInit == Init => ConfirmInv
  <1> SUFFICES ASSUME Init  PROVE ConfirmInv
    OBVIOUS
  <1>1. /\ claim.uid = 0 /\ sandbox.uid = 0 /\ sandbox.owner = 0 /\ ~sandbox.orphaning
        /\ pod.uid = 0 /\ pod.owner = 0 /\ ~pod.mine /\ ~pod.active
    BY DEF Init, NoClaim, NoSandbox, NoPod
  <1>2. last["claim"] = 0 /\ last["sandbox"] = 0 /\ last["pod"] = 0
    BY DEF Init
  <1>3. ObjectInv
    BY <1>1, <1>2 DEF ObjectInv
  <1>4. ASSUME NEW c \in Cleaners  PROVE PassInv(pass[c])
    <2>1. pass[c] = PassIdle
      BY DEF Init
    <2>2. /\ PassIdle.pc = "idle" /\ PassIdle.work = 0 /\ PassIdle.claimWork = 0
          /\ ~PassIdle.parent /\ PassIdle.pod.uid = 0 /\ PassIdle.claim.uid = 0
      BY DEF PassIdle, NoPod, NoClaim
    <2>3. QED
      BY <1>1, <1>2, <2>1, <2>2
         DEF PassInv, Given, Shaped, Marked, Emptied, Listing, Same, Stopping, Keeping,
             Sparing, Planning
  <1>5. QED  BY <1>3, <1>4 DEF ConfirmInv

----------------------------------------------------------------------------
(* The theorems.                                                            *)

\* CleanupSuspension is confirmed only when the Pod that was active as the pass began
\* has ended, is gone or cannot escape the garbage collector (or no pass can find it),
\* and when the labelled objects it listed are gone: for any number of passes at once,
\* whatever the launch, the sandbox operator, the garbage collector and failing calls do.
THEOREM ConfirmedPassStopsWorkAlways == Spec => []ConfirmedPassStopsWork
  <1>1. TypeOK /\ TypeOK' /\ ConfirmInv /\ [Next]_vars => ConfirmInv'
    BY ConfirmInvStep
  <1>2. ConfirmInv => ConfirmedPassStopsWork
    <2> SUFFICES ASSUME ConfirmInv, NEW c \in Cleaners, Confirmed(c)
                 PROVE  /\ \A k \in pass[c].kinds : extra[k] = "gone"
                        /\ /\ pass[c].pod.mine /\ pass[c].pod.active
                           /\ AtWork /\ pod.uid = pass[c].pod.uid
                           => AwaitsCollection \/ Forgotten
      BY DEF ConfirmedPassStopsWork
    <2>1. PassInv(pass[c]) /\ ObjectInv /\ pass[c].pc = "done" /\ pass[c].clean
      BY DEF ConfirmInv, Confirmed
    <2>2. \A k \in pass[c].kinds : extra[k] = "gone"
      BY <2>1 DEF PassInv, Emptied
    <2>3. ASSUME pass[c].pod.mine, pass[c].pod.active, AtWork, pod.uid = pass[c].pod.uid
          PROVE  AwaitsCollection \/ Forgotten
      <3>1. Same(pass[c])
        BY <2>1, <2>3 DEF Same, ObjectInv, AtWork
      <3>2. Lost
        BY <2>1, <2>3, <3>1 DEF PassInv, Stopping, Planning
      <3>3. QED  BY <2>3, <3>2 DEF Lost, AwaitsCollection, Forgotten
    <2>4. QED  BY <2>2, <2>3
  <1>3. QED  BY <1>1, <1>2, ConfirmInvInit, TypeCorrect, PTL DEF Spec

\* No step takes a Pod that had ended before every pass under way began, or leaves it
\* to the garbage collector, but for the removal by hand and the release of its claim.
LEMMA CompletedPodStep ==
    ASSUME TypeOK, TypeOK', ConfirmInv, [Next]_vars, pod.mine, ~pod.active,
           ~AwaitsCollection,
           \A c \in Cleaners :
              pass[c].pc # "idle" => pass[c].pod.uid = pod.uid /\ ~pass[c].pod.active
    PROVE  \/ RemovePod \/ releaseSandboxClaim
           \/ pod'.uid = pod.uid /\ ~AwaitsCollection'
  <1> DEFINE Kept == pod'.uid = pod.uid /\ ~AwaitsCollection'
  <1>1. /\ claim \in Claim /\ sandbox \in Sandbox /\ pod \in Pod /\ ObjectInv
        /\ pod.uid # 0
    BY Numbers DEF ConfirmInv, ObjectInv
  <1>2. ASSUME pod.owner = 0, pod'.uid = pod.uid, pod'.owner = 0  PROVE Kept
    BY <1>2 DEF AwaitsCollection
  <1>3. ASSUME pod'.uid = pod.uid, pod'.owner = pod.owner,
               sandbox'.uid = sandbox.uid, sandbox'.owner = sandbox.owner,
               sandbox.orphaning => sandbox'.orphaning, claim'.uid = claim.uid
        PROVE  Kept
    BY <1>3 DEF AwaitsCollection
  <1>4. pod.owner # 0 => /\ pod.owner = sandbox.uid /\ sandbox.owner # 0
                         /\ sandbox.owner = claim.uid \/ sandbox.orphaning
    BY <1>1 DEF AwaitsCollection, ObjectInv
  <1>5. CASE WorldNext
    <2>1. ~createBarePod /\ ~ForeignPod /\ ~MakePod
      BY <1>1 DEF createBarePod, ForeignPod, MakePod, NewPod
    <2>2. CASE createSandboxClaim
      <3>1. claim.uid = 0 /\ UNCHANGED <<sandbox, pod>>
        BY <2>2 DEF createSandboxClaim
      <3>2. QED  BY <1>4, <3>1 DEF AwaitsCollection
    <2>3. CASE MakeSandbox
      <3>1. sandbox.uid = 0 /\ UNCHANGED pod
        BY <2>3 DEF MakeSandbox
      <3>2. QED  BY <1>2, <1>4, <3>1
    <2>4. CASE BindClaim
      BY <1>1, <1>3, <2>4 DEF BindClaim, Claim
    <2>5. CASE CollectSandbox
      <3>1. /\ sandbox.owner # 0 /\ sandbox.owner # claim.uid /\ ~sandbox.orphaning
            /\ UNCHANGED pod
        BY <2>5 DEF CollectSandbox
      <3>2. QED  BY <1>2, <1>4, <3>1
    <2>6. CASE OrphanPod
      <3>1. pod'.uid = pod.uid /\ pod'.owner = 0
        BY <1>1, <1>4, <2>6 DEF OrphanPod, Pod
      <3>2. QED  BY <3>1 DEF AwaitsCollection
    <2>7. ~CollectPod
      BY DEF CollectPod, AwaitsCollection
    <2>8. CASE PodEnds
      BY <2>8 DEF PodEnds
    <2>9. CASE releaseSandboxClaimPod
      BY <1>1, <2>9 DEF releaseSandboxClaimPod, RemovePod
    <2>10. CASE Tamper
      <3>1. /\ claim' = claim \/ claim' = [claim EXCEPT !.label = "bad"]
            /\ sandbox' = sandbox \/ sandbox' = [sandbox EXCEPT !.label = "bad"]
            /\ pod' = pod \/ pod' = [pod EXCEPT !.label = "bad"]
        BY <2>10 DEF Tamper
      <3>2. claim'.uid = claim.uid
        BY <1>1, <3>1 DEF Claim
      <3>3. /\ sandbox'.uid = sandbox.uid /\ sandbox'.owner = sandbox.owner
            /\ sandbox'.orphaning = sandbox.orphaning
        BY <1>1, <3>1 DEF Sandbox
      <3>4. pod'.uid = pod.uid /\ pod'.owner = pod.owner
        BY <1>1, <3>1 DEF Pod
      <3>5. QED  BY <1>3, <3>2, <3>3, <3>4
    <2>11. ASSUME NEW k \in Kinds, LaunchGrants(k)  PROVE Kept
      BY <1>3, <2>11 DEF LaunchGrants
    <2>12. QED
      BY <1>5, <2>1, <2>2, <2>3, <2>4, <2>5, <2>6, <2>7, <2>8, <2>9, <2>10, <2>11
         DEF WorldNext
  <1>6. ASSUME NEW c \in Cleaners, CleanerNext(c) \/ Abandon(c)  PROVE Kept
    <2>1. PassInv(pass[c])
      BY DEF ConfirmInv
    <2>2. pass[c].pc # "idle" => Same(pass[c]) /\ ~pass[c].pod.active
      BY <1>1 DEF Same
    <2>3. CASE \/ ListPods(c) \/ ListClaims(c) \/ ListSandboxes(c)
               \/ ConfirmPods(c) \/ ConfirmClaims(c) \/ ConfirmRest(c)
               \/ Return(c) \/ Abandon(c)
      <3>1. UNCHANGED world
        BY <2>3, InventoryMoves, ListSandboxesMoves, ConfirmMoves, ReturnMoves
      <3>2. QED  BY <1>3, <3>1 DEF world
    <2>4. CASE SaveIdentity(c)
      <3>1. /\ UNCHANGED <<claim, pod>>
            /\ sandbox' = sandbox \/ sandbox' = [sandbox EXCEPT !.label = "ours"]
        BY <2>4, SaveIdentityMoves
      <3>2. /\ sandbox'.uid = sandbox.uid /\ sandbox'.owner = sandbox.owner
            /\ sandbox'.orphaning = sandbox.orphaning
        BY <1>1, <3>1 DEF Sandbox
      <3>3. QED  BY <1>3, <3>1, <3>2
    <2>5. CASE GetPod(c)
      <3>1. /\ UNCHANGED <<claim, sandbox>>
            /\ pod' = pod \/ pod' = [pod EXCEPT !.label = "ours"]
        BY <2>5, GetPodMoves
      <3>2. pod'.uid = pod.uid /\ pod'.owner = pod.owner
        BY <1>1, <3>1 DEF Pod
      <3>3. QED  BY <1>3, <3>1, <3>2
    <2>6. CASE DeletePod(c) \/ confirmObjectGone(c)
      <3>1. pass[c].pc \in {"delete", "gone"}
        BY <2>6, DeletePodMoves
      <3>2. QED  BY <2>1, <2>2, <3>1 DEF PassInv, Keeping
    <2>7. CASE DeleteSandbox(c)
      <3>1. pass[c].completed
        BY <2>1, <2>2, <2>7, DeleteSandboxMoves DEF PassInv, Keeping
      <3>2. /\ UNCHANGED <<claim, pod>>
            /\ sandbox' = sandbox \/ sandbox' = [sandbox EXCEPT !.orphaning = TRUE]
        BY <2>7, <3>1, DeleteSandboxMoves
      <3>3. /\ sandbox'.uid = sandbox.uid /\ sandbox'.owner = sandbox.owner
            /\ sandbox.orphaning => sandbox'.orphaning
        BY <1>1, <3>2 DEF Sandbox
      <3>4. QED  BY <1>3, <3>2, <3>3
    <2>8. CASE DeleteExtras(c) \/ DeleteClaim(c)
      <3>1. UNCHANGED <<sandbox, pod>>
        BY <2>8, DeleteRestMoves
      <3>2. CASE claim' = claim
        BY <1>3, <3>1, <3>2
      <3>3. CASE /\ claim' = NoClaim /\ claim.uid \in {0, pass[c].claimWork}
                 /\ pass[c].pc = "claim"
        <4>1. CASE pod.owner = 0
          BY <1>2, <3>1, <4>1
        <4>2. CASE pod.owner # 0
          <5>1. sandbox.orphaning
            BY <1>4, <2>1, <2>2, <3>3, <4>2 DEF PassInv, Sparing
          <5>2. QED  BY <1>4, <3>1, <4>2, <5>1 DEF AwaitsCollection
        <4>3. QED  BY <4>1, <4>2
      <3>4. QED  BY <2>8, <3>2, <3>3, DeleteRestMoves
    <2>9. QED
      BY <1>6, <2>3, <2>4, <2>5, <2>6, <2>7, <2>8 DEF CleanerNext
  <1>7. CASE UNCHANGED vars
    BY <1>3, <1>7 DEF vars, world
  <1>8. QED  BY <1>5, <1>6, <1>7 DEF Next

\* A Pod that had ended before every pass under way began is kept, although its sandbox
\* and its claim are deleted (deleteSuspensionPod's completed Pods, Orphan propagation),
\* for any number of passes at once.
THEOREM CompletedPodKeptAlways == Spec => CompletedPodKept
  <1>1. TypeOK /\ TypeOK' /\ ConfirmInv /\ [Next]_vars => ConfirmInv'
    BY ConfirmInvStep
  <1>2. TypeOK /\ TypeOK' /\ ConfirmInv /\ [Next]_vars =>
          [ /\ pod.mine /\ ~pod.active /\ ~AwaitsCollection
            /\ \A c \in Cleaners :
                  pass[c].pc # "idle" => pass[c].pod.uid = pod.uid /\ ~pass[c].pod.active
            => \/ RemovePod \/ releaseSandboxClaim
               \/ pod'.uid = pod.uid /\ ~AwaitsCollection' ]_vars
    BY CompletedPodStep
  <1>3. QED
    BY <1>1, <1>2, ConfirmInvInit, TypeCorrect, PTL DEF Spec, CompletedPodKept
=============================================================================
