------------------------- MODULE SuspensionCleanup -------------------------
(***************************************************************************)
(* SandboxManager.CleanupSuspension: passes that remove what one run has   *)
(* at work (a Pod, or a SandboxClaim with the Sandbox and the Pod the      *)
(* sandbox operator made for it, and labelled objects nothing depends on), *)
(* racing each other, a launch that is still under way, the sandbox        *)
(* operator and the garbage collector.                                     *)
(*                                                                         *)
(* Every API call of a pass that another actor can observe is an action.   *)
(* The objects carry UIDs: a name may be taken again by another object.    *)
(***************************************************************************)
EXTENDS Naturals

CONSTANTS
    Cleaners,   \* who may run a pass: the run's worker, the ticker, the config controller
    Kinds,      \* pools, service accounts, roles, bindings, secrets
    MaxUID,     \* bounds on the claims, sandboxes and Pods created under one name
    MaxFaults   \* bound on failed calls, superseded passes, crashes and tampering

ASSUME CleanupAssumption ==
    MaxUID \in [{"claim", "sandbox", "pod"} -> Nat] /\ MaxFaults \in Nat

VARIABLES
    claim,      \* the SandboxClaim of the step
    sandbox,    \* the Sandbox of that claim
    pod,        \* the Pod of the sandbox, or the bare Pod
    extra,      \* the labelled objects of each kind
    pass,       \* the pass of each cleaner
    last,       \* the last UID given to a claim, a sandbox and a Pod
    tampered,   \* somebody has spoiled a label
    faults      \* faults still allowed

world == <<claim, sandbox, pod, extra, last>>
vars == <<world, pass, tampered, faults>>

----------------------------------------------------------------------------
\* "ours": run and step; "bad": the run with a step that cannot be or that
\* contradicts the owner.
Labels == {"none", "ours", "bad"}

\* UID 0 is "no such object".  ref: status names the sandbox.
Claim == [uid : Nat, label : Labels, ref : BOOLEAN]
NoClaim == [uid |-> 0, label |-> "none", ref |-> FALSE]

\* owner is the UID of the controller owner, 0 for none; orphaning: deleted, and
\* its Pod is about to lose its owner.
Sandbox == [uid : Nat, label : Labels, owner : Nat, orphaning : BOOLEAN]
NoSandbox == [uid |-> 0, label |-> "none", owner |-> 0, orphaning |-> FALSE]

\* mine (observation): the Pod belongs to the run, whatever its labels say.
Pod == [uid : Nat, label : Labels, owner : Nat, active : BOOLEAN, mine : BOOLEAN]
NoPod == [uid |-> 0, label |-> "none", owner |-> 0, active |-> FALSE, mine |-> FALSE]

Lists == {"pods", "claims", "sandboxes", "extras"}

PassPCs == {"idle", "claims", "sandboxes", "identity", "pod", "delete", "gone",
            "sandbox", "extras", "claim", "pods?", "claims?", "rest?", "done"}

\* ok: the lists that worked; pod: the Pod when the pass began; claim: as listed;
\* work: the sandbox being removed, claimWork: the claim to be removed last (0:
\* none, or blocked); under: the sandbox is the claim's; handled: the Pod was dealt
\* with under its sandbox; parent: it is being dealt with there; got: the Pod to be
\* deleted; safe: deleteSuspensionPod's parentSafe; completed: the Pod had ended.
Pass == [pc : PassPCs, ok : SUBSET Lists, pod : Pod, claim : Claim, work : Nat,
         claimWork : Nat, under : BOOLEAN, handled : BOOLEAN, parent : BOOLEAN,
         got : Nat, safe : BOOLEAN, completed : BOOLEAN, kinds : SUBSET Kinds,
         clean : BOOLEAN]

PassIdle == [pc |-> "idle", ok |-> {}, pod |-> NoPod, claim |-> NoClaim, work |-> 0,
             claimWork |-> 0, under |-> FALSE, handled |-> FALSE, parent |-> FALSE,
             got |-> 0, safe |-> TRUE, completed |-> FALSE, kinds |-> {},
             clean |-> TRUE]

\* UIDs, labels and the notes of a pass keep their shape: every object carries
\* no identity, the run's, or a spoiled one, and never half of one.
TypeOK ==
    /\ claim \in Claim /\ sandbox \in Sandbox /\ pod \in Pod
    /\ extra \in [Kinds -> {"absent", "valid", "bad", "gone"}]
    /\ pass \in [Cleaners -> Pass]
    /\ last \in [{"claim", "sandbox", "pod"} -> Nat]
    /\ tampered \in BOOLEAN /\ faults \in Nat

Init ==
    /\ claim = NoClaim /\ sandbox = NoSandbox /\ pod = NoPod
    /\ extra = [k \in Kinds |-> "absent"]
    /\ pass = [c \in Cleaners |-> PassIdle]
    /\ last = [o \in {"claim", "sandbox", "pod"} |-> 0]
    /\ tampered = FALSE /\ faults = MaxFaults

Fault == faults > 0 /\ faults' = faults - 1

\* A call that may fail: A without a fault, B with one.
OrFault(A, B) == (A /\ UNCHANGED faults) \/ (B /\ Fault)

To(c, p) == pass' = [pass EXCEPT ![c] = p]

----------------------------------------------------------------------------
(* The inventory, read kind by kind.                                        *)

Listed(p, kind, pc) == [p EXCEPT !.ok = @ \cup {kind}, !.pc = pc]

\* recordSuspensionUnverified, recordSuspensionFailure, recordSuspensionPending:
\* any entry keeps the pass from being confirmed.
Unverified(p) == [p EXCEPT !.clean = FALSE]

\* Nothing is looked for where there is no claim.
ListPodsOfClaim(c) ==
    /\ pass[c].pc = "idle" /\ UNCHANGED <<world, tampered, faults>>
    /\ To(c, IF claim.uid = 0 THEN [PassIdle EXCEPT !.pc = "done", !.clean = FALSE]
             ELSE [Listed(PassIdle, "pods", "claims") EXCEPT !.pod = pod])

ListPods(c) ==
    /\ pass[c].pc = "idle"
    /\ LET p == [PassIdle EXCEPT !.pod = pod, !.pc = "claims"] IN
       OrFault(To(c, Listed(p, "pods", "claims")), To(c, Unverified(p)))
    /\ UNCHANGED <<world, tampered>>

ListClaims(c) ==
    /\ pass[c].pc = "claims"
    /\ LET p == [pass[c] EXCEPT !.pc = "sandboxes"] IN
       OrFault(To(c, [Listed(p, "claims", "sandboxes") EXCEPT !.claim = claim]),
               To(c, Unverified(p)))
    /\ UNCHANGED <<world, tampered>>

\* A listed claim with the labels of the run.
claimWork(p) == p.claim.uid # 0 /\ p.claim.label = "ours"

ownerClaim(p, sb) == claimWork(p) /\ sb.owner = p.claim.uid

\* The creation source of sandbox sb cannot be established.
UnknownOwner(p, sb) ==
    /\ sb.owner # 0 /\ ~ownerClaim(p, sb)
    /\ "claims" \notin p.ok \/ sb.owner = p.claim.uid

\* The sandbox is the run's by its claim or by its labels.
Inventoried(p, sb) ==
    IF ownerClaim(p, sb) THEN sb.label # "bad"
    ELSE sb.label = "ours" /\ ~UnknownOwner(p, sb)

\* The listed Pod is the run's and names a sandbox as its controller.
PodNamesSandbox(p, sb) ==
    "pods" \in p.ok /\ p.pod.label = "ours" /\ p.pod.owner # 0 /\ sb.uid # 0

PodConflicts(p, sb) ==
    /\ PodNamesSandbox(p, sb)
    /\ p.pod.owner # sb.uid \/ sb.label = "bad" \/ UnknownOwner(p, sb)

suspensionSandboxWork(p, sb) ==
    IF sb.uid # 0 /\ ~PodConflicts(p, sb)
       /\ (Inventoried(p, sb) \/ PodNamesSandbox(p, sb))
    THEN sb.uid ELSE 0

\* What keeps the claim from being removed, as far as the inventory tells.
claimBlocked(p, sb) ==
    \/ sb.uid # 0 /\ ownerClaim(p, sb) /\ (sb.label = "bad" \/ PodConflicts(p, sb))
    \/ p.claim.ref /\ ~(sb.uid # 0 /\ ownerClaim(p, sb) /\ Inventoried(p, sb))

\* Whether the inventory holds something the pass must leave alone.
inventoryUnverified(p, sb) ==
    \/ p.claim.label = "bad" \/ sb.label = "bad" \/ PodConflicts(p, sb)
    \/ sb.label = "ours" /\ UnknownOwner(p, sb)
    \/ claimWork(p) /\ claimBlocked(p, sb)

\* Past the Pods; what was noted about them is not needed any more.
ToExtras(p) ==
    [PassIdle EXCEPT !.pc = "extras", !.pod = p.pod, !.claimWork = p.claimWork,
                     !.kinds = p.kinds, !.clean = p.clean]

\* Past the sandbox: a listed Pod of the run that was not dealt with under one
\* is next, and then everything else.
ToPods(p) ==
    IF "pods" \in p.ok /\ p.pod.label = "ours" /\ ~p.handled
    THEN [p EXCEPT !.pc = "pod", !.parent = FALSE]
    ELSE ToExtras([p EXCEPT !.clean = @ /\ ~("pods" \in p.ok /\ p.pod.label = "bad")])

\* The pass as planned from its inventory.
Planned(p, sb) ==
    LET w == suspensionSandboxWork(p, sb)
        q == [p EXCEPT !.work = w, !.claim = NoClaim,
                 !.under = ownerClaim(p, sb),
                 !.claimWork = IF claimWork(p) /\ ~claimBlocked(p, sb)
                               THEN p.claim.uid ELSE 0,
                 !.clean = @ /\ ~inventoryUnverified(p, sb)]
    IN  IF w # 0 THEN [q EXCEPT !.pc = "identity", !.parent = TRUE] ELSE ToPods(q)

\* Without the sandboxes no claim is removed.
PlannedBlind(p) == ToPods([p EXCEPT !.claim = NoClaim, !.clean = FALSE])

\* The sandboxes and the labelled objects are listed; a global pass whose
\* activation is superseded, or cannot be read, changes nothing.
ListSandboxes(c) ==
    /\ pass[c].pc = "sandboxes"
    /\ LET kinds == {k \in Kinds : extra[k] = "valid"}
           p == [pass[c] EXCEPT !.kinds = kinds,
                    !.clean = @ /\ \A k \in Kinds : extra[k] # "bad"]
       IN  OrFault(To(c, Planned(p, sandbox)),
                   \/ To(c, PlannedBlind(p))
                   \/ To(c, [Planned(pass[c], sandbox) EXCEPT !.clean = FALSE])
                   \/ To(c, PassIdle))
    /\ UNCHANGED <<world, tampered>>

----------------------------------------------------------------------------
(* Deletions, each with the UID it was decided on.                          *)

\* The sandbox is blocked, and its claim with it.
Block(p) ==
    ToPods([p EXCEPT !.clean = FALSE,
                     !.claimWork = IF p.under THEN 0 ELSE @])

Frame(c, pc) == pass[c].pc = pc /\ UNCHANGED <<last, tampered>>

SaveIdentityStepOnly(c) ==
    /\ Frame(c, "identity") /\ UNCHANGED <<claim, pod, extra, faults>>
    /\ sandbox.uid = pass[c].work /\ sandbox' = [sandbox EXCEPT !.label = "step"]
    /\ To(c, [pass[c] EXCEPT !.pc = "pod", !.handled = TRUE])

\* patchRunIdentityLabels on the sandbox, before anything under it goes.
SaveIdentity(c) ==
    /\ Frame(c, "identity") /\ UNCHANGED <<claim, pod, extra>>
    /\ LET p == pass[c]
           saved == /\ sandbox' = [sandbox EXCEPT !.label = "ours"]
                    /\ To(c, [p EXCEPT !.pc = "pod", !.handled = TRUE])
           refused == UNCHANGED sandbox /\ To(c, Block(p))
       IN  OrFault(IF sandbox.uid = p.work /\ sandbox.label # "bad"
                   THEN saved ELSE refused, refused)

\* What deleteSuspensionPod returns: the Pod is (not) out of the way.
PodSafe(p) ==
    IF p.parent THEN [p EXCEPT !.pc = "sandbox"]
    ELSE ToExtras(p)

PodUnsafe(p) ==
    IF p.parent THEN Block(p) ELSE ToExtras(Unverified(p))

PodOwned(p) == ~p.parent \/ pod.owner = p.work

\* deleteSuspensionPod up to the deletion: the Pod is read by its name and, under
\* a sandbox, labelled; a Pod that has ended stays.
GetPod(c) ==
    /\ Frame(c, "pod") /\ UNCHANGED <<claim, sandbox, extra>>
    /\ LET p == pass[c]
           q == [p EXCEPT !.safe = PodOwned(p), !.clean = @ /\ PodOwned(p)]
           persist == pod' = IF p.parent THEN [pod EXCEPT !.label = "ours"] ELSE pod
           refuse == UNCHANGED pod /\ To(c, PodUnsafe(p))
       IN  OrFault(
             \/ pod.uid = 0 /\ UNCHANGED pod /\ To(c, PodSafe(p))
             \/ pod.uid # 0 /\ (IF p.parent /\ PodOwned(p) THEN pod.label = "bad"
                                ELSE pod.label # "ours") /\ refuse
             \/ /\ pod.uid # 0
                /\ pod.label = "ours" \/ (p.parent /\ PodOwned(p) /\ pod.label = "none")
                /\ persist
                /\ To(c, IF pod.active THEN [q EXCEPT !.pc = "delete", !.got = pod.uid]
                         ELSE PodSafe([q EXCEPT !.completed = p.parent])),
             refuse)

DeletePodByName(c) ==
    /\ Frame(c, "delete") /\ UNCHANGED <<claim, sandbox, extra, faults>>
    /\ pod' = NoPod /\ To(c, [pass[c] EXCEPT !.pc = "gone"])

\* Zero grace, precondition on the UID; NotFound is as good.
DeletePod(c) ==
    /\ Frame(c, "delete") /\ UNCHANGED <<claim, sandbox, extra>>
    /\ LET p == pass[c]
           refuse == UNCHANGED pod /\ To(c, PodUnsafe(p))
       IN  OrFault(IF pod.uid \in {0, p.got}
                   THEN pod' = NoPod /\ To(c, [p EXCEPT !.pc = "gone"])
                   ELSE refuse, refuse)

\* confirmObjectGone: a replacement under the same name counts as still there.
confirmObjectGone(c) ==
    /\ Frame(c, "gone") /\ UNCHANGED <<claim, sandbox, pod, extra>>
    /\ LET p == pass[c]
       IN  OrFault(To(c, IF pod.uid = 0 /\ p.safe THEN PodSafe(p) ELSE PodUnsafe(p)),
                   To(c, PodUnsafe(p)))

DeleteSandboxCascades(c) ==
    /\ Frame(c, "sandbox") /\ UNCHANGED <<claim, pod, extra, faults>>
    /\ sandbox' = IF sandbox.uid = pass[c].work THEN NoSandbox ELSE sandbox
    /\ To(c, ToPods(pass[c]))

\* A sandbox whose Pod has ended is deleted without its Pod.
DeleteSandbox(c) ==
    /\ Frame(c, "sandbox") /\ UNCHANGED <<claim, pod, extra>>
    /\ LET p == pass[c]
           refuse == /\ UNCHANGED sandbox
                     /\ To(c, IF p.completed THEN Block(p) ELSE ToPods(Unverified(p)))
       IN  OrFault(
             \/ sandbox.uid = 0 /\ UNCHANGED sandbox /\ To(c, ToPods(p))
             \/ /\ sandbox.uid = p.work
                /\ sandbox' = IF p.completed \/ sandbox.orphaning
                              THEN [sandbox EXCEPT !.orphaning = TRUE] ELSE NoSandbox
                /\ To(c, ToPods(p))
             \/ sandbox.uid \notin {0, p.work} /\ refuse,
             refuse)

\* Pools, service accounts, roles, bindings and secrets, as they were listed.
DeleteExtras(c) ==
    /\ Frame(c, "extras") /\ UNCHANGED <<claim, sandbox, pod>>
    /\ LET p == pass[c]
           after == [p EXCEPT !.pc = IF p.claimWork = 0 THEN "pods?" ELSE "claim"]
           without(S) == extra' = [k \in Kinds |-> IF k \in S THEN "gone" ELSE extra[k]]
       IN  OrFault(without(p.kinds) /\ To(c, after),
                   /\ p.kinds # {}
                   /\ \E k \in p.kinds : without(p.kinds \ {k})
                   /\ To(c, Unverified(after)))

\* The creation source goes last.
DeleteClaim(c) ==
    /\ Frame(c, "claim") /\ UNCHANGED <<sandbox, pod, extra>>
    /\ LET p == [pass[c] EXCEPT !.pc = "pods?", !.claimWork = 0]
       IN  OrFault(IF claim.uid \in {0, pass[c].claimWork}
                   THEN claim' = NoClaim /\ To(c, p)
                   ELSE UNCHANGED claim /\ To(c, Unverified(p)),
                   UNCHANGED claim /\ To(c, Unverified(p)))

----------------------------------------------------------------------------
(* confirmSuspensionInventory: everything with the run's label, once more.  *)

ConfirmingAfresh(c, pc, next, empty) ==
    /\ Frame(c, pc) /\ UNCHANGED <<claim, sandbox, pod, extra, faults>>
    /\ To(c, [pass[c] EXCEPT !.pc = next, !.clean = empty])

Confirming(c, pc, next, empty) ==
    /\ Frame(c, pc) /\ UNCHANGED <<claim, sandbox, pod, extra>>
    /\ LET p == [pass[c] EXCEPT !.pc = next]
       IN  OrFault(To(c, [p EXCEPT !.clean = @ /\ empty]), To(c, Unverified(p)))

ConfirmPods(c) ==
    Confirming(c, "pods?", "claims?",
               pod.label = "none" \/ (pod.label = "ours" /\ ~pod.active))

ConfirmClaims(c) == Confirming(c, "claims?", "rest?", claim.label = "none")

\* Objects with the run's label, valid or not, keep the pass open.
NoExtras == \A k \in Kinds : extra[k] \notin {"valid", "bad"}

ConfirmRest(c) ==
    Confirming(c, "rest?", "done", sandbox.label = "none" /\ NoExtras)

\* The caller has the result; it starts another pass later.
Return(c) ==
    /\ pass[c].pc = "done" /\ To(c, PassIdle)
    /\ UNCHANGED <<world, tampered, faults>>

\* The process restarts, or the deadline of the pass has passed.
Abandon(c) ==
    /\ pass[c].pc \notin {"idle", "done"} /\ Fault /\ To(c, PassIdle)
    /\ UNCHANGED <<world, tampered>>

----------------------------------------------------------------------------
(* The rest of the world.                                                   *)

New(o) == last[o] < MaxUID[o] /\ last' = [last EXCEPT ![o] = @ + 1]

World == UNCHANGED <<pass, tampered, faults>>

\* A launch that passed its last check before the stop was accepted: it grants
\* access and makes a pool first, and then creates a claim or a bare Pod.
LaunchGrants(k) ==
    /\ World /\ extra[k] = "absent" /\ extra' = [extra EXCEPT ![k] = "valid"]
    /\ UNCHANGED <<claim, sandbox, pod, last>>

createSandboxClaim ==
    /\ World /\ claim.uid = 0 /\ (last["claim"] = 0 => last["pod"] = 0) /\ New("claim")
    /\ claim' = [uid |-> last["claim"] + 1, label |-> "ours", ref |-> FALSE]
    /\ UNCHANGED <<sandbox, pod, extra>>

NewPod(label, owner, mine) ==
    /\ pod.uid = 0 /\ New("pod")
    /\ pod' = [uid |-> last["pod"] + 1, label |-> label, owner |-> owner,
               active |-> TRUE, mine |-> mine]

createBarePod ==
    /\ World /\ last["claim"] = 0 /\ NewPod("ours", 0, TRUE)
    /\ UNCHANGED <<claim, sandbox, extra>>

\* Somebody else's Pod under the name.
ForeignPod ==
    /\ World /\ NewPod("none", 0, FALSE)
    /\ UNCHANGED <<claim, sandbox, extra>>

\* The sandbox operator: a sandbox for the claim, a Pod for the sandbox, and the
\* reference in the claim's status.  It need not copy the labels.
MakeSandbox ==
    /\ World /\ claim.uid # 0 /\ sandbox.uid = 0 /\ New("sandbox")
    /\ \E l \in {"none", "ours"} :
          sandbox' = [uid |-> last["sandbox"] + 1, label |-> l, owner |-> claim.uid,
                      orphaning |-> FALSE]
    /\ UNCHANGED <<claim, pod, extra>>

MakePod ==
    /\ World /\ sandbox.uid # 0 /\ ~sandbox.orphaning
    /\ \E l \in {"none", "ours"} : NewPod(l, sandbox.uid, TRUE)
    /\ UNCHANGED <<claim, sandbox, extra>>

BindClaim ==
    /\ World /\ claim.uid # 0 /\ ~claim.ref /\ sandbox.owner = claim.uid
    /\ claim' = [claim EXCEPT !.ref = TRUE]
    /\ UNCHANGED <<sandbox, pod, extra, last>>

\* The garbage collector.
CollectSandbox ==
    /\ World /\ sandbox.owner # 0 /\ sandbox.owner # claim.uid /\ ~sandbox.orphaning
    /\ sandbox' = NoSandbox
    /\ UNCHANGED <<claim, pod, extra, last>>

OrphanPod ==
    /\ World /\ sandbox.orphaning /\ sandbox' = NoSandbox
    /\ pod' = IF pod.owner = sandbox.uid THEN [pod EXCEPT !.owner = 0] ELSE pod
    /\ UNCHANGED <<claim, extra, last>>

CollectPod ==
    /\ World /\ pod.owner # 0 /\ pod.owner # sandbox.uid /\ pod' = NoPod
    /\ UNCHANGED <<claim, sandbox, extra, last>>

PodEnds ==
    /\ World /\ pod.active /\ pod' = [pod EXCEPT !.active = FALSE]
    /\ UNCHANGED <<claim, sandbox, extra, last>>

\* A release that is still under way: of the Pod a bound claim leads to, and of the
\* claim, by its name, with its pool.
releaseSandboxClaimPod ==
    /\ World /\ claim.ref /\ sandbox.owner = claim.uid
    /\ pod.owner # 0 /\ pod.owner = sandbox.uid /\ pod' = NoPod
    /\ UNCHANGED <<claim, sandbox, extra, last>>

releaseSandboxClaim ==
    /\ UNCHANGED <<pass, tampered, sandbox, pod, last>>
    /\ claim.uid # 0 /\ claim' = NoClaim
    /\ OrFault(extra' = [k \in Kinds |-> IF k = "pool" /\ extra[k] # "absent"
                                        THEN "gone" ELSE extra[k]],
               UNCHANGED extra)

\* The node or a user removes the Pod.
RemovePod ==
    /\ World /\ pod.uid # 0 /\ pod' = NoPod
    /\ UNCHANGED <<claim, sandbox, extra, last>>

\* Somebody spoils the step label of an object.
Tamper ==
    /\ Fault /\ tampered' = TRUE
    /\ \/ /\ claim.label = "ours" /\ claim' = [claim EXCEPT !.label = "bad"]
          /\ UNCHANGED <<sandbox, pod, extra>>
       \/ /\ sandbox.label = "ours" /\ sandbox' = [sandbox EXCEPT !.label = "bad"]
          /\ UNCHANGED <<claim, pod, extra>>
       \/ /\ pod.label = "ours" /\ pod' = [pod EXCEPT !.label = "bad"]
          /\ UNCHANGED <<claim, sandbox, extra>>
       \/ /\ \E k \in Kinds : extra[k] = "valid" /\ extra' = [extra EXCEPT ![k] = "bad"]
          /\ UNCHANGED <<claim, sandbox, pod>>
    /\ UNCHANGED <<pass, last>>

----------------------------------------------------------------------------
CleanerNext(c) ==
    \/ ListPods(c) \/ ListClaims(c) \/ ListSandboxes(c)
    \/ SaveIdentity(c) \/ GetPod(c) \/ DeletePod(c) \/ confirmObjectGone(c)
    \/ DeleteSandbox(c) \/ DeleteExtras(c) \/ DeleteClaim(c)
    \/ ConfirmPods(c) \/ ConfirmClaims(c) \/ ConfirmRest(c) \/ Return(c)

WorldNext ==
    \/ createSandboxClaim \/ createBarePod \/ ForeignPod
    \/ MakeSandbox \/ MakePod \/ BindClaim
    \/ CollectSandbox \/ OrphanPod \/ CollectPod
    \/ PodEnds \/ RemovePod \/ releaseSandboxClaimPod \/ releaseSandboxClaim \/ Tamper
    \/ \E k \in Kinds : LaunchGrants(k)

Next == WorldNext \/ \E c \in Cleaners : CleanerNext(c) \/ Abandon(c)

Spec == Init /\ [][Next]_vars

\* Passes are repeated for as long as the stop lasts, and the garbage collector
\* works.  The sandbox operator owes nothing.
Fairness ==
    /\ \A c \in Cleaners : WF_vars(CleanerNext(c))
    /\ WF_vars(CollectSandbox) /\ WF_vars(CollectPod) /\ WF_vars(OrphanPod)

FairSpec == Spec /\ Fairness

----------------------------------------------------------------------------
(* Properties.                                                              *)

AtWork == pod.mine /\ pod.active

\* The Pod has lost its owner, or its owner has, and the collector will take it.
AwaitsCollection ==
    /\ pod.owner # 0
    /\ \/ pod.owner # sandbox.uid
       \/ sandbox.owner # 0 /\ sandbox.owner # claim.uid /\ ~sandbox.orphaning

\* Neither a label nor an owner leads to the Pod: the sandbox operator has made an
\* unlabelled Pod in place of the completed one while its sandbox was being orphaned
\* or deleted.  No pass can find it.
Forgotten ==
    /\ AtWork /\ pod.label = "none"
    /\ pod.owner = 0 \/ (pod.owner = sandbox.uid /\ sandbox.orphaning)

Confirmed(c) == pass[c].pc = "done" /\ pass[c].clean

\* A pass is confirmed only when the Pod that was active as it began has ended or
\* been removed or can no longer escape the garbage collector (Forgotten is the
\* one exception), and when the objects it listed are gone, whatever a
\* launch, the sandbox operator and another pass did meanwhile (Confirmed,
\* deleteSuspensionPod, confirmSuspensionInventory).
ConfirmedPassStopsWork ==
    \A c \in Cleaners : Confirmed(c) =>
       /\ \A k \in pass[c].kinds : extra[k] = "gone"
       /\ /\ pass[c].pod.mine /\ pass[c].pod.active
          /\ AtWork /\ pod.uid = pass[c].pod.uid
          => AwaitsCollection \/ Forgotten

\* A Pod that had ended before every pass under way began is evidence and is not
\* even left to the garbage collector, although its sandbox and its claim are
\* deleted (Orphan propagation).
CompletedPodKept ==
    [][ /\ pod.mine /\ ~pod.active /\ ~AwaitsCollection
        /\ \A c \in Cleaners :
              pass[c].pc # "idle" => pass[c].pod.uid = pod.uid /\ ~pass[c].pod.active
        => \/ RemovePod \/ releaseSandboxClaim
           \/ pod'.uid = pod.uid /\ ~AwaitsCollection' ]_vars

\* A Pod of somebody else that has the name of a sandbox's Pod is neither deleted
\* nor labelled (the owner and UID checks of deleteSuspensionPod).
ForeignPodUntouched ==
    [][ pod.uid # 0 /\ ~pod.mine =>
          pod'.label = pod.label /\ (pod'.uid = pod.uid \/ RemovePod) ]_vars

\* As long as nobody spoils the labels, passes get rid of every active Pod, also of
\* those a late launch or the sandbox operator creates behind them.
WorkloadRemoved ==
    [](~tampered) => <>[](AtWork => Forgotten)
=============================================================================
