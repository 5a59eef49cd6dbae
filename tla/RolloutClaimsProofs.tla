------------------------- MODULE RolloutClaimsProofs -------------------------
(* What the revisions claim, for all constants of CompositeRollout and     *)
(* whatever copies are old: no child loses its last claim, the latest      *)
(* version is never taken away again, and the status tells the truth; and, *)
(* up to the first sync that goes astray, the children are updated one at  *)
(* a time and all is as RollingUpdate promises.                            *)
EXTENDS CompositeRolloutProofs

-----------------------------------------------------------------------------
(* The inductive invariant. *)

(* What is stored as the claims of a revision. *)
Holds(v) == IF revs[v] = None THEN {} ELSE revs[v]

StoredDisjoint ==
  \A v, w \in Version : \A c \in Child : c \in Holds(v) /\ c \in Holds(w) => v = w

PlannedDisjoint ==
  \A v, w \in Version : \A c \in Child :
    c \in plan.claims[v] /\ c \in plan.claims[w] => v = w

(* Without a rolling kind no revision is ever written. *)
NoneStored == ~AnyRolling => plan.put = {} /\ \A v \in Version : revs[v] = None

(* What a planned sync has yet to write of its claims.  It takes a revision  *)
(* for stored as it is to be only by the copy it read, which may have been   *)
(* old, or be missing.                                                       *)
Trusted(v) ==
  \/ plan.base[v] = "same"
  \/ plan.base[v] = None /\ (v = Latest \/ ~astray)

StoredAsPlanned ==
  pc = "planned" =>
    \A v \in Version :
      /\ v \in plan.del => plan.claims[v] = {} /\ v \notin plan.put
      /\ Trusted(v) /\ v \notin plan.del \union plan.put => Holds(v) = plan.claims[v]
      /\ v # Latest /\ v \in plan.put /\ plan.base[v] = "same" => plan.claims[v] \subseteq Holds(v)
      /\ v # Latest /\ plan.claims[v] # {} => plan.base[v] # None

LatestStored ==
  pc = "planned" /\ AnyRolling =>
    /\ Latest \notin plan.del
    /\ plan.base[Latest] \in {"same", None} /\ Latest \notin plan.put => revs[Latest] # None

(* No copy is old, up to the first sync that goes astray. *)
AllSeen == pc = "planned" /\ ~astray => \A v \in Version : plan.base[v] \in {"same", None}

(* Two revisions claim one child only while a sync moves it, or after one    *)
(* went astray.                                                              *)
ClaimsDisjoint ==
  ~astray => IF pc = "planned" THEN PlannedDisjoint /\ plan.twice = {} ELSE StoredDisjoint

(* Other revisions are kept for what they claim.  Once the plan is to report *)
(* that all is on the latest, that one claims all that is wanted, and the    *)
(* others of it only what was claimed twice.                                 *)
OthersKept ==
  pc = "planned" /\ AnyRolling =>
    \A v \in Version \ {Latest} :
      plan.base[v] = "same" /\ v \notin plan.del /\ (revs[v] # None \/ v \in plan.put)
        => plan.claims[v] # {}

ReportsTruth ==
  pc = "planned" /\ plan.reason = "OnLatestRevision" =>
    /\ AnyRolling
    /\ Desired \intersect RollingChild \subseteq plan.claims[Latest]
    /\ \A v \in Version \ {Latest} : plan.claims[v] \intersect Desired \subseteq plan.twice

(* A child that has the latest content is to have the latest version. *)
NoOpsAreLatest ==
  pc = "planned" => \A c \in Desired \ plan.twice : IsNoOp(c) => plan.want[c] = Latest

(* A copy that is "same" is. *)
Current(copies, objects) ==
  \A c \in Child : copies[c] # None /\ copies[c].lag = "same" => objects[c] = copies[c].obj

SameIsCurrent == Current(snap.obs, children) /\ Current(cChildren, children)

(* A child that is always asked for is claimed as soon as it exists, between *)
(* the syncs that move its claim.                                            *)
StaysClaimed ==
  pc # "planned" /\ ~astray =>
    \A c \in AlwaysAsked : children[c] # None \/ updating[c] # None => Claimed(c)

ClaimsInv ==
  /\ NoneStored
  /\ StoredAsPlanned
  /\ LatestStored
  /\ AllSeen
  /\ ClaimsDisjoint
  /\ OthersKept
  /\ ReportsTruth
  /\ NoOpsAreLatest
  /\ StaysClaimed

RolloutInv ==
  /\ TypeOK
  /\ TodoIsWanted
  /\ SameCopies
  /\ PlanEntitles
  /\ SameIsCurrent
  /\ ClaimsInv

-----------------------------------------------------------------------------
(* What a step does to the claims: decide, end the sync, delete or put one   *)
(* revision, or leave them alone.                                            *)
SyncOver ==
  /\ pc' # "planned"
  /\ UNCHANGED <<revs, children, updating>>
  /\ plan'.put \subseteq plan.put
  /\ ~astray' => ~astray /\ (pc = "planned" => RevisionsCommitted)

Deletes(v) ==
  /\ pc = "planned" /\ v \in plan.del
  /\ UNCHANGED <<pc, snap, astray, children>>
  /\ revs' = [revs EXCEPT ![v] = None]
  /\ plan' = [plan EXCEPT !.del = @ \ {v}]

Puts(v) ==
  /\ pc = "planned" /\ plan.del = {} /\ v \in plan.put
  /\ Latest \in plan.put => v = Latest
  /\ UNCHANGED <<pc, snap, astray, children>>
  /\ revs' = [revs EXCEPT ![v] = plan.claims[v]]
  /\ plan' = [plan EXCEPT !.put = @ \ {v}]

SameDecision ==
  /\ plan'.del = plan.del /\ plan'.put = plan.put /\ plan'.claims = plan.claims
  /\ plan'.want = plan.want /\ plan'.reason = plan.reason
  /\ plan'.base = plan.base /\ plan'.twice = plan.twice
  /\ plan'.todel \subseteq plan.todel

SameObserved ==
  \A c \in Child :
    /\ snap'.obs[c] = None <=> snap.obs[c] = None
    /\ snap.obs[c] # None => snap'.obs[c].obj = snap.obs[c].obj

GoesOn ==
  /\ UNCHANGED <<pc, revs, astray, snap.spec>>
  /\ SameDecision
  /\ SameObserved
  /\ \A c \in Child : \/ children[c] = None /\ children'[c] # None
                      \/ updating[c] = None /\ updating'[c] # None
                     => pc = "planned"

LEMMA AgeKeepsObjects ==
  ASSUME TypeOK, NEW c \in Child, NEW lag \in Lag,
         snap' = [snap EXCEPT !.obs = Age(@, c, lag)]
  PROVE  snap'.spec = snap.spec /\ SameObserved
<1>1. snap.obs \in ChildCopies /\ snap'.obs = Age(snap.obs, c, lag) /\ snap'.spec = snap.spec
  BY DEF TypeOK
<1>2. ASSUME NEW d \in Child
      PROVE  /\ snap'.obs[d] = None <=> snap.obs[d] = None
             /\ snap.obs[d] # None => snap'.obs[d].obj = snap.obs[d].obj
  <2>1. CASE d # c \/ snap.obs[c] = None \/ snap.obs[c].lag = "gone"
    BY <1>1, <2>1 DEF Age, ChildCopies
  <2>2. CASE d = c /\ snap.obs[c] # None /\ snap.obs[c].lag # "gone"
    <3>1. snap'.obs[c] = [snap.obs[c] EXCEPT !.lag = lag]
      BY <1>1, <2>2 DEF Age, ChildCopies
    <3>2. snap.obs[c] \in ChildCopy
      BY <1>1, <2>2 DEF ChildCopies
    <3>3. snap'.obs[c] \in ChildCopy /\ snap'.obs[c].obj = snap.obs[c].obj
      BY <3>1, <3>2 DEF ChildCopy
    <3>4. snap'.obs[c] # None
      BY <3>3, ConstantsAssumption
    <3> QED
      BY <2>2, <3>3, <3>4
  <2> QED
    BY <2>1, <2>2
<1> QED
  BY <1>1, <1>2 DEF SameObserved

LEMMA SameObjects == ASSUME UNCHANGED snap.obs PROVE SameObserved
BY DEF SameObserved

(* A plan off which something of the children was ticked. *)
LEMMA TickOffDecision ==
  ASSUME TypeOK, NEW c,
         \/ plan' = [plan EXCEPT !.todel = @ \ {c}]
         \/ plan' = [plan EXCEPT !.todel = @ \ {c}, !.failed = TRUE]
         \/ plan' = [plan EXCEPT !.todo = @ \ {c}]
         \/ plan' = [plan EXCEPT !.todo = @ \ {c}, !.failed = TRUE]
         \/ plan' = [plan EXCEPT !.todel = @ \ {c}, !.todo = @ \ {c}, !.failed = TRUE]
  PROVE  SameDecision
<1>1. plan \in Plans
  BY DEF TypeOK
<1>2. CASE plan' = [plan EXCEPT !.todel = @ \ {c}]
  BY <1>1, <1>2 DEF Plans, SameDecision
<1>3. CASE plan' = [plan EXCEPT !.todel = @ \ {c}, !.failed = TRUE]
  BY <1>1, <1>3 DEF Plans, SameDecision
<1>4. CASE plan' = [plan EXCEPT !.todo = @ \ {c}]
  BY <1>1, <1>4 DEF Plans, SameDecision
<1>5. CASE plan' = [plan EXCEPT !.todo = @ \ {c}, !.failed = TRUE]
  BY <1>1, <1>5 DEF Plans, SameDecision
<1>6. CASE plan' = [plan EXCEPT !.todel = @ \ {c}, !.todo = @ \ {c}, !.failed = TRUE]
  BY <1>1, <1>6 DEF Plans, SameDecision
<1> QED
  BY <1>2, <1>3, <1>4, <1>5, <1>6

LEMMA EndIsOver ==
  ASSUME NEW failed, EndSync(failed), UNCHANGED <<revs, children, updating>>
  PROVE  SyncOver
BY DEF EndSync, SyncOver, NoPlan

LEMMA EnvGoesOn ==
  ASSUME TypeOK, NEW c \in Child, NEW object, NEW lag \in Lag,
         EnvWritesChild(c, object, lag), children[c] # None,
         \A d \in Child : updating[d] = None => updating'[d] = None
  PROVE  GoesOn
<1>1. /\ UNCHANGED <<pc, revs, astray, plan>>
      /\ children' = [children EXCEPT ![c] = object]
      /\ snap' = [snap EXCEPT !.obs = Age(@, c, lag)]
  BY DEF EnvWritesChild, WriteChild
<1>2. snap'.spec = snap.spec /\ SameObserved
  BY <1>1, AgeKeepsObjects
<1>3. \A d \in Child : children[d] = None => children'[d] = None
  BY <1>1 DEF TypeOK
<1>4. SameDecision /\ UNCHANGED <<pc, revs, astray, snap.spec>>
  BY <1>1, <1>2 DEF SameDecision
<1> QED
  BY <1>2, <1>3, <1>4 DEF GoesOn

LEMMA WorkerKinds ==
  ASSUME TypeOK, Worker
  PROVE  \/ PlanRollout \/ SyncOver \/ GoesOn
         \/ \E v \in Version : Deletes(v) \/ Puts(v)
<1>1. ASSUME BeginSync PROVE SyncOver
  <2>1. /\ pc = "idle" /\ pc' = "observed" /\ UNCHANGED <<revs, children, updating, plan>>
        /\ ~astray' => ~astray
    BY <1>1 DEF BeginSync, store
  <2> QED
    BY <2>1 DEF SyncOver
<1>2. ASSUME PlanPanics PROVE SyncOver
  BY <1>2, EndIsOver DEF PlanPanics, Restart, store
<1>3. ASSUME FinishSync PROVE SyncOver
  BY <1>3, EndIsOver DEF FinishSync
<1>4. ASSUME NEW v \in Version, DeleteRevision(v) PROVE SyncOver \/ Deletes(v)
  <2>1. CASE EndSync(TRUE) /\ UNCHANGED <<revs, cRevs>>
    BY <1>4, <2>1, EndIsOver DEF DeleteRevision
  <2>2. CASE /\ WriteRevision(v, None)
             /\ plan' = [plan EXCEPT !.del = @ \ {v}]
             /\ UNCHANGED <<queued, pc, snap, astray>>
    BY <1>4, <2>2 DEF DeleteRevision, Deletes, WriteRevision
  <2> QED
    BY <1>4, <2>1, <2>2 DEF DeleteRevision
<1>5. ASSUME NEW v \in Version, PutRevision(v) PROVE SyncOver \/ Puts(v)
  <2>1. CASE EndSync(TRUE) /\ UNCHANGED <<revs, cRevs>>
    BY <1>5, <2>1, EndIsOver DEF PutRevision
  <2>2. CASE /\ WriteRevision(v, plan.claims[v])
             /\ plan' = [plan EXCEPT !.put = @ \ {v}]
             /\ UNCHANGED <<queued, pc, snap, astray>>
    BY <1>5, <2>2 DEF PutRevision, Puts, WriteRevision
  <2> QED
    BY <1>5, <2>1, <2>2 DEF PutRevision
<1>6. ASSUME NEW c \in Child, DeleteChild(c) PROVE GoesOn
  <2>1. SameDecision /\ UNCHANGED <<pc, revs, astray>> /\ pc = "planned"
    <3>1. \/ plan' = [plan EXCEPT !.todel = @ \ {c}]
          \/ plan' = [plan EXCEPT !.todel = @ \ {c}, !.failed = TRUE]
      BY <1>6, Zenon DEF DeleteChild
    <3>2. SameDecision
      BY <3>1, TickOffDecision
    <3> QED
      BY <1>6, <3>2 DEF DeleteChild, RevisionsCommitted
  <2>2. snap'.spec = snap.spec /\ SameObserved
    <3>1. snap' = [snap EXCEPT !.obs = Age(@, c, "changed")] \/ UNCHANGED snap
      BY <1>6, Zenon DEF DeleteChild
    <3>2. "changed" \in Lag
      BY DEF Lag
    <3> QED
      BY <3>1, <3>2, AgeKeepsObjects, SameObjects
  <2> QED
    BY <2>1, <2>2 DEF GoesOn
<1>7. ASSUME NEW c \in Child, ApplyChild(c) PROVE GoesOn
  <2>1. SameDecision /\ UNCHANGED <<pc, revs, astray>> /\ pc = "planned"
    <3>1. \/ plan' = [plan EXCEPT !.todo = @ \ {c}]
          \/ plan' = [plan EXCEPT !.todo = @ \ {c}, !.failed = TRUE]
      BY <1>7 DEF ApplyChild
    <3>2. SameDecision
      BY <3>1, TickOffDecision
    <3> QED
      BY <1>7, <3>2 DEF ApplyChild, RevisionsCommitted
  <2>2. snap'.spec = snap.spec /\ SameObserved
    <3>1. snap' = [snap EXCEPT !.obs = Age(@, c, "changed")] \/ UNCHANGED snap
      BY <1>7, Zenon DEF ApplyChild
    <3>2. "changed" \in Lag
      BY DEF Lag
    <3> QED
      BY <3>1, <3>2, AgeKeepsObjects, SameObjects
  <2> QED
    BY <2>1, <2>2 DEF GoesOn
<1> QED
  BY <1>1, <1>2, <1>3, <1>4, <1>5, <1>6, <1>7 DEF Worker

LEMMA StepKinds ==
  ASSUME TypeOK, [Next]_vars
  PROVE  \/ PlanRollout \/ SyncOver \/ GoesOn
         \/ \E v \in Version : Deletes(v) \/ Puts(v)
<1>1. ASSUME UNCHANGED <<pc, revs, astray, snap, plan, children, updating>> PROVE GoesOn
  BY <1>1 DEF GoesOn, SameDecision, SameObserved
<1>2. CASE Worker
  BY <1>2, WorkerKinds
<1>3. ASSUME Informers PROVE GoesOn
  BY <1>1, <1>3 DEF Informers, ParentEvent, ParentResync, RevisionEvent, ChildEvent,
                    sync, store, history
<1>4. ASSUME Faults PROVE SyncOver \/ GoesOn
  <2>1. Crash \/ AbortSync => SyncOver
    BY EndIsOver DEF Crash, AbortSync, Restart, store
  <2>2. ASSUME NEW c \in Child, ChildCallFails(c) PROVE GoesOn
    <3>1. SameDecision
      BY <2>2, TickOffDecision DEF ChildCallFails
    <3>2. UNCHANGED <<pc, revs, astray, snap, children, updating>>
      BY <2>2 DEF ChildCallFails, store, history
    <3> QED
      BY <3>1, <3>2 DEF GoesOn, SameObserved
  <2>3. ASSUME NEW c \in Child, ChildBreaks(c) \/ ChildDrained(c) PROVE GoesOn
    BY <2>3, EnvGoesOn DEF ChildBreaks, ChildDrained, Lag
  <2> QED
    BY <1>4, <2>1, <2>2, <2>3 DEF Faults
<1>5. ASSUME Environment PROVE GoesOn
  <2>1. ASSUME NEW spec \in ParentSpec, EditParent(spec) PROVE GoesOn
    BY <1>1, <2>1 DEF EditParent, sync, history
  <2>2. ASSUME NEW c \in Child, ChildSettles(c) \/ ChildRemoved(c) PROVE GoesOn
    <3>1. \A d \in Child : updating[d] = None => updating'[d] = None
      BY <2>2 DEF ChildSettles, ChildRemoved, TypeOK
    <3> QED
      BY <2>2, <3>1, EnvGoesOn DEF ChildSettles, ChildRemoved, Lag
  <2> QED
    BY <1>5, <2>1, <2>2 DEF Environment
<1>6. UNCHANGED vars => GoesOn
  BY <1>1 DEF vars, store, sync, history
<1> QED
  BY <1>2, <1>3, <1>4, <1>5, <1>6 DEF Next

-----------------------------------------------------------------------------
(* What syncRollingUpdate decides, when no child is claimed twice. *)

LEMMA AlwaysDesired ==
  ASSUME TypeOK
  PROVE  AlwaysAsked \subseteq Desired \intersect RollingChild /\ Paced \subseteq AlwaysAsked
<1>1. Desired \in Scale
  BY DEF TypeOK, Desired, ParentSpec
<1> QED
  BY <1>1 DEF AlwaysAsked, Paced

LEMMA ListIndices ==
  ASSUME TypeOK, NEW list \in Lists
  PROVE  /\ 1 \in DOMAIN list /\ list[1] = Latest
         /\ \A i \in DOMAIN list : list[i] \in Version /\ (i > 1 <=> i # 1)
         /\ \A i, j \in DOMAIN list : list[i] = list[j] => i = j
<1>1. PICK n \in Nat \ {0} :
        /\ DOMAIN list = 1..n
        /\ list \in [1..n -> Version]
        /\ list[1] = Latest
        /\ \A i, j \in 1..n : list[i] = list[j] => i = j
  BY ListFacts
<1> QED
  BY <1>1

LEMMA ListNamesObserved ==
  ASSUME NEW list \in Lists, NEW v \in ObservedRevisions
  PROVE  \E i \in DOMAIN list : list[i] = v
BY DEF Lists

LEMMA ClaimsAreChildren ==
  ASSUME TypeOK, NEW v \in Version
  PROVE  ClaimsOf(v) \subseteq Child
BY DEF TypeOK, RevisionCopies, RevisionCopy, ClaimsOf

(* A caught up cache holds the claims that are stored. *)
LEMMA ClaimsAreStored ==
  ASSUME TypeOK, cRevs = Copies(revs), NEW v \in Version
  PROVE  /\ ClaimsOf(v) = Holds(v)
         /\ v \in ObservedRevisions <=> revs[v] # None
         /\ cRevs[v] # None => revs[v] = ClaimsOf(v)
<1>1. CASE revs[v] = None
  BY <1>1 DEF TypeOK, Copies, Copy, ClaimsOf, Holds, ObservedRevisions
<1>2. CASE revs[v] # None
  <2>1. cRevs[v] = [obj |-> revs[v], lag |-> "same"]
    BY <1>2 DEF TypeOK, Copies, Copy, Fresh
  <2>2. cRevs[v] \in RevisionCopy
    BY <1>2, <2>1 DEF TypeOK, RevisionCopy, Lag
  <2> QED
    BY <1>2, <2>1, <2>2, ConstantsAssumption DEF ClaimsOf, Holds, ObservedRevisions
<1> QED
  BY <1>1, <1>2

(* The claims an outcome leaves with a revision that is not the latest. *)
LEMMA OthersClaims ==
  ASSUME TypeOK, NEW list \in Lists, NEW outcome \in RollingUpdates(list),
         NEW i \in DOMAIN list, i # 1, NEW c \in outcome.claims[i]
  PROVE  /\ c \in ClaimsOf(list[i]) \intersect RollingChild
         /\ ~(c \in MovesForFree(list) /\ Accepts(list, i, c))
<1>1. c \in FirstPass(list)[i]
  <2>1. CASE outcome.claims = FirstPass(list)
    BY <2>1
  <2>2. ASSUME NEW d \in Pending(list), outcome.claims = MoveOne(FirstPass(list), d)
        PROVE  c \in FirstPass(list)[i]
    BY <2>2 DEF MoveOne, FirstPass
  <2> QED
    BY <2>1, <2>2, OutcomeForms
<1>2. c \in SyncRevisionClaims(list, i)
         \ {d \in MovesForFree(list) : Accepts(list, i, d)}
  BY <1>1 DEF FirstPass
<1> QED
  BY <1>2 DEF SyncRevisionClaims

(* ... and with the latest. *)
LEMMA LatestClaims ==
  ASSUME TypeOK, NEW list \in Lists, NEW outcome \in RollingUpdates(list),
         NEW c \in outcome.claims[1]
  PROVE  \/ c \in ClaimsOf(Latest)
         \/ c \in Unclaimed(list)
         \/ c \in MovesForFree(list)
         \/ c \in Pending(list) /\ outcome.claims = MoveOne(FirstPass(list), c)
<1>1. 1 \in DOMAIN list /\ list[1] = Latest
  BY ListIndices
<1>2. ASSUME c \in FirstPass(list)[1]
      PROVE  c \in ClaimsOf(Latest) \/ c \in Unclaimed(list) \/ c \in MovesForFree(list)
  BY <1>1, <1>2 DEF FirstPass, SyncRevisionClaims
<1>3. ASSUME NEW d \in Pending(list), outcome.claims = MoveOne(FirstPass(list), d)
      PROVE  c \in FirstPass(list)[1] \/ c = d
  BY <1>1, <1>3 DEF MoveOne, FirstPass
<1> QED
  BY <1>2, <1>3, OutcomeForms

(* Whether no two revisions of a list claim the child, or none of the list.  *)
Once(list, c) ==
  \A i, j \in DOMAIN list : c \in ClaimsOf(list[i]) \intersect ClaimsOf(list[j]) => i = j

ClaimedOnce(list) == \A c \in Child : Once(list, c)

LEMMA OnlyClaimAccepted ==
  ASSUME NEW list, NEW c \in RollingChild \intersect Desired, Once(list, c),
         NEW i \in DOMAIN list, c \in ClaimsOf(list[i]), i \in Nat
  PROVE  Accepts(list, i, c)
BY DEF Accepts, Once

LEMMA OutcomeDisjoint ==
  ASSUME TypeOK, NEW list \in Lists, NEW outcome \in RollingUpdates(list),
         NEW i \in DOMAIN list, NEW j \in DOMAIN list,
         NEW c \in outcome.claims[i] \intersect outcome.claims[j], Once(list, c)
  PROVE  i = j
<1>1. 1 \in DOMAIN list /\ list[1] = Latest /\ DOMAIN list \subseteq Nat
  BY ListIndices, ListFacts
<1>2. ASSUME NEW k \in DOMAIN list, k # 1, c \in outcome.claims[k], c \in outcome.claims[1]
      PROVE  FALSE
  <2>1. /\ c \in ClaimsOf(list[k]) /\ c \in RollingChild
        /\ ~(c \in MovesForFree(list) /\ Accepts(list, k, c))
    BY <1>2, OthersClaims
  <2>2. c \notin ClaimsOf(Latest)
    BY <1>1, <1>2, <2>1 DEF Once
  <2>3. c \in Desired => Accepts(list, k, c)
    BY <1>1, <2>1, OnlyClaimAccepted
  <2>4. c \notin Unclaimed(list)
    BY <2>3 DEF Unclaimed
  <2>5. c \notin MovesForFree(list)
    BY <2>1, <2>3 DEF MovesForFree
  <2>6. outcome.claims # MoveOne(FirstPass(list), c)
    BY <1>2 DEF MoveOne, FirstPass
  <2> QED
    BY <1>2, <2>2, <2>4, <2>5, <2>6, LatestClaims
<1>3. CASE i = 1 \/ j = 1
  BY <1>2, <1>3
<1>4. CASE i # 1 /\ j # 1
  BY <1>4, OthersClaims DEF Once
<1> QED
  BY <1>3, <1>4

(* If all is on the latest revision, it has all that is wanted, and no other *)
(* claims it.                                                                *)
LEMMA OnLatestPends ==
  ASSUME NEW list, NEW outcome \in RollingUpdates(list), outcome.reason = "OnLatestRevision"
  PROVE  Pending(list) = {} /\ outcome.claims = FirstPass(list)
<1>1. \/ Pending(list) = {} /\ outcome = Outcome(FirstPass(list), "OnLatestRevision")
      \/ outcome = Outcome(FirstPass(list), "RolloutWaiting")
      \/ \E d \in Pending(list) :
           outcome = Outcome(MoveOne(FirstPass(list), d), "RolloutProgressing")
  BY Zenon DEF RollingUpdates
<1> QED
  BY <1>1 DEF Outcome

LEMMA LatestHasAll ==
  ASSUME TypeOK, NEW list \in Lists, NEW outcome \in RollingUpdates(list),
         outcome.reason = "OnLatestRevision", NEW c \in Desired \intersect RollingChild
  PROVE  c \in outcome.claims[1]
<1>1. 1 \in DOMAIN list
  BY ListIndices
<1>2. Pending(list) = {} /\ outcome.claims = FirstPass(list)
  BY OnLatestPends
<1>3. OnLatest(list, c)
  BY <1>2 DEF Pending
<1>4. CASE c \in Unclaimed(list) \union MovesForFree(list)
  BY <1>1, <1>2, <1>4 DEF FirstPass
<1>5. CASE Accepts(list, 1, c)
  <2>1. c \in Child /\ c \in ClaimsOf(list[1]) \intersect RollingChild
    BY <1>5 DEF Accepts, RollingChild
  <2>2. c \in SyncRevisionClaims(list, 1)
    BY <1>5, <2>1 DEF SyncRevisionClaims
  <2> QED
    BY <1>1, <1>2, <2>2 DEF FirstPass
<1> QED
  BY <1>3, <1>4, <1>5 DEF OnLatest

LEMMA OutcomeOnLatest ==
  ASSUME TypeOK, NEW list \in Lists, NEW outcome \in RollingUpdates(list),
         NEW i \in DOMAIN list, i # 1, outcome.reason = "OnLatestRevision",
         NEW c \in outcome.claims[i], c \in Desired
  PROVE  ~Once(list, c)
<1> SUFFICES ASSUME Once(list, c) PROVE FALSE
  OBVIOUS
<1>1. 1 \in DOMAIN list /\ list[1] = Latest /\ DOMAIN list \subseteq Nat
  BY ListIndices, ListFacts
<1>2. Pending(list) = {}
  BY OnLatestPends
<1>3. /\ c \in ClaimsOf(list[i]) /\ c \in RollingChild
      /\ ~(c \in MovesForFree(list) /\ Accepts(list, i, c))
  BY OthersClaims
<1>4. Accepts(list, i, c)
  BY <1>1, <1>3, OnlyClaimAccepted
<1>5. c \notin Unclaimed(list)
  BY <1>4 DEF Unclaimed
<1>6. ~Accepts(list, 1, c)
  BY <1>1, <1>3 DEF Accepts, Once
<1>7. c \notin MovesForFree(list)
  BY <1>3, <1>4
<1> QED
  BY <1>2, <1>3, <1>5, <1>6, <1>7 DEF Pending, OnLatest

(* A child that would not change is given to the latest version. *)
LEMMA OutcomeNoOps ==
  ASSUME TypeOK, NEW list \in Lists, NEW outcome \in RollingUpdates(list),
         NEW want \in DesiredVersions(list, outcome.claims),
         NEW c \in Desired, IsNoOp(c), Once(list, c)
  PROVE  want[c] = Latest
<1>1. /\ 1 \in DOMAIN list /\ list[1] = Latest /\ DOMAIN list \subseteq Nat
      /\ \A i \in DOMAIN list : i > 1 <=> i # 1
  BY ListIndices, ListFacts
<1>2. PICK i \in DOMAIN list : want[c] = list[i] /\ (i = 1 \/ c \in outcome.claims[i])
  BY DEF DesiredVersions
<1>3. ASSUME i # 1 PROVE FALSE
  <2>1. /\ c \in ClaimsOf(list[i]) /\ c \in RollingChild
        /\ ~(c \in MovesForFree(list) /\ Accepts(list, i, c))
    BY <1>2, <1>3, OthersClaims
  <2>2. Accepts(list, i, c)
    BY <1>1, <2>1, OnlyClaimAccepted
  <2>3. c \in MovesForFree(list)
    BY <1>1, <1>3, <2>2 DEF MovesForFree
  <2> QED
    BY <2>1, <2>2, <2>3
<1> QED
  BY <1>1, <1>2, <1>3

-----------------------------------------------------------------------------
(* The plan that carries the decision out. *)

LEMMA PlannedClaims ==
  ASSUME TypeOK, SameCopies,
         NEW list \in Lists, NEW outcome \in RollingUpdates(list), NEW want,
         plan' = PlanFor(list, outcome, want), NEW v \in Version
  PROVE  /\ \A c \in plan'.claims[v] :
              \E i \in DOMAIN list : list[i] = v /\ c \in outcome.claims[i]
         /\ v \in plan'.del => plan'.claims[v] = {} /\ v \notin plan'.put
         /\ v \notin plan'.del \union plan'.put =>
              /\ plan'.claims[v] = ClaimsOf(v)
              /\ plan'.base[v] = "same" => revs[v] # None /\ Holds(v) = plan'.claims[v]
              /\ v # Latest /\ plan'.claims[v] # {} => plan'.base[v] # None
         /\ v # Latest /\ v \notin plan'.del /\ (plan'.base[v] # None \/ v \in plan'.put)
              => plan'.claims[v] # {}
         /\ plan'.base[v] = IF cRevs[v] = None THEN None ELSE cRevs[v].lag
<1> DEFINE kept == {list[i] : i \in Kept(outcome.claims)}
           claims == [w \in Version |->
                        {d \in Child : \E j \in Kept(outcome.claims) :
                                         list[j] = w /\ d \in outcome.claims[j]}]
           base == IF cRevs[v] = None THEN None ELSE cRevs[v].lag
<1>1. /\ plan'.del = ObservedRevisions \ kept
      /\ plan'.claims = claims
      /\ plan'.put = {w \in kept : cRevs[w] = None \/ ClaimsOf(w) # claims[w]}
      /\ plan'.base[v] = base
  BY DEF PlanFor
<1>2. Kept(outcome.claims) \subseteq DOMAIN list
  BY OutcomeForms DEF Kept
<1>3. \A c \in claims[v] : \E i \in DOMAIN list : list[i] = v /\ c \in outcome.claims[i]
  BY <1>2
<1>4. v \notin kept => claims[v] = {}
  OBVIOUS
<1>5. ASSUME v \in kept, v # Latest PROVE claims[v] # {}
  <2>1. PICK i \in Kept(outcome.claims) : list[i] = v
    BY <1>5
  <2>2. i \in DOMAIN list /\ i # 1
    BY <1>2, <1>5, <2>1, ListIndices
  <2>3. PICK c \in outcome.claims[i] : TRUE
    BY <2>1, <2>2 DEF Kept
  <2>4. c \in Child
    BY <2>1, <2>2, <2>3, OthersClaims, ClaimsAreChildren
  <2> QED
    BY <2>1, <2>3, <2>4
<1>6. /\ v \in ObservedRevisions <=> cRevs[v] # None
      /\ cRevs[v] = None => ClaimsOf(v) = {} /\ base = None
      /\ cRevs[v] # None => base # None /\ ClaimsOf(v) = cRevs[v].obj
      /\ base = "same" => revs[v] = ClaimsOf(v)
  <2>1. cRevs[v] # None => cRevs[v] \in RevisionCopy
    BY DEF TypeOK, RevisionCopies
  <2> QED
    BY <2>1, ConstantsAssumption DEF ObservedRevisions, ClaimsOf, SameCopies, RevisionCopy, Lag
<1>7. ClaimsOf(v) \subseteq Child
  BY ClaimsAreChildren
<1>8. base = "same" => revs[v] # None /\ Holds(v) = ClaimsOf(v)
  BY <1>6, <1>7, ConstantsAssumption DEF Holds
<1>9. plan'.base[v] = IF cRevs[v] = None THEN None ELSE cRevs[v].lag
  BY <1>1
<1> HIDE DEF kept, claims, base
<1>10. v \in plan'.del => claims[v] = {} /\ v \notin plan'.put
  BY <1>1, <1>4
<1>11. ASSUME v \notin plan'.del \union plan'.put
       PROVE  /\ claims[v] = ClaimsOf(v)
              /\ v # Latest /\ claims[v] # {} => base # None
  BY <1>1, <1>4, <1>6, <1>11
<1>12. v # Latest /\ v \notin plan'.del /\ (base # None \/ v \in plan'.put)
         => claims[v] # {}
  BY <1>1, <1>5, <1>6
<1> QED
  BY <1>1, <1>3, <1>8, <1>9, <1>10, <1>11, <1>12

LEMMA PlannedForLatest ==
  ASSUME TypeOK, NEW list \in Lists, NEW outcome \in RollingUpdates(list), NEW want,
         plan' = PlanFor(list, outcome, want)
  PROVE  /\ plan'.claims[Latest] = outcome.claims[1] \intersect Child
         /\ Latest \notin plan'.del
         /\ cRevs[Latest] = None => Latest \in plan'.put
<1> DEFINE kept == {list[i] : i \in Kept(outcome.claims)}
           claims == [v \in Version |->
                        {c \in Child : \E i \in Kept(outcome.claims) :
                                         list[i] = v /\ c \in outcome.claims[i]}]
<1>1. /\ plan'.claims = claims
      /\ plan'.del = ObservedRevisions \ kept
      /\ plan'.put = {v \in kept : cRevs[v] = None \/ ClaimsOf(v) # claims[v]}
  BY DEF PlanFor
<1>2. Latest \in Version /\ 1 \in Kept(outcome.claims) /\ list[1] = Latest
  BY SnapTypes, ListIndices, OutcomeForms DEF Kept
<1>3. \A i \in Kept(outcome.claims) : list[i] = Latest => i = 1
  BY <1>2, ListIndices, OutcomeForms DEF Kept
<1>4. claims[Latest] = outcome.claims[1] \intersect Child
  BY <1>2, <1>3
<1>5. Latest \in kept
  BY <1>2
<1> HIDE DEF kept, claims
<1> QED
  BY <1>1, <1>4, <1>5

(* Without a rolling kind the plan leaves the revisions alone. *)
LEMMA PlannedLatest ==
  ASSUME TypeOK, plan' = PlanLatestOnly
  PROVE  /\ plan'.del = {} /\ plan'.put = {} /\ plan'.reason = "" /\ plan'.twice = {}
         /\ \A v \in Version : plan'.claims[v] = {} /\ plan'.base[v] = None
         /\ \A c \in Desired : plan'.want[c] = Latest
BY SnapTypes DEF PlanLatestOnly, NoPlan, Wanted

LEMMA PlanLatestInv ==
  ASSUME TypeOK, NoneStored, PlanRollout, ~AnyRolling
  PROVE  ClaimsInv'
<1>1. /\ plan' = PlanLatestOnly /\ pc' = "planned"
      /\ UNCHANGED <<revs, snap>>
  BY DEF PlanRollout, store
<1>2. /\ plan'.del = {} /\ plan'.put = {} /\ plan'.reason = "" /\ plan'.twice = {}
      /\ \A v \in Version : plan'.claims[v] = {} /\ plan'.base[v] = None
      /\ \A c \in Desired : plan'.want[c] = Latest
  BY <1>1, PlannedLatest
<1>3. \A v \in Version : revs[v] = None
  BY DEF NoneStored
<1>4. NoneStored' /\ StoredAsPlanned' /\ ClaimsDisjoint' /\ AllSeen'
  BY <1>1, <1>2, <1>3
     DEF NoneStored, StoredAsPlanned, ClaimsDisjoint, PlannedDisjoint, Holds, AllSeen
<1>5. /\ LatestStored' /\ OthersKept' /\ ReportsTruth'
      /\ NoOpsAreLatest' /\ StaysClaimed'
  BY <1>1, <1>2 DEF LatestStored, OthersKept, ReportsTruth, NoOpsAreLatest, StaysClaimed,
                    Latest, Desired
<1> QED
  BY <1>4, <1>5 DEF ClaimsInv

(* What the first sync read that did not go astray was so. *)
LEMMA ReadAsStored ==
  ASSUME TypeOK, PlanRollout, ~astray'
  PROVE  ~astray /\ cRevs = Copies(revs)
BY DEF PlanRollout, TypeOK

LEMMA ListClaimsOnce ==
  ASSUME TypeOK, ClaimsDisjoint, ~astray, pc # "planned", cRevs = Copies(revs)
  PROVE  /\ \A v, w \in Version : \A c \in ClaimsOf(v) \intersect ClaimsOf(w) : v = w
         /\ \A list \in Lists : ClaimedOnce(list)
<1>1. \A v \in Version : ClaimsOf(v) = Holds(v) /\ ClaimsOf(v) \subseteq Child
  BY ClaimsAreStored, ClaimsAreChildren
<1>2. \A v, w \in Version : \A c \in ClaimsOf(v) \intersect ClaimsOf(w) : v = w
  BY <1>1 DEF ClaimsDisjoint, StoredDisjoint
<1>3. ASSUME NEW list \in Lists PROVE ClaimedOnce(list)
  BY <1>2, ListIndices DEF ClaimedOnce, Once
<1> QED
  BY <1>2, <1>3

LEMMA PlanRolloutInv ==
  ASSUME TypeOK, SameCopies, ClaimsDisjoint, PlanRollout, AnyRolling
  PROVE  ClaimsInv'
<1>1. /\ pc = "observed" /\ pc' = "planned"
      /\ UNCHANGED <<revs, snap>>
  BY DEF PlanRollout, store
<1>0. PICK list \in Lists :
        \E outcome \in RollingUpdates(list) :
          \E want \in DesiredVersions(list, outcome.claims) :
            plan' = PlanFor(list, outcome, want)
  BY DEF PlanRollout
<1>2. PICK outcome \in RollingUpdates(list) :
        \E want \in DesiredVersions(list, outcome.claims) :
          plan' = PlanFor(list, outcome, want)
  BY <1>0
<1>3. PICK want \in DesiredVersions(list, outcome.claims) :
        plan' = PlanFor(list, outcome, want)
  BY <1>2
<1>4. /\ plan'.want = Wanted(want) /\ plan'.reason = outcome.reason
      /\ plan'.twice = {c \in Child : \E v, w \in Version :
                                        v # w /\ c \in ClaimsOf(v) \intersect ClaimsOf(w)}
  BY <1>3 DEF PlanFor
<1>5. \A v \in Version :
        /\ \A c \in plan'.claims[v] :
              \E i \in DOMAIN list : list[i] = v /\ c \in outcome.claims[i]
        /\ v \in plan'.del => plan'.claims[v] = {} /\ v \notin plan'.put
        /\ v \notin plan'.del \union plan'.put =>
             /\ plan'.claims[v] = ClaimsOf(v)
             /\ plan'.base[v] = "same" => revs[v] # None /\ Holds(v) = plan'.claims[v]
             /\ v # Latest /\ plan'.claims[v] # {} => plan'.base[v] # None
        /\ v # Latest /\ v \notin plan'.del /\ (plan'.base[v] # None \/ v \in plan'.put)
             => plan'.claims[v] # {}
        /\ plan'.base[v] = IF cRevs[v] = None THEN None ELSE cRevs[v].lag
  BY <1>3, PlannedClaims
<1>6. /\ 1 \in DOMAIN list /\ list[1] = Latest /\ Latest \in Version
      /\ \A i \in DOMAIN list : list[i] \in Version
      /\ \A i, j \in DOMAIN list : list[i] = list[j] => i = j
  BY ListIndices, SnapTypes
<1>7. ASSUME NEW c \in Child \ plan'.twice PROVE Once(list, c)
  BY <1>4, <1>6 DEF Once
<1>8. ASSUME NEW v \in Version \ {Latest}, NEW c \in plan'.claims[v]
      PROVE  \E i \in DOMAIN list : /\ i # 1 /\ list[i] = v
                                     /\ c \in outcome.claims[i] /\ c \in ClaimsOf(v)
  <2>1. PICK i \in DOMAIN list : list[i] = v /\ c \in outcome.claims[i]
    BY <1>5
  <2> QED
    BY <1>6, <2>1, OthersClaims
<1>9. \A v \in Version :
        /\ plan'.base[v] = "same" => Holds(v) = ClaimsOf(v)
        /\ plan'.base[v] = None => ClaimsOf(v) = {}
        /\ plan'.base[v] = None <=> cRevs[v] = None
  <2> SUFFICES ASSUME NEW v \in Version
               PROVE  /\ plan'.base[v] = "same" => Holds(v) = ClaimsOf(v)
                      /\ plan'.base[v] = None => ClaimsOf(v) = {}
                      /\ plan'.base[v] = None <=> cRevs[v] = None
    OBVIOUS
  <2>1. plan'.base[v] = IF cRevs[v] = None THEN None ELSE cRevs[v].lag
    BY <1>5
  <2>2. cRevs[v] # None => cRevs[v] \in RevisionCopy
    BY DEF TypeOK, RevisionCopies
  <2> QED
    BY <2>1, <2>2, ConstantsAssumption DEF ClaimsOf, SameCopies, RevisionCopy, Holds, Lag
<1>10. /\ plan'.claims[Latest] = outcome.claims[1] \intersect Child
       /\ Latest \notin plan'.del
       /\ cRevs[Latest] = None => Latest \in plan'.put
  BY <1>3, PlannedForLatest
<1>11. ASSUME ~astray'
       PROVE  /\ ~astray /\ cRevs = Copies(revs) /\ ClaimedOnce(list) /\ plan'.twice = {}
              /\ \A v \in Version : ClaimsOf(v) = Holds(v)
  <2>1. ~astray /\ cRevs = Copies(revs)
    BY <1>11, ReadAsStored
  <2> QED
    BY <1>1, <1>4, <2>1, ListClaimsOnce, ClaimsAreStored
<1>12. NoneStored' /\ OthersKept' /\ LatestStored' /\ StaysClaimed'
  <2>1. NoneStored' /\ StaysClaimed'
    BY <1>1 DEF NoneStored, StaysClaimed
  <2>2. OthersKept'
    <3> SUFFICES ASSUME NEW v \in Version, v # Latest, plan'.base[v] = "same",
                        v \notin plan'.del
                 PROVE  plan'.claims[v] # {}
      BY <1>1 DEF OthersKept, Latest
    <3>1. plan'.base[v] # None
      BY ConstantsAssumption DEF Lag
    <3> QED
      BY <1>5, <3>1
  <2>3. Latest \notin plan'.put /\ plan'.base[Latest] \in {"same", None} => revs[Latest] # None
    <3>1. Latest \notin plan'.put => plan'.base[Latest] # None
      BY <1>6, <1>9, <1>10
    <3>2. Latest \notin plan'.put /\ plan'.base[Latest] = "same" => revs[Latest] # None
      BY <1>5, <1>6, <1>10
    <3> QED
      BY <3>1, <3>2
  <2> QED
    BY <1>1, <1>10, <2>1, <2>2, <2>3 DEF LatestStored, Latest
<1>13. StoredAsPlanned'
  <2> SUFFICES ASSUME NEW v \in Version
               PROVE  /\ v \in plan'.del => plan'.claims[v] = {} /\ v \notin plan'.put
                      /\ Trusted(v)' /\ v \notin plan'.del \union plan'.put
                           => Holds(v) = plan'.claims[v]
                      /\ v # Latest /\ v \in plan'.put /\ plan'.base[v] = "same"
                           => plan'.claims[v] \subseteq Holds(v)
                      /\ v # Latest /\ plan'.claims[v] # {} => plan'.base[v] # None
    BY <1>1 DEF StoredAsPlanned, Holds, Latest
  <2>1. v \in plan'.del => plan'.claims[v] = {} /\ v \notin plan'.put
    BY <1>5
  <2>2. v # Latest => plan'.claims[v] \subseteq ClaimsOf(v)
    BY <1>8
  <2>3. ASSUME Trusted(v)', v \notin plan'.del \union plan'.put
        PROVE  Holds(v) = plan'.claims[v]
    <3>1. plan'.claims[v] = ClaimsOf(v)
      BY <1>5, <2>3
    <3>2. CASE plan'.base[v] = "same"
      BY <1>5, <2>3, <3>2
    <3>3. CASE plan'.base[v] = None /\ v = Latest
      BY <1>9, <1>10, <2>3, <3>3
    <3>4. CASE plan'.base[v] = None /\ ~astray'
      BY <1>11, <3>1, <3>4
    <3> QED
      BY <1>1, <2>3, <3>2, <3>3, <3>4 DEF Trusted, Latest
  <2> QED
    BY <1>9, <2>1, <2>2, <2>3
<1>14. AllSeen'
  <2> SUFFICES ASSUME ~astray', NEW v \in Version PROVE plan'.base[v] \in {"same", None}
    BY DEF AllSeen
  <2>1. plan'.base[v] = IF cRevs[v] = None THEN None ELSE cRevs[v].lag
    BY <1>5
  <2> QED
    BY <1>11, <2>1, CopiesAreSame
<1>15. ClaimsDisjoint'
  <2> SUFFICES ASSUME ~astray', NEW v \in Version, NEW w \in Version, NEW c \in Child,
                      c \in plan'.claims[v], c \in plan'.claims[w]
               PROVE  v = w
    BY <1>1, <1>11 DEF ClaimsDisjoint, PlannedDisjoint
  <2>1. PICK i \in DOMAIN list : list[i] = v /\ c \in outcome.claims[i]
    BY <1>5
  <2>2. PICK j \in DOMAIN list : list[j] = w /\ c \in outcome.claims[j]
    BY <1>5
  <2>3. Once(list, c)
    BY <1>11 DEF ClaimedOnce
  <2>4. i = j
    BY <2>1, <2>2, <2>3, OutcomeDisjoint
  <2> QED
    BY <2>1, <2>2, <2>4
<1>16. ReportsTruth'
  <2> SUFFICES ASSUME outcome.reason = "OnLatestRevision"
               PROVE  /\ Desired \intersect RollingChild \subseteq plan'.claims[Latest]
                      /\ \A v \in Version \ {Latest} : \A c \in plan'.claims[v] \intersect Desired :
                           c \in plan'.twice
    BY <1>1, <1>4 DEF ReportsTruth, Latest, Desired
  <2>1. Desired \intersect RollingChild \subseteq plan'.claims[Latest]
    BY <1>10, LatestHasAll, SnapTypes
  <2>2. ASSUME NEW v \in Version \ {Latest}, NEW c \in plan'.claims[v], c \in Desired
        PROVE  c \in plan'.twice
    <3>1. PICK i \in DOMAIN list : i # 1 /\ c \in outcome.claims[i]
      BY <1>8, <2>2
    <3>2. ~Once(list, c)
      BY <2>2, <3>1, OutcomeOnLatest
    <3> QED
      BY <1>7, <2>2, <3>2, SnapTypes
  <2> QED
    BY <2>1, <2>2
<1>17. NoOpsAreLatest'
  <2> SUFFICES ASSUME NEW c \in Desired \ plan'.twice, IsNoOp(c)
               PROVE  plan'.want[c] = Latest
    BY <1>1 DEF NoOpsAreLatest, Latest, Desired, IsNoOp
  <2>1. Once(list, c)
    BY <1>7, SnapTypes
  <2>2. want[c] = Latest
    BY <2>1, OutcomeNoOps
  <2> QED
    BY <1>4, <2>2, SnapTypes DEF Wanted
<1> QED
  BY <1>12, <1>13, <1>14, <1>15, <1>16, <1>17 DEF ClaimsInv

-----------------------------------------------------------------------------
(* The other steps. *)

LEMMA SyncOverInv ==
  ASSUME TypeOK, PlanEntitles, ClaimsInv, SyncOver
  PROVE  ClaimsInv'
<1>1. /\ pc' # "planned" /\ UNCHANGED <<revs, children, updating>>
      /\ plan'.put \subseteq plan.put
      /\ ~astray' => ~astray /\ (pc = "planned" => RevisionsCommitted)
  BY DEF SyncOver
<1>2. /\ NoneStored' /\ StoredAsPlanned' /\ LatestStored' /\ AllSeen'
      /\ OthersKept' /\ ReportsTruth' /\ NoOpsAreLatest'
  BY <1>1 DEF ClaimsInv, NoneStored, StoredAsPlanned, LatestStored, AllSeen, OthersKept,
              ReportsTruth, NoOpsAreLatest
<1>3. ASSUME ~astray, pc = "planned", RevisionsCommitted
      PROVE  \A v \in Version : Holds(v) = plan.claims[v]
  BY <1>3 DEF RevisionsCommitted, ClaimsInv, StoredAsPlanned, AllSeen, Trusted
<1>4. ClaimsDisjoint'
  <2> SUFFICES ASSUME ~astray, pc = "planned" => RevisionsCommitted PROVE StoredDisjoint
    BY <1>1 DEF ClaimsDisjoint, StoredDisjoint, Holds
  <2>1. CASE pc # "planned"
    BY <2>1 DEF ClaimsInv, ClaimsDisjoint
  <2>2. CASE pc = "planned"
    BY <1>3, <2>2 DEF ClaimsInv, ClaimsDisjoint, PlannedDisjoint, StoredDisjoint
  <2> QED
    BY <2>1, <2>2
<1>5. StaysClaimed'
  <2> SUFFICES ASSUME ~astray, pc = "planned" => RevisionsCommitted,
                      NEW c \in AlwaysAsked, children[c] # None \/ updating[c] # None
               PROVE  Claimed(c)
    BY <1>1 DEF StaysClaimed, Claimed
  <2>1. CASE pc # "planned"
    BY <2>1 DEF ClaimsInv, StaysClaimed
  <2>2. CASE pc = "planned"
    <3>1. Entitled(c)
      BY <2>2, AlwaysDesired DEF PlanEntitles
    <3>2. Holds(plan.want[c]) = plan.claims[plan.want[c]] /\ plan.want[c] \in Version
      BY <1>3, <2>2, <3>1 DEF Entitled
    <3> QED
      BY <3>1, <3>2 DEF Claimed, Entitled, Holds
  <2> QED
    BY <2>1, <2>2
<1> QED
  BY <1>2, <1>4, <1>5 DEF ClaimsInv

LEMMA GoesOnInv ==
  ASSUME TypeOK, ClaimsInv, GoesOn
  PROVE  ClaimsInv'
<1>1. /\ UNCHANGED <<pc, revs, astray, snap.spec>>
      /\ plan'.del = plan.del /\ plan'.put = plan.put /\ plan'.claims = plan.claims
      /\ plan'.want = plan.want /\ plan'.reason = plan.reason
      /\ plan'.base = plan.base /\ plan'.twice = plan.twice
      /\ \A c \in Child : \/ children[c] = None /\ children'[c] # None
                          \/ updating[c] = None /\ updating'[c] # None
                         => pc = "planned"
  BY DEF GoesOn, SameDecision
<1>2. NoneStored' /\ StoredAsPlanned' /\ LatestStored' /\ AllSeen'
  BY <1>1 DEF ClaimsInv, NoneStored, StoredAsPlanned, LatestStored, AllSeen, Trusted, Holds, Latest
<1>3. ClaimsDisjoint'
  <2>1. (PlannedDisjoint <=> PlannedDisjoint') /\ (StoredDisjoint <=> StoredDisjoint')
    BY <1>1 DEF StoredDisjoint, PlannedDisjoint, Holds
  <2> QED
    BY <1>1, <2>1 DEF ClaimsInv, ClaimsDisjoint
<1>4. OthersKept' /\ ReportsTruth'
  BY <1>1 DEF ClaimsInv, OthersKept, ReportsTruth, Latest, Desired
<1>5. NoOpsAreLatest'
  <2>1. \A c \in Child : IsNoOp(c)' => IsNoOp(c)
    BY <1>1 DEF GoesOn, SameObserved, IsNoOp, Latest
  <2> QED
    BY <1>1, <2>1, SnapTypes DEF ClaimsInv, NoOpsAreLatest, Latest, Desired
<1>6. StaysClaimed'
  <2>1. AlwaysAsked \subseteq Child
    BY AlwaysDesired, SnapTypes
  <2> QED
    BY <1>1, <2>1 DEF ClaimsInv, StaysClaimed, Claimed
<1> QED
  BY <1>2, <1>3, <1>4, <1>5, <1>6 DEF ClaimsInv

LEMMA DeletesInv ==
  ASSUME TypeOK, ClaimsInv, NEW v \in Version, Deletes(v)
  PROVE  ClaimsInv'
<1>1. /\ pc = "planned" /\ pc' = "planned" /\ v \in plan.del
      /\ UNCHANGED <<snap, astray, children>>
      /\ revs' = [revs EXCEPT ![v] = None]
  BY DEF Deletes
<1>2. /\ plan'.del = plan.del \ {v} /\ plan'.put = plan.put /\ plan'.claims = plan.claims
      /\ plan'.want = plan.want /\ plan'.reason = plan.reason
      /\ plan'.base = plan.base /\ plan'.twice = plan.twice
  BY DEF Deletes, TypeOK, Plans
<1>3. revs'[v] = None /\ \A w \in Version : w # v => revs'[w] = revs[w]
  BY <1>1 DEF TypeOK
<1>4. /\ NoneStored' /\ ClaimsDisjoint' /\ ReportsTruth' /\ NoOpsAreLatest'
      /\ AllSeen' /\ StaysClaimed'
  BY <1>1, <1>2, <1>3 DEF ClaimsInv, NoneStored, ClaimsDisjoint, PlannedDisjoint, ReportsTruth,
                          NoOpsAreLatest, AllSeen, StaysClaimed, IsNoOp, Latest, Desired
<1>5. StoredAsPlanned'
  <2>1. Holds(v)' = {} /\ \A w \in Version : w # v => Holds(w)' = Holds(w)
    BY <1>3 DEF Holds
  <2>2. ASSUME NEW w \in Version
        PROVE  /\ w \in plan'.del => plan'.claims[w] = {} /\ w \notin plan'.put
               /\ Trusted(w) /\ w \notin plan'.del \union plan'.put => Holds(w)' = plan'.claims[w]
               /\ w # Latest /\ w \in plan'.put /\ plan'.base[w] = "same"
                    => plan'.claims[w] \subseteq Holds(w)'
               /\ w # Latest /\ plan'.claims[w] # {} => plan'.base[w] # None
    <3>1. /\ w \in plan.del => plan.claims[w] = {} /\ w \notin plan.put
          /\ Trusted(w) /\ w \notin plan.del \union plan.put => Holds(w) = plan.claims[w]
          /\ w # Latest /\ w \in plan.put /\ plan.base[w] = "same" => plan.claims[w] \subseteq Holds(w)
          /\ w # Latest /\ plan.claims[w] # {} => plan.base[w] # None
      BY <1>1 DEF ClaimsInv, StoredAsPlanned
    <3>2. CASE w = v
      BY <1>1, <1>2, <2>1, <3>1, <3>2
    <3>3. CASE w # v
      BY <1>2, <2>1, <3>1, <3>3
    <3> QED
      BY <3>2, <3>3
  <2>3. Latest' = Latest /\ \A w \in Version : Trusted(w)' <=> Trusted(w)
    BY <1>1, <1>2 DEF Trusted, Latest
  <2> QED
    BY <2>2, <2>3 DEF StoredAsPlanned
<1>6. OthersKept' /\ LatestStored'
  BY <1>1, <1>2, <1>3 DEF ClaimsInv, OthersKept, LatestStored, StoredAsPlanned, Latest
<1> QED
  BY <1>4, <1>5, <1>6 DEF ClaimsInv

LEMMA PutsInv ==
  ASSUME TypeOK, ClaimsInv, NEW v \in Version, Puts(v)
  PROVE  ClaimsInv'
<1>1. /\ pc = "planned" /\ pc' = "planned" /\ plan.del = {} /\ v \in plan.put
      /\ UNCHANGED <<snap, astray, children>>
      /\ revs' = [revs EXCEPT ![v] = plan.claims[v]]
  BY DEF Puts
<1>2. /\ plan'.del = plan.del /\ plan'.put = plan.put \ {v} /\ plan'.claims = plan.claims
      /\ plan'.want = plan.want /\ plan'.reason = plan.reason
      /\ plan'.base = plan.base /\ plan'.twice = plan.twice
  BY DEF Puts, TypeOK, Plans
<1>3. /\ revs'[v] = plan.claims[v] /\ plan.claims[v] \in SUBSET Child
      /\ \A w \in Version : w # v => revs'[w] = revs[w]
  BY <1>1 DEF TypeOK, Plans
<1>4. ClaimsDisjoint' /\ ReportsTruth' /\ NoOpsAreLatest' /\ AllSeen' /\ StaysClaimed'
  BY <1>1, <1>2, <1>3 DEF ClaimsInv, ClaimsDisjoint, PlannedDisjoint, ReportsTruth,
                          NoOpsAreLatest, AllSeen, StaysClaimed, IsNoOp, Latest, Desired
<1>5. NoneStored'
  BY <1>1 DEF ClaimsInv, NoneStored
<1>6. StoredAsPlanned'
  <2>1. Holds(v)' = plan.claims[v] /\ \A w \in Version : w # v => Holds(w)' = Holds(w)
    BY <1>3, ConstantsAssumption DEF Holds
  <2>2. Latest' = Latest /\ \A w \in Version : Trusted(w)' <=> Trusted(w)
    BY <1>1, <1>2 DEF Trusted, Latest
  <2> QED
    BY <1>1, <1>2, <2>1, <2>2 DEF ClaimsInv, StoredAsPlanned
<1>7. OthersKept' /\ LatestStored'
  BY <1>1, <1>2, <1>3, ConstantsAssumption DEF ClaimsInv, OthersKept, LatestStored, Latest
<1> QED
  BY <1>4, <1>5, <1>6, <1>7 DEF ClaimsInv

-----------------------------------------------------------------------------
(* Copies that are "same" are current. *)

LEMMA CopiesAreCurrent ==
  ASSUME TypeOK
  PROVE  Current(Copies(children), children)
BY DEF Current, Copies, Copy, Fresh, TypeOK

LEMMA AgeStaysCurrent ==
  ASSUME TypeOK, NEW copies \in ChildCopies, Current(copies, children),
         NEW c \in Child, NEW object, NEW lag \in Lag \ {"same"}
  PROVE  Current(Age(copies, c, lag), [children EXCEPT ![c] = object])
<1> DEFINE aged == Age(copies, c, lag)
           now == [children EXCEPT ![c] = object]
<1> SUFFICES ASSUME NEW d \in Child, aged[d] # None, aged[d].lag = "same"
             PROVE  now[d] = aged[d].obj
  BY DEF Current
<1>1. CASE d # c
  BY <1>1 DEF Age, ChildCopies, Current, TypeOK
<1>2. CASE d = c
  <2>1. copies[c] # None => copies[c] \in ChildCopy
    BY DEF ChildCopies
  <2>2. aged[c] = IF copies[c] = None \/ copies[c].lag = "gone" THEN copies[c]
                  ELSE [copies[c] EXCEPT !.lag = lag]
    BY DEF Age, ChildCopies
  <2>3. aged[c] # None => aged[c].lag # "same"
    BY <2>1, <2>2 DEF ChildCopy
  <2> QED
    BY <1>2, <2>3
<1> QED
  BY <1>1, <1>2

LEMMA WriteStaysCurrent ==
  ASSUME TypeOK, SameIsCurrent, NEW c \in Child, NEW object, NEW lag \in Lag \ {"same"},
         WriteChild(c, object, lag), snap' = [snap EXCEPT !.obs = Age(@, c, lag)]
  PROVE  SameIsCurrent'
<1>1. /\ children' = [children EXCEPT ![c] = object]
      /\ cChildren' = Age(cChildren, c, lag)
      /\ snap'.obs = Age(snap.obs, c, lag)
  BY DEF WriteChild, TypeOK
<1>2. snap.obs \in ChildCopies /\ cChildren \in ChildCopies
  BY DEF TypeOK
<1>3. Current(Age(snap.obs, c, lag), [children EXCEPT ![c] = object])
  BY <1>2, AgeStaysCurrent DEF SameIsCurrent
<1>4. Current(Age(cChildren, c, lag), [children EXCEPT ![c] = object])
  BY <1>2, AgeStaysCurrent DEF SameIsCurrent
<1> QED
  BY <1>1, <1>3, <1>4 DEF SameIsCurrent

LEMMA SameIsCurrentStep ==
  ASSUME TypeOK, SameIsCurrent, [Next]_vars
  PROVE  SameIsCurrent'
<1>1. ASSUME UNCHANGED <<children, cChildren, snap>> PROVE SameIsCurrent'
  BY <1>1 DEF SameIsCurrent
<1>2. ASSUME NEW failed, EndSync(failed), UNCHANGED <<children, cChildren>> PROVE SameIsCurrent'
  BY <1>2 DEF EndSync, NoSnap, SameIsCurrent, Current
<1>3. ASSUME Restart PROVE SameIsCurrent'
  <2>1. /\ snap' = NoSnap /\ cChildren' = Copies(children) /\ UNCHANGED children
    BY <1>3 DEF Restart, EndSync, store
  <2> QED
    BY <2>1, CopiesAreCurrent DEF SameIsCurrent, NoSnap, Current
<1>4. "changed" \in Lag \ {"same"} /\ "gone" \in Lag \ {"same"}
  BY DEF Lag
<1>5. CASE Worker
  <2>1. ASSUME BeginSync PROVE SameIsCurrent'
    BY <2>1 DEF BeginSync, SameIsCurrent, store, cache
  <2>2. PlanRollout => UNCHANGED <<children, cChildren, snap>>
    BY DEF PlanRollout, store, cache
  <2>3. PlanPanics => Restart
    BY DEF PlanPanics
  <2>4. FinishSync => SameIsCurrent'
    BY <1>2 DEF FinishSync
  <2>5. ASSUME NEW v \in Version, DeleteRevision(v) \/ PutRevision(v) PROVE SameIsCurrent'
    <3>1. UNCHANGED <<children, cChildren>> /\ (UNCHANGED snap \/ EndSync(TRUE))
      BY <2>5, Zenon DEF DeleteRevision, PutRevision
    <3> QED
      BY <1>1, <1>2, <3>1
  <2>6. ASSUME NEW c \in Child, DeleteChild(c) PROVE SameIsCurrent'
    <3>1. CASE UNCHANGED <<children, cChildren, snap>>
      BY <1>1, <3>1
    <3>2. CASE /\ WriteChild(c, [children[c] EXCEPT !.deleting = TRUE], "changed")
               /\ snap' = [snap EXCEPT !.obs = Age(@, c, "changed")]
      BY <1>4, <3>2, WriteStaysCurrent
    <3> QED
      BY <2>6, <3>1, <3>2, Zenon DEF DeleteChild
  <2>7. ASSUME NEW c \in Child, ApplyChild(c) PROVE SameIsCurrent'
    <3>1. CASE UNCHANGED <<children, cChildren, snap>>
      BY <1>1, <3>1
    <3>2. ASSUME CreateChild(c) \/ RecreateChild(c) \/ UpdateChild(c),
                 snap' = [snap EXCEPT !.obs = Age(@, c, "changed")]
          PROVE  SameIsCurrent'
      <4>1. \E object : WriteChild(c, object, "changed")
        BY <3>2, Zenon DEF CreateChild, RecreateChild, UpdateChild
      <4> QED
        BY <1>4, <3>2, <4>1, WriteStaysCurrent
    <3> QED
      BY <2>7, <3>1, <3>2, Zenon DEF ApplyChild
  <2> QED
    BY <1>1, <1>3, <1>5, <2>1, <2>2, <2>3, <2>4, <2>5, <2>6, <2>7 DEF Worker
<1>6. ASSUME NEW c \in Child, NEW object, NEW lag \in Lag \ {"same"},
             EnvWritesChild(c, object, lag)
      PROVE  SameIsCurrent'
  BY <1>6, WriteStaysCurrent DEF EnvWritesChild
<1>7. CASE Informers
  <2>1. ASSUME NEW k \in Kind, ChildEvent(k) PROVE SameIsCurrent'
    <3>1. /\ cChildren' = [c \in Child |-> IF KindOf[c] = k THEN Copies(children)[c]
                                                            ELSE cChildren[c]]
          /\ UNCHANGED <<children, snap>>
      BY <2>1 DEF ChildEvent, store, sync
    <3>2. Current(cChildren', children)
      BY <3>1, CopiesAreCurrent DEF SameIsCurrent, Current
    <3> QED
      BY <3>1, <3>2 DEF SameIsCurrent
  <2>2. ParentEvent \/ ParentResync \/ RevisionEvent => UNCHANGED <<children, cChildren, snap>>
    BY DEF ParentEvent, ParentResync, RevisionEvent, store, cache, sync
  <2> QED
    BY <1>1, <1>7, <2>1, <2>2 DEF Informers
<1>8. CASE Faults
  <2>1. Crash => Restart
    BY DEF Crash
  <2>2. AbortSync => SameIsCurrent'
    BY <1>2 DEF AbortSync, store, cache
  <2>3. ASSUME NEW c \in Child, ChildCallFails(c) PROVE SameIsCurrent'
    BY <1>1, <2>3 DEF ChildCallFails, store, cache
  <2>4. ASSUME NEW c \in Child, ChildBreaks(c) \/ ChildDrained(c) PROVE SameIsCurrent'
    BY <1>4, <1>6, <2>4 DEF ChildBreaks, ChildDrained
  <2> QED
    BY <1>3, <1>8, <2>1, <2>2, <2>3, <2>4 DEF Faults
<1>9. CASE Environment
  <2>1. ASSUME NEW spec \in ParentSpec, EditParent(spec) PROVE SameIsCurrent'
    BY <1>1, <2>1 DEF EditParent, sync
  <2>2. ASSUME NEW c \in Child, ChildSettles(c) \/ ChildRemoved(c) PROVE SameIsCurrent'
    BY <1>4, <1>6, <2>2 DEF ChildSettles, ChildRemoved
  <2> QED
    BY <1>9, <2>1, <2>2 DEF Environment
<1>10. CASE UNCHANGED vars
  BY <1>1, <1>10 DEF vars, store, cache, sync
<1> QED
  BY <1>5, <1>7, <1>8, <1>9, <1>10 DEF Next

-----------------------------------------------------------------------------
(* The invariant and what follows from it. *)

LEMMA InitRollout == Init => RolloutInv
<1> SUFFICES ASSUME Init PROVE RolloutInv
  OBVIOUS
<1>1. /\ pc = "idle" /\ plan = NoPlan /\ snap = NoSnap
      /\ revs = [v \in Version |-> None] /\ children = [c \in Child |-> None]
      /\ cRevs = Copies(revs) /\ cChildren = Copies(children)
      /\ updating = [c \in Child |-> None]
  BY DEF Init
<1>2. TypeOK
  BY InitType
<1>3. TodoIsWanted /\ PlanEntitles
  BY <1>1 DEF NoPlan, TodoIsWanted, PlanEntitles
<1>4. SameCopies
  BY <1>1, <1>2, CopiesAreSame DEF SameCopies
<1>5. SameIsCurrent
  <2>1. Current(cChildren, children)
    BY <1>1, <1>2, CopiesAreCurrent
  <2>2. Current(snap.obs, children)
    BY <1>1 DEF NoSnap, Current
  <2> QED
    BY <2>1, <2>2 DEF SameIsCurrent
<1>6. ClaimsInv
  <2>1. /\ NoneStored /\ StoredAsPlanned /\ LatestStored /\ AllSeen
        /\ OthersKept /\ ReportsTruth /\ NoOpsAreLatest
    BY <1>1 DEF NoPlan, NoneStored, StoredAsPlanned, LatestStored, AllSeen, OthersKept,
                ReportsTruth, NoOpsAreLatest
  <2>2. ClaimsDisjoint
    BY <1>1 DEF ClaimsDisjoint, StoredDisjoint, Holds
  <2>3. StaysClaimed
    <3>1. AlwaysAsked \subseteq Child
      BY DEF AlwaysAsked, RollingChild
    <3> QED
      BY <1>1, <3>1 DEF StaysClaimed
  <2> QED
    BY <2>1, <2>2, <2>3 DEF ClaimsInv
<1> QED
  BY <1>2, <1>3, <1>4, <1>5, <1>6 DEF RolloutInv

LEMMA RolloutStep ==
  ASSUME RolloutInv, [Next]_vars
  PROVE  RolloutInv'
<1>1. /\ TypeOK /\ TodoIsWanted /\ SameCopies /\ PlanEntitles /\ SameIsCurrent
      /\ ClaimsInv /\ NoneStored /\ ClaimsDisjoint
  BY DEF RolloutInv, ClaimsInv
<1>2. TypeOK' /\ TodoIsWanted'
  <2>1. UNCHANGED vars => TypeOK'
    BY <1>1 DEF TypeOK, vars, store, cache, sync, history
  <2> QED
    BY <1>1, <2>1, WorkerType, InformersType, FaultsType, EnvironmentType, TodoStep DEF Next
<1>3. SameCopies' /\ PlanEntitles' /\ SameIsCurrent'
  BY <1>1, SameCopiesStep, PlanEntitlesStep, SameIsCurrentStep
<1>4. ClaimsInv'
  <2>1. CASE PlanRollout
    BY <1>1, <2>1, PlanLatestInv, PlanRolloutInv
  <2>2. CASE SyncOver
    BY <1>1, <2>2, SyncOverInv
  <2>3. CASE GoesOn
    BY <1>1, <2>3, GoesOnInv
  <2>4. ASSUME NEW v \in Version, Deletes(v) PROVE ClaimsInv'
    BY <1>1, <2>4, DeletesInv
  <2>5. ASSUME NEW v \in Version, Puts(v) PROVE ClaimsInv'
    BY <1>1, <2>5, PutsInv
  <2> QED
    BY <1>1, <2>1, <2>2, <2>3, <2>4, <2>5, StepKinds
<1> QED
  BY <1>2, <1>3, <1>4 DEF RolloutInv

(* A planned sync knows of a revision that is to keep the claim of a child   *)
(* that is always asked for; if its copy was not old, the claim is stored,   *)
(* or the latest revision is yet to be written with it.                      *)
LEMMA KeeperHolds ==
  ASSUME RolloutInv, pc = "planned", NEW c \in AlwaysAsked, NEW v \in Version,
         c \in plan.claims[v], plan.base[v] \in {"same", None}
  PROVE  v \notin plan.del /\ (c \in Holds(v) \/ (v = Latest /\ v \in plan.put))
<1>1. /\ v \in plan.del => plan.claims[v] = {}
      /\ Trusted(v) /\ v \notin plan.del \union plan.put => Holds(v) = plan.claims[v]
      /\ v # Latest /\ v \in plan.put /\ plan.base[v] = "same" => plan.claims[v] \subseteq Holds(v)
      /\ v # Latest => plan.base[v] # None
  BY DEF RolloutInv, ClaimsInv, StoredAsPlanned
<1> QED
  BY <1>1 DEF Trusted

LEMMA LosesNoClaim ==
  ASSUME RolloutInv, [Next]_vars, NEW c \in AlwaysAsked, Claimed(c), ~Claimed(c)'
  PROVE  \/ /\ Latest \in plan'.put /\ c \in plan'.claims[Latest]
            /\ \E v \in Version : revs[v] # None /\ revs'[v] = None
         \/ /\ \E v \in Version : c \in plan.claims[v]
            /\ \A v \in Version :
                 c \in plan.claims[v] => plan.base[v] \in {"changed", "gone"}
<1>1. TypeOK /\ PlanEntitles
  BY DEF RolloutInv
<1>2. ~UNCHANGED revs
  BY DEF Claimed
<1>3. PICK w \in Version : Deletes(w) \/ Puts(w)
  <2>1. ~PlanRollout /\ ~SyncOver /\ ~GoesOn
    BY <1>2 DEF PlanRollout, SyncOver, GoesOn, store
  <2> QED
    BY <1>1, <2>1, StepKinds
<1>4. /\ pc = "planned" /\ plan'.claims = plan.claims
      /\ \A u \in Version : u # w => revs'[u] = revs[u]
  BY <1>1, <1>3 DEF Deletes, Puts, TypeOK, Plans
<1>5. \E v \in Version : c \in plan.claims[v]
  BY <1>1, <1>4, AlwaysDesired DEF PlanEntitles, Entitled
<1>6. ASSUME NEW v \in Version, c \in plan.claims[v], plan.base[v] \notin {"changed", "gone"}
      PROVE  /\ Latest \in plan'.put /\ c \in plan'.claims[Latest]
             /\ \E u \in Version : revs[u] # None /\ revs'[u] = None
  <2>1. plan.base[v] \in {"same", None}
    BY <1>1, <1>6 DEF TypeOK, Plans, Lag
  <2>2. v \notin plan.del /\ (c \in Holds(v) \/ (v = Latest /\ v \in plan.put))
    BY <1>4, <1>6, <2>1, KeeperHolds
  <2>3. ~(c \in Holds(v) /\ revs'[v] = revs[v]) /\ (revs'[v] = plan.claims[v] => revs'[v] = None)
    BY <1>6 DEF Claimed, Holds
  <2>4. CASE Deletes(w)
    <3>1. w \in plan.del /\ revs'[w] = None /\ plan'.put = plan.put
      BY <1>1, <2>4 DEF Deletes, TypeOK, Plans
    <3>2. w # v
      BY <2>2, <3>1
    <3>3. v = Latest /\ v \in plan'.put
      BY <1>4, <2>2, <2>3, <3>1, <3>2
    <3>4. revs[w] # None
      BY <1>4, <3>1 DEF Claimed
    <3> QED
      BY <1>4, <1>6, <3>1, <3>3, <3>4
  <2>5. CASE Puts(w)
    <3>1. /\ w \in plan.put /\ revs'[w] = plan.claims[w]
          /\ Latest \in plan.put => w = Latest
          /\ plan.claims[w] \in SUBSET Child
      BY <1>1, <2>5 DEF Puts, TypeOK, Plans
    <3>2. w # v
      BY <1>6, <2>3, <3>1, ConstantsAssumption
    <3> QED
      BY <1>4, <2>2, <2>3, <3>1, <3>2
  <2> QED
    BY <1>3, <2>4, <2>5
<1> QED
  BY <1>5, <1>6

(* Whatever the user edits, whatever fails, and whatever copies were old,    *)
(* writing the revisions takes the last claim of a child that no edit scales *)
(* away only if this sync deletes a revision and is yet to write the claim   *)
(* into the latest, or believed by old copies only that another has it.      *)
THEOREM NeverLosesAClaim == Spec => NeverUnclaimed
<1>1. RolloutInv /\ [Next]_vars => RolloutInv'
  BY RolloutStep
<1>2. RolloutInv /\ [Next]_vars =>
        \A c \in AlwaysAsked :
          Claimed(c) /\ ~Claimed(c)' =>
            \/ /\ Latest \in plan'.put /\ c \in plan'.claims[Latest]
               /\ \E v \in Version : revs[v] # None /\ revs'[v] = None
            \/ /\ \E v \in Version : c \in plan.claims[v]
               /\ \A v \in Version :
                    c \in plan.claims[v] => plan.base[v] \in {"changed", "gone"}
  BY LosesNoClaim
<1> QED
  BY <1>1, <1>2, InitRollout, PTL DEF Spec, NeverUnclaimed

(* Only FinishSync writes the condition. *)
LEMMA FinishTells ==
  ASSUME TypeOK, [Next]_vars, parent'.cond # parent.cond
  PROVE  FinishSync
<1>1. Informers => UNCHANGED parent
  BY DEF Informers, ParentEvent, ParentResync, RevisionEvent, ChildEvent, store
<1>2. Faults => UNCHANGED parent
  <2>1. Crash \/ AbortSync => UNCHANGED parent
    BY DEF Crash, AbortSync, Restart, store
  <2>2. \A c \in Child : ChildCallFails(c) \/ ChildBreaks(c) \/ ChildDrained(c) => UNCHANGED parent
    BY DEF ChildCallFails, ChildBreaks, ChildDrained, EnvWritesChild, store
  <2> QED
    BY <2>1, <2>2 DEF Faults
<1>3. Environment => parent'.cond = parent.cond
  <2>1. ASSUME NEW spec \in ParentSpec, EditParent(spec) PROVE parent'.cond = parent.cond
    BY <2>1 DEF EditParent, WriteParent, TypeOK
  <2>2. \A c \in Child : ChildSettles(c) \/ ChildRemoved(c) => UNCHANGED parent
    BY DEF ChildSettles, ChildRemoved, EnvWritesChild
  <2> QED
    BY <2>1, <2>2 DEF Environment
<1>4. UNCHANGED vars => UNCHANGED parent
  BY DEF vars, store
<1>5. Worker => FinishSync \/ UNCHANGED parent
  <2>1. BeginSync \/ PlanRollout \/ PlanPanics => UNCHANGED parent
    BY DEF BeginSync, PlanRollout, PlanPanics, Restart, store
  <2>2. \A v \in Version : DeleteRevision(v) \/ PutRevision(v) => UNCHANGED parent
    BY DEF DeleteRevision, PutRevision
  <2>3. \A c \in Child : DeleteChild(c) \/ ApplyChild(c) => UNCHANGED parent
    BY DEF DeleteChild, ApplyChild
  <2> QED
    BY <2>1, <2>2, <2>3 DEF Worker
<1> QED
  BY <1>1, <1>2, <1>3, <1>4, <1>5 DEF Next

LEMMA FinishIsTrue ==
  ASSUME RolloutInv, FinishSync, parent'.cond.reason = "OnLatestRevision"
  PROVE  LET told == parent'.cond.spec
         IN /\ plan.base[told.ver] \in {"same", None} =>
                 /\ revs'[told.ver] # None
                 /\ told.scale \intersect RollingChild \subseteq revs'[told.ver]
            /\ \A v \in Version \ {told.ver} :
                 plan.base[v] = "same" /\ revs'[v] # None =>
                   revs'[v] # {} /\ revs'[v] \intersect told.scale \subseteq plan.twice
<1>1. parent'.cond = [reason |-> plan.reason, spec |-> snap.spec]
  BY DEF FinishSync, WriteParent, WithStatus, RolloutInv, TypeOK
<1>2. /\ pc = "planned" /\ plan.del = {} /\ plan.put = {} /\ UNCHANGED revs
      /\ plan.reason = "OnLatestRevision"
      /\ parent'.cond.spec.ver = Latest /\ parent'.cond.spec.scale = Desired
  BY <1>1 DEF FinishSync, RevisionsCommitted, Latest, Desired
<1>3. /\ AnyRolling
      /\ Desired \intersect RollingChild \subseteq plan.claims[Latest]
      /\ \A v \in Version \ {Latest} : plan.claims[v] \intersect Desired \subseteq plan.twice
  BY <1>2 DEF RolloutInv, ClaimsInv, ReportsTruth
<1>4. \A v \in Version : Trusted(v) => Holds(v) = plan.claims[v]
  BY <1>2 DEF RolloutInv, ClaimsInv, StoredAsPlanned
<1>5. ASSUME plan.base[Latest] \in {"same", None}
      PROVE  revs[Latest] # None /\ Desired \intersect RollingChild \subseteq revs[Latest]
  <2>1. Trusted(Latest) /\ Latest \in Version
    BY <1>5, SnapTypes DEF Trusted, RolloutInv
  <2>2. revs[Latest] # None
    BY <1>2, <1>3, <1>5 DEF RolloutInv, ClaimsInv, LatestStored
  <2> QED
    BY <1>3, <1>4, <2>1, <2>2 DEF Holds
<1>6. ASSUME NEW v \in Version \ {Latest}, plan.base[v] = "same", revs[v] # None
      PROVE  revs[v] # {} /\ revs[v] \intersect Desired \subseteq plan.twice
  <2>1. revs[v] = plan.claims[v]
    BY <1>4, <1>6 DEF Trusted, Holds
  <2>2. plan.claims[v] # {}
    BY <1>2, <1>3, <1>6 DEF RolloutInv, ClaimsInv, OthersKept
  <2> QED
    BY <1>3, <2>1, <2>2
<1> QED
  BY <1>2, <1>5, <1>6

(* A status that says that all is on the latest revision is true as far as   *)
(* the copies that the sync read were not old: the latest revision claims    *)
(* all that is asked for, and what another still claims of it is what was    *)
(* claimed twice.                                                            *)
THEOREM StatusIsTrue == Spec => StatusTruth
<1>1. RolloutInv /\ [Next]_vars => RolloutInv'
  BY RolloutStep
<1>2. RolloutInv /\ [Next]_vars =>
        (parent'.cond # parent.cond /\ parent'.cond.reason = "OnLatestRevision" =>
           LET told == parent'.cond.spec
           IN /\ plan.base[told.ver] \in {"same", None} =>
                   /\ revs'[told.ver] # None
                   /\ told.scale \intersect RollingChild \subseteq revs'[told.ver]
              /\ \A v \in Version \ {told.ver} :
                   plan.base[v] = "same" /\ revs'[v] # None =>
                     revs'[v] # {} /\ revs'[v] \intersect told.scale \subseteq plan.twice)
  BY FinishTells, FinishIsTrue DEF RolloutInv
<1> QED
  BY <1>1, <1>2, InitRollout, PTL DEF Spec, StatusTruth

(* Only an update of the child writes its content. *)
LEMMA UpdateWritesContent ==
  ASSUME TypeOK, [Next]_vars, NEW c \in Child, children[c] # None, children'[c] # None,
         children'[c].content # children[c].content
  PROVE  UpdateChild(c)
<1>0. children[c] \in Object
  BY DEF TypeOK
<1>1. ASSUME UNCHANGED children PROVE FALSE
  BY <1>1
<1>2. ASSUME NEW d \in Child, NEW object, NEW lag, WriteChild(d, object, lag),
             object # None => object.content = children[d].content
      PROVE  FALSE
  BY <1>2 DEF WriteChild, TypeOK
<1>3. ASSUME NEW d \in Child, children[d] # None
      PROVE  /\ [children[d] EXCEPT !.deleting = TRUE].content = children[d].content
             /\ \A h : [children[d] EXCEPT !.health = h].content = children[d].content
  BY <1>3 DEF TypeOK, Object
<1>4. ASSUME Worker PROVE UpdateChild(c)
  <2>1. BeginSync \/ PlanRollout \/ PlanPanics \/ FinishSync => UNCHANGED children
    BY DEF BeginSync, PlanRollout, PlanPanics, Restart, FinishSync, store
  <2>2. \A v \in Version : DeleteRevision(v) \/ PutRevision(v) => UNCHANGED children
    BY DEF DeleteRevision, PutRevision
  <2>3. ASSUME NEW d \in Child, DeleteChild(d) PROVE FALSE
    BY <1>1, <1>2, <1>3, <2>3 DEF DeleteChild
  <2>4. ASSUME NEW d \in Child, ApplyChild(d) PROVE UpdateChild(c)
    <3>1. CreateChild(d) \/ RecreateChild(d) \/ UpdateChild(d)
      BY <1>1, <2>4, Zenon DEF ApplyChild
    <3>2. ~RecreateChild(d)
      BY <1>2, <1>3 DEF RecreateChild, CanRecreate
    <3>3. d = c
      BY <3>1 DEF CreateChild, RecreateChild, UpdateChild, WriteChild, TypeOK
    <3>4. ~CreateChild(c)
      BY DEF CreateChild, CanCreate
    <3> QED
      BY <3>1, <3>2, <3>3, <3>4
  <2> QED
    BY <1>1, <1>4, <2>1, <2>2, <2>3, <2>4 DEF Worker
<1>5. Informers => FALSE
  BY <1>1 DEF Informers, ParentEvent, ParentResync, RevisionEvent, ChildEvent, store
<1>6. ASSUME NEW d \in Child, NEW object, NEW lag, EnvWritesChild(d, object, lag),
             object # None => object.content = children[d].content
      PROVE  FALSE
  BY <1>2, <1>6 DEF EnvWritesChild
<1>7. Faults => FALSE
  <2>1. Crash \/ AbortSync => UNCHANGED children
    BY DEF Crash, AbortSync, Restart, store
  <2>2. \A d \in Child : ChildCallFails(d) => UNCHANGED children
    BY DEF ChildCallFails, store
  <2>3. ASSUME NEW d \in Child, ChildBreaks(d) \/ ChildDrained(d) PROVE FALSE
    BY <1>3, <1>6, <2>3 DEF ChildBreaks, ChildDrained
  <2> QED
    BY <1>1, <2>1, <2>2, <2>3 DEF Faults
<1>8. Environment => FALSE
  <2>1. \A spec \in ParentSpec : EditParent(spec) => UNCHANGED children
    BY DEF EditParent
  <2>2. ASSUME NEW d \in Child, ChildSettles(d) \/ ChildRemoved(d) PROVE FALSE
    BY <1>3, <1>6, <2>2 DEF ChildSettles, ChildRemoved
  <2> QED
    BY <1>1, <2>1, <2>2 DEF Environment
<1>9. ~UNCHANGED vars
  BY <1>1 DEF vars, store
<1> QED
  BY <1>4, <1>5, <1>7, <1>8, <1>9 DEF Next

LEMMA LatestStays ==
  ASSUME RolloutInv, [Next]_vars, pc = "planned", NEW c \in Desired \ plan.twice,
         children[c] # None, children'[c] # None,
         children[c].content = Template[Latest][c]
  PROVE  children'[c].content = Template[Latest][c]
<1> SUFFICES ASSUME children'[c].content # children[c].content PROVE FALSE
  OBVIOUS
<1>1. TypeOK /\ c \in Child
  BY SnapTypes DEF RolloutInv
<1>2. UpdateChild(c)
  BY <1>1, UpdateWritesContent
<1>3. children[c] = snap.obs[c].obj /\ snap.obs[c] # None
  BY <1>1, <1>2 DEF UpdateChild, CanUpdate, RolloutInv, SameIsCurrent, Current
<1>4. plan.want[c] = Latest
  BY <1>3 DEF IsNoOp, RolloutInv, ClaimsInv, NoOpsAreLatest
<1>5. children'[c].content = Template[plan.want[c]][c]
  BY <1>1, <1>2 DEF UpdateChild, CanUpdate, WriteChild, TypeOK, Object
<1> QED
  BY <1>4, <1>5

(* Whatever the user edits, whatever fails, and whatever copies were old, no *)
(* sync takes the content of the version it has for the latest away from a   *)
(* child, unless two of the copies it read claimed the child.                *)
THEOREM LatestAlwaysWins == Spec => LatestWins
<1>1. RolloutInv /\ [Next]_vars => RolloutInv'
  BY RolloutStep
<1>2. RolloutInv /\ [Next]_vars =>
        (pc = "planned" =>
           \A c \in Desired \ plan.twice :
             /\ children[c] # None /\ children'[c] # None
             /\ children[c].content = Template[Latest][c]
             => children'[c].content = Template[Latest][c])
  BY LatestStays
<1> QED
  BY <1>1, <1>2, InitRollout, PTL DEF Spec, LatestWins

-----------------------------------------------------------------------------
(* That a rolling update updates one child at a time, of those whose status  *)
(* tells the generation it speaks of, up to the first sync that goes astray: *)
(* the inductive invariant, which holds until then.                          *)

(* A child that a sync has yet to decide on or to apply has the content it   *)
(* was seen with: only the sync itself creates or updates it.                *)
SeenAsIs ==
  \A c \in Child :
    /\ pc = "observed" \/ (pc = "planned" /\ c \in plan.todo)
    /\ children[c] # None
    => snap.obs[c] # None /\ snap.obs[c].obj.content = children[c].content

(* What is left to apply was seen to differ from what it is to become. *)
TodoDiffers ==
  pc = "planned" =>
    \A c \in plan.todo :
      snap.obs[c] # None => snap.obs[c].obj.content # Template[plan.want[c]][c]

(* The health of a rolling child tells that it is being updated: it is not   *)
(* good, and stale only if its kind is updated in place.                     *)
Tells(c, object) ==
  /\ object.health = "stale" => Method[KindOf[c]] = "RollingInPlace"
  /\ updating[c] # None /\ object.content = Template[updating[c]][c]
       => object.health # "good"

HealthTells ==
  \A c \in RollingChild :
    /\ children[c] # None => Tells(c, children[c])
    /\ pc = "observed" /\ snap.obs[c] # None => Tells(c, snap.obs[c].obj)

(* A child keeps a version busy while it is updated to it, claimed or about  *)
(* to be claimed by it for what it holds, and while it is claimed by it and  *)
(* yet to be updated.                                                        *)
HasContent(c, v) ==
  \/ children[c] # None /\ children[c].content = Template[v][c]
  \/ pc = "observed" /\ snap.obs[c] # None /\ snap.obs[c].obj.content = Template[v][c]

Busy(claims, c, v) ==
  \/ updating[c] = v /\ (c \in claims \/ HasContent(c, v))
  \/ c \in claims /\ children[c] # None /\ children[c].content # Template[v][c]

OneBusy(claims, v) ==
  \A c, d \in Paced : Busy(claims, c, v) /\ Busy(claims, d, v) => c = d

OneBusyEach ==
  \A v \in Version :
    /\ OneBusy(Holds(v), v)
    /\ pc = "planned" => OneBusy(plan.claims[v], v)

OneInv ==
  /\ RolloutInv
  /\ ~astray
  /\ SeenAsIs
  /\ TodoDiffers
  /\ HealthTells
  /\ OneBusyEach

-----------------------------------------------------------------------------
(* What a step does to the children: decide, begin or end a sync, write the  *)
(* revisions, apply a child, or change none in a way that matters.           *)
Begins ==
  /\ pc = "idle" /\ pc' = "observed"
  /\ snap'.obs = Copies(children)
  /\ UNCHANGED <<revs, children, updating>>

Ends ==
  /\ pc' = "idle"
  /\ UNCHANGED <<revs, children, updating>>

Stores ==
  /\ pc = "planned"
  /\ UNCHANGED <<pc, snap, astray, children, updating>>
  /\ UNCHANGED <<plan.claims, plan.want, plan.todo>>
  /\ \A v \in Version : Holds(v)' \in {{}, Holds(v), plan.claims[v]}

Applies(c) ==
  /\ RevisionsCommitted /\ c \in plan.todo
  /\ CreateChild(c) \/ RecreateChild(c) \/ UpdateChild(c)
  /\ UNCHANGED <<pc, revs, astray>>
  /\ SameObserved
  /\ UNCHANGED <<plan.claims, plan.want>>
  /\ plan'.todo = plan.todo \ {c}

(* No child gets other content or starts to be updated, and one that turns   *)
(* healthy is no longer being updated.                                       *)
CalmFor(c) ==
  /\ updating'[c] \in {updating[c], None}
  /\ children'[c] # None =>
       /\ children[c] # None
       /\ children'[c].content = children[c].content
       /\ children[c].deleting => children'[c].deleting
       /\ \/ children'[c].health \in {children[c].health, "bad"}
          \/ children'[c].health = "good" /\ updating'[c] = None

Calm ==
  /\ UNCHANGED <<pc, revs, astray>>
  /\ SameObserved
  /\ UNCHANGED <<plan.claims, plan.want>>
  /\ plan'.todo \subseteq plan.todo
  /\ \A c \in Child : CalmFor(c)

LEMMA UnchangedIsCalm ==
  ASSUME UNCHANGED <<children, updating>>
  PROVE  \A c \in Child : CalmFor(c)
BY DEF CalmFor

(* Whoever writes a child that exists, but the sync that applies it, leaves  *)
(* its content alone.                                                        *)
LEMMA WriteIsCalm ==
  ASSUME TypeOK, NEW c \in Child, NEW object, NEW lag, WriteChild(c, object, lag),
         children[c] # None,
         \/ object = None
         \/ object = [children[c] EXCEPT !.deleting = TRUE]
         \/ object = [children[c] EXCEPT !.health = "bad"]
         \/ object = [children[c] EXCEPT !.health = "good"] /\ updating'[c] = None,
         UNCHANGED updating \/ updating' = [updating EXCEPT ![c] = None]
  PROVE  \A d \in Child : CalmFor(d)
<1>1. children[c] \in Object
  BY DEF TypeOK
<1>2. /\ children'[c] = object
      /\ \A d \in Child : d # c => children'[d] = children[d]
  BY DEF WriteChild, TypeOK
<1>3. \A d \in Child : updating'[d] \in {updating[d], None}
  BY DEF TypeOK
<1>4. CalmFor(c)
  <2>1. CASE object = None
    BY <1>2, <1>3, <2>1 DEF CalmFor
  <2>2. CASE object = [children[c] EXCEPT !.deleting = TRUE]
    BY <1>1, <1>2, <1>3, <2>2 DEF CalmFor, Object
  <2>3. CASE object = [children[c] EXCEPT !.health = "bad"]
    BY <1>1, <1>2, <1>3, <2>3 DEF CalmFor, Object
  <2>4. CASE object = [children[c] EXCEPT !.health = "good"] /\ updating'[c] = None
    BY <1>1, <1>2, <1>3, <2>4 DEF CalmFor, Object
  <2> QED
    BY <2>1, <2>2, <2>3, <2>4
<1>5. \A d \in Child : d # c => CalmFor(d)
  BY <1>2, <1>3 DEF CalmFor
<1> QED
  BY <1>4, <1>5

LEMMA EnvIsCalm ==
  ASSUME TypeOK, NEW c \in Child, NEW object, NEW lag \in Lag,
         EnvWritesChild(c, object, lag),
         children[c] # None,
         \/ object = None
         \/ object = [children[c] EXCEPT !.deleting = TRUE]
         \/ object = [children[c] EXCEPT !.health = "bad"]
         \/ object = [children[c] EXCEPT !.health = "good"] /\ updating'[c] = None,
         UNCHANGED updating \/ updating' = [updating EXCEPT ![c] = None]
  PROVE  Calm
<1>1. /\ UNCHANGED <<pc, revs, astray, plan>>
      /\ WriteChild(c, object, lag)
      /\ snap' = [snap EXCEPT !.obs = Age(@, c, lag)]
  BY DEF EnvWritesChild
<1>2. SameObserved
  BY <1>1, AgeKeepsObjects
<1>3. \A d \in Child : CalmFor(d)
  BY <1>1, WriteIsCalm
<1> QED
  BY <1>1, <1>2, <1>3 DEF Calm

(* Ticking a child off leaves the decisions alone. *)
LEMMA TickOffTodo ==
  ASSUME TypeOK, NEW c,
         \/ plan' = [plan EXCEPT !.todel = @ \ {c}]
         \/ plan' = [plan EXCEPT !.todel = @ \ {c}, !.failed = TRUE]
         \/ plan' = [plan EXCEPT !.todo = @ \ {c}, !.failed = TRUE]
         \/ plan' = [plan EXCEPT !.todel = @ \ {c}, !.todo = @ \ {c}, !.failed = TRUE]
  PROVE  UNCHANGED <<plan.claims, plan.want>> /\ plan'.todo \subseteq plan.todo
<1>1. plan \in Plans
  BY DEF TypeOK
<1>2. CASE plan' = [plan EXCEPT !.todel = @ \ {c}]
  BY <1>1, <1>2 DEF Plans
<1>3. CASE plan' = [plan EXCEPT !.todel = @ \ {c}, !.failed = TRUE]
  BY <1>1, <1>3 DEF Plans
<1>4. CASE plan' = [plan EXCEPT !.todo = @ \ {c}, !.failed = TRUE]
  BY <1>1, <1>4 DEF Plans
<1>5. CASE plan' = [plan EXCEPT !.todel = @ \ {c}, !.todo = @ \ {c}, !.failed = TRUE]
  BY <1>1, <1>5 DEF Plans
<1> QED
  BY <1>2, <1>3, <1>4, <1>5, Zenon

LEMMA DeleteIsCalm ==
  ASSUME TypeOK, NEW c \in Child, DeleteChild(c)
  PROVE  Calm
<1>1. UNCHANGED <<pc, revs, astray>>
  BY DEF DeleteChild
<1>2. UNCHANGED <<plan.claims, plan.want>> /\ plan'.todo \subseteq plan.todo
  <2>1. \/ plan' = [plan EXCEPT !.todel = @ \ {c}]
        \/ plan' = [plan EXCEPT !.todel = @ \ {c}, !.failed = TRUE]
    BY Zenon DEF DeleteChild
  <2> QED
    BY <2>1, TickOffTodo
<1>3. CASE UNCHANGED <<children, cChildren, snap, updating>>
  BY <1>1, <1>2, <1>3, UnchangedIsCalm, SameObjects DEF Calm
<1>4. CASE /\ children[c] # None
           /\ WriteChild(c, [children[c] EXCEPT !.deleting = TRUE], "changed")
           /\ snap' = [snap EXCEPT !.obs = Age(@, c, "changed")]
           /\ updating' = [updating EXCEPT ![c] = None]
  <2>1. "changed" \in Lag
    BY DEF Lag
  <2>2. SameObserved
    BY <1>4, <2>1, AgeKeepsObjects
  <2>3. \A d \in Child : CalmFor(d)
    BY <1>4, WriteIsCalm
  <2> QED
    BY <1>1, <1>2, <2>2, <2>3 DEF Calm
<1> QED
  BY <1>3, <1>4, Zenon DEF DeleteChild

LEMMA ApplyApplies ==
  ASSUME TypeOK, NEW c \in Child, ApplyChild(c)
  PROVE  Applies(c) \/ (Calm /\ UNCHANGED updating)
<1>1. UNCHANGED <<pc, revs, astray>> /\ RevisionsCommitted /\ c \in plan.todo
  BY DEF ApplyChild
<1>2. CASE /\ plan' = [plan EXCEPT !.todo = @ \ {c}, !.failed = TRUE]
           /\ UNCHANGED <<children, cChildren, snap, updating>>
  <2>1. UNCHANGED <<plan.claims, plan.want>> /\ plan'.todo \subseteq plan.todo
    BY <1>2, TickOffTodo
  <2> QED
    BY <1>1, <1>2, <2>1, UnchangedIsCalm, SameObjects DEF Calm
<1>3. CASE /\ CreateChild(c) \/ RecreateChild(c) \/ UpdateChild(c)
           /\ snap' = [snap EXCEPT !.obs = Age(@, c, "changed")]
           /\ plan' = [plan EXCEPT !.todo = @ \ {c}]
  <2>1. "changed" \in Lag
    BY DEF Lag
  <2>2. SameObserved
    BY <1>3, <2>1, AgeKeepsObjects
  <2>3. UNCHANGED <<plan.claims, plan.want>> /\ plan'.todo = plan.todo \ {c}
    BY <1>3 DEF TypeOK, Plans
  <2> QED
    BY <1>1, <1>3, <2>2, <2>3 DEF Applies
<1> QED
  BY <1>2, <1>3, Zenon DEF ApplyChild

LEMMA WriteStores ==
  ASSUME TypeOK, NEW v \in Version, NEW claims \in {None, plan.claims[v]},
         pc = "planned", WriteRevision(v, claims),
         \/ plan' = [plan EXCEPT !.del = @ \ {v}]
         \/ plan' = [plan EXCEPT !.put = @ \ {v}],
         UNCHANGED <<pc, snap, astray, children, updating>>
  PROVE  Stores
<1>1. /\ revs'[v] = claims
      /\ \A w \in Version : w # v => revs'[w] = revs[w]
  BY DEF WriteRevision, TypeOK
<1>2. UNCHANGED <<plan.claims, plan.want, plan.todo>>
  <2>1. plan \in Plans
    BY DEF TypeOK
  <2>2. CASE plan' = [plan EXCEPT !.del = @ \ {v}]
    BY <2>1, <2>2 DEF Plans
  <2>3. CASE plan' = [plan EXCEPT !.put = @ \ {v}]
    BY <2>1, <2>3 DEF Plans
  <2> QED
    BY <2>2, <2>3
<1>3. \A w \in Version : Holds(w)' \in {{}, Holds(w), plan.claims[w]}
  BY <1>1 DEF Holds
<1> QED
  BY <1>2, <1>3 DEF Stores

LEMMA WorkerOnChildren ==
  ASSUME TypeOK, ~astray', Worker
  PROVE  \/ PlanRollout \/ Begins \/ Ends \/ Stores \/ Calm
         \/ \E c \in Child : Applies(c)
<1>1. ASSUME NEW failed, EndSync(failed), UNCHANGED <<revs, children, updating>> PROVE Ends
  BY <1>1 DEF EndSync, Ends
<1>2. ASSUME BeginSync PROVE Begins
  <2>1. /\ pc = "idle" /\ pc' = "observed" /\ snap'.obs = cChildren
        /\ UNCHANGED <<revs, children, updating>>
    BY <1>2 DEF BeginSync, store
  <2>2. astray' = (astray \/ cChildren # Copies(children))
    BY <1>2 DEF BeginSync
  <2>3. cChildren = Copies(children)
    BY <2>2
  <2> QED
    BY <2>1, <2>3 DEF Begins
<1>3. PlanPanics => Ends
  BY <1>1 DEF PlanPanics, Restart, store
<1>4. FinishSync => Ends
  BY <1>1 DEF FinishSync
<1>5. ASSUME NEW v \in Version, DeleteRevision(v) PROVE Ends \/ Stores
  <2>1. CASE EndSync(TRUE) /\ UNCHANGED <<revs, cRevs>>
    BY <1>1, <1>5, <2>1 DEF DeleteRevision
  <2>2. CASE /\ WriteRevision(v, None)
             /\ plan' = [plan EXCEPT !.del = @ \ {v}]
             /\ UNCHANGED <<queued, pc, snap, astray>>
    BY <1>5, <2>2, WriteStores DEF DeleteRevision
  <2> QED
    BY <1>5, <2>1, <2>2 DEF DeleteRevision
<1>6. ASSUME NEW v \in Version, PutRevision(v) PROVE Ends \/ Stores
  <2>1. CASE EndSync(TRUE) /\ UNCHANGED <<revs, cRevs>>
    BY <1>1, <1>6, <2>1 DEF PutRevision
  <2>2. CASE /\ WriteRevision(v, plan.claims[v])
             /\ plan' = [plan EXCEPT !.put = @ \ {v}]
             /\ UNCHANGED <<queued, pc, snap, astray>>
    BY <1>6, <2>2, WriteStores DEF PutRevision
  <2> QED
    BY <1>6, <2>1, <2>2 DEF PutRevision
<1> QED
  BY <1>2, <1>3, <1>4, <1>5, <1>6, DeleteIsCalm, ApplyApplies DEF Worker

LEMMA OnChildren ==
  ASSUME TypeOK, ~astray', [Next]_vars
  PROVE  \/ PlanRollout \/ Begins \/ Ends \/ Stores \/ Calm
         \/ \E c \in Child : Applies(c)
<1>1. ASSUME UNCHANGED <<pc, revs, astray, snap, plan, children, updating>> PROVE Calm
  BY <1>1, UnchangedIsCalm DEF Calm, SameObserved
<1>2. Informers => Calm
  BY <1>1 DEF Informers, ParentEvent, ParentResync, RevisionEvent, ChildEvent,
              sync, store, history
<1>3. ASSUME Faults PROVE Ends \/ Calm
  <2>1. Crash \/ AbortSync => Ends
    BY DEF Crash, AbortSync, Restart, EndSync, Ends, store
  <2>2. ASSUME NEW c \in Child, ChildCallFails(c) PROVE Calm
    <3>1. UNCHANGED <<plan.claims, plan.want>> /\ plan'.todo \subseteq plan.todo
      BY <2>2, TickOffTodo DEF ChildCallFails
    <3>2. UNCHANGED <<pc, revs, astray, snap, children, updating>>
      BY <2>2 DEF ChildCallFails, store, history
    <3> QED
      BY <3>1, <3>2, UnchangedIsCalm, SameObjects DEF Calm
  <2>3. ASSUME NEW c \in Child, ChildBreaks(c) \/ ChildDrained(c) PROVE Calm
    BY <2>3, EnvIsCalm DEF ChildBreaks, ChildDrained, Lag
  <2> QED
    BY <1>3, <2>1, <2>2, <2>3 DEF Faults
<1>4. ASSUME Environment PROVE Calm
  <2>1. ASSUME NEW spec \in ParentSpec, EditParent(spec) PROVE Calm
    BY <1>1, <2>1 DEF EditParent, sync, history
  <2>2. ASSUME NEW c \in Child, ChildSettles(c) PROVE Calm
    <3>1. updating'[c] = None
      BY <2>2 DEF ChildSettles, TypeOK
    <3> QED
      BY <2>2, <3>1, EnvIsCalm DEF ChildSettles, Lag
  <2>3. ASSUME NEW c \in Child, ChildRemoved(c) PROVE Calm
    BY <2>3, EnvIsCalm DEF ChildRemoved, Lag
  <2> QED
    BY <1>4, <2>1, <2>2, <2>3 DEF Environment
<1>5. UNCHANGED vars => Calm
  BY <1>1 DEF vars, store, sync, history
<1> QED
  BY <1>2, <1>3, <1>4, <1>5, WorkerOnChildren DEF Next

-----------------------------------------------------------------------------
(* Every step but a decision keeps at most one child busy. *)

LEMMA BusyTypes ==
  /\ Paced \subseteq AlwaysAsked /\ AlwaysAsked \subseteq RollingChild
  /\ RollingChild \subseteq Child
  /\ None \notin Version
BY ConstantsAssumption DEF Paced, AlwaysAsked, RollingChild

LEMMA BeginsInv ==
  ASSUME OneInv, Begins
  PROVE  SeenAsIs' /\ TodoDiffers' /\ HealthTells' /\ OneBusyEach'
<1>1. /\ pc' = "observed" /\ snap'.obs = Copies(children)
      /\ UNCHANGED <<revs, children, updating>>
  BY DEF Begins
<1>2. \A c \in Child :
        /\ snap'.obs[c] # None => children[c] # None
        /\ children[c] # None => /\ snap'.obs[c] # None
                                 /\ snap'.obs[c].obj = children[c]
  <2>1. TypeOK
    BY DEF OneInv, RolloutInv
  <2> SUFFICES ASSUME NEW c \in Child
               PROVE  /\ snap'.obs[c] # None => children[c] # None
                      /\ children[c] # None => /\ snap'.obs[c] # None
                                               /\ snap'.obs[c].obj = children[c]
    OBVIOUS
  <2>2. snap'.obs[c] = Copy(children[c])
    BY <1>1, <2>1 DEF TypeOK, Copies
  <2>3. ASSUME children[c] # None
        PROVE  Fresh(children[c]) \in ChildCopy /\ Fresh(children[c]).obj = children[c]
    BY <2>1, <2>3 DEF TypeOK, Fresh, ChildCopy, Lag
  <2> QED
    BY <2>2, <2>3, ConstantsAssumption DEF Copy
<1>3. SeenAsIs' /\ TodoDiffers'
  BY <1>1, <1>2 DEF SeenAsIs, TodoDiffers
<1>4. HealthTells'
  BY <1>1, <1>2, BusyTypes DEF OneInv, HealthTells, Tells
<1>5. OneBusyEach'
  <2>1. \A c \in Child, v \in Version : HasContent(c, v)' => HasContent(c, v)
    BY <1>1, <1>2 DEF HasContent
  <2>2. \A c \in Child, v \in Version : Busy(Holds(v), c, v)' => Busy(Holds(v), c, v)
    BY <1>1, <2>1 DEF Busy, Holds
  <2> QED
    BY <1>1, <2>2, BusyTypes DEF OneInv, OneBusyEach, OneBusy
<1> QED
  BY <1>3, <1>4, <1>5

LEMMA EndsInv ==
  ASSUME OneInv, Ends
  PROVE  SeenAsIs' /\ TodoDiffers' /\ HealthTells' /\ OneBusyEach'
<1>1. pc' = "idle" /\ UNCHANGED <<revs, children, updating>>
  BY DEF Ends
<1>2. SeenAsIs' /\ TodoDiffers' /\ HealthTells'
  BY <1>1 DEF OneInv, SeenAsIs, TodoDiffers, HealthTells, Tells
<1>3. \A c \in Child, v \in Version : Busy(Holds(v), c, v)' => Busy(Holds(v), c, v)
  BY <1>1 DEF Busy, HasContent, Holds
<1>4. OneBusyEach'
  BY <1>1, <1>3, BusyTypes DEF OneInv, OneBusyEach, OneBusy
<1> QED
  BY <1>2, <1>4

LEMMA StoresInv ==
  ASSUME OneInv, Stores
  PROVE  SeenAsIs' /\ TodoDiffers' /\ HealthTells' /\ OneBusyEach'
<1>1. /\ pc = "planned"
      /\ UNCHANGED <<pc, snap, astray, children, updating>>
      /\ UNCHANGED <<plan.claims, plan.want, plan.todo>>
      /\ \A v \in Version : Holds(v)' \in {{}, Holds(v), plan.claims[v]}
  BY DEF Stores
<1>2. SeenAsIs' /\ TodoDiffers' /\ HealthTells'
  BY <1>1 DEF OneInv, SeenAsIs, TodoDiffers, HealthTells, Tells
<1>3. OneBusyEach'
  <2> SUFFICES ASSUME NEW v \in Version
               PROVE  OneBusy(Holds(v), v)' /\ OneBusy(plan.claims[v], v)'
    BY <1>1 DEF OneBusyEach
  <2>1. OneBusy(Holds(v), v) /\ OneBusy(plan.claims[v], v)
    BY <1>1 DEF OneInv, OneBusyEach
  <2>2. \A c \in Child : Busy(plan.claims[v], c, v)' => Busy(plan.claims[v], c, v)
    BY <1>1 DEF Busy, HasContent
  <2>3. CASE Holds(v)' \subseteq Holds(v)
    <3>1. \A c \in Child : Busy(Holds(v), c, v)' => Busy(Holds(v), c, v)
      BY <1>1, <2>3 DEF Busy, HasContent
    <3> QED
      BY <2>1, <2>2, <3>1, BusyTypes DEF OneBusy
  <2>4. CASE Holds(v)' = plan.claims[v]
    <3>1. \A c \in Child : Busy(Holds(v), c, v)' => Busy(plan.claims[v], c, v)
      BY <1>1, <2>4 DEF Busy, HasContent
    <3> QED
      BY <2>1, <2>2, <3>1, BusyTypes DEF OneBusy
  <2> QED
    BY <1>1, <2>3, <2>4
<1> QED
  BY <1>2, <1>3

LEMMA CalmInv ==
  ASSUME OneInv, Calm
  PROVE  SeenAsIs' /\ TodoDiffers' /\ HealthTells' /\ OneBusyEach'
<1>1. /\ UNCHANGED <<pc, revs, astray>>
      /\ UNCHANGED <<plan.claims, plan.want>>
      /\ plan'.todo \subseteq plan.todo
      /\ \A c \in Child : CalmFor(c)
      /\ \A c \in Child :
           /\ snap'.obs[c] = None <=> snap.obs[c] = None
           /\ snap.obs[c] # None => snap'.obs[c].obj = snap.obs[c].obj
  BY DEF Calm, SameObserved
<1>2. SeenAsIs'
  BY <1>1 DEF OneInv, SeenAsIs, CalmFor
<1>3. TodoDiffers'
  <2>1. plan.todo \subseteq Child
    BY DEF OneInv, RolloutInv, TypeOK, Plans
  <2> QED
    BY <1>1, <2>1 DEF OneInv, TodoDiffers
<1>4. HealthTells'
  <2> SUFFICES ASSUME NEW c \in RollingChild
               PROVE  /\ children'[c] # None => Tells(c, children[c])'
                      /\ pc = "observed" /\ snap'.obs[c] # None => Tells(c, snap.obs[c].obj)'
    BY <1>1 DEF HealthTells
  <2>1. c \in Child /\ CalmFor(c)
    BY <1>1, BusyTypes
  <2>2. ASSUME children'[c] # None PROVE Tells(c, children[c])'
    BY <2>1, <2>2 DEF OneInv, HealthTells, Tells, CalmFor
  <2>3. ASSUME pc = "observed", snap'.obs[c] # None PROVE Tells(c, snap.obs[c].obj)'
    BY <1>1, <2>1, <2>3 DEF OneInv, HealthTells, Tells, CalmFor
  <2> QED
    BY <2>2, <2>3
<1>5. OneBusyEach'
  <2> SUFFICES ASSUME NEW v \in Version
               PROVE  /\ OneBusy(Holds(v), v)'
                      /\ pc = "planned" => OneBusy(plan.claims[v], v)'
    BY <1>1 DEF OneBusyEach
  <2>1. ASSUME NEW c \in Child
        PROVE  /\ updating'[c] = v => updating[c] = v
               /\ children'[c] # None => /\ children[c] # None
                                         /\ children'[c].content = children[c].content
               /\ HasContent(c, v)' => HasContent(c, v)
    BY <1>1, BusyTypes DEF CalmFor, HasContent
  <2>2. \A c \in Child : Busy(plan.claims[v], c, v)' => Busy(plan.claims[v], c, v)
    BY <1>1, <2>1 DEF Busy
  <2>3. \A c \in Child : Busy(Holds(v), c, v)' => Busy(Holds(v), c, v)
    BY <1>1, <2>1 DEF Busy, Holds
  <2> QED
    BY <2>2, <2>3, BusyTypes DEF OneInv, OneBusyEach, OneBusy
<1> QED
  BY <1>2, <1>3, <1>4, <1>5

(* A child is applied at the version that claims it. *)
LEMMA AppliesInv ==
  ASSUME OneInv, NEW c \in Child, Applies(c)
  PROVE  SeenAsIs' /\ TodoDiffers' /\ HealthTells' /\ OneBusyEach'
<1> DEFINE want == plan.want[c]
<1>1. /\ pc = "planned" /\ c \in plan.todo
      /\ UNCHANGED <<pc, revs, astray>>
      /\ UNCHANGED <<plan.claims, plan.want>>
      /\ plan'.todo = plan.todo \ {c}
      /\ \A d \in Child :
           /\ snap'.obs[d] = None <=> snap.obs[d] = None
           /\ snap.obs[d] # None => snap'.obs[d].obj = snap.obs[d].obj
  BY DEF Applies, RevisionsCommitted, SameObserved
<1>2. TypeOK
  BY DEF OneInv, RolloutInv
<1>3. plan.todo \subseteq Child /\ (children[c] # None => children[c] \in Object)
  BY <1>2 DEF TypeOK, Plans
<1>4. \A d \in Child \ {c} : children'[d] = children[d] /\ updating'[d] = updating[d]
  BY <1>2 DEF Applies, CreateChild, RecreateChild, UpdateChild, WriteChild, TypeOK
<1>5. children[c] # None => children[c].content # Template[want][c]
  BY <1>1 DEF OneInv, SeenAsIs, TodoDiffers
<1>6. \/ /\ children[c] = None
         /\ children'[c].content = Template[want][c] /\ children'[c].health = "bad"
         /\ updating'[c] = None \/ (updating'[c] = want /\ updating[c] = want)
      \/ /\ children[c] # None /\ updating'[c] = want
         /\ children'[c].content = children[c].content
         /\ children'[c].health = children[c].health
      \/ /\ children[c] # None /\ updating'[c] = want
         /\ children'[c].content = Template[want][c]
         /\ children'[c].health \in {"bad", "stale"}
         /\ Method[KindOf[c]] \in {"InPlace", "RollingInPlace"}
  <2>1. CASE CreateChild(c)
    <3>1. /\ children[c] = None
          /\ children'[c] = [content |-> Template[want][c], health |-> "bad", deleting |-> FALSE]
      BY <1>2, <2>1 DEF CreateChild, CanCreate, WriteChild, TypeOK
    <3>2. updating'[c] = IF updating[c] = want THEN updating[c] ELSE None
      BY <1>2, <2>1 DEF CreateChild, TypeOK
    <3> QED
      BY <3>1, <3>2
  <2>2. CASE RecreateChild(c)
    BY <1>2, <1>3, <2>2 DEF RecreateChild, CanRecreate, WriteChild, TypeOK, Object
  <2>3. CASE UpdateChild(c)
    BY <1>2, <1>3, <2>3 DEF UpdateChild, CanUpdate, WriteChild, TypeOK, Object
  <2> QED
    BY <2>1, <2>2, <2>3 DEF Applies
<1>7. SeenAsIs' /\ TodoDiffers'
  BY <1>1, <1>3, <1>4 DEF OneInv, SeenAsIs, TodoDiffers
<1>8. HealthTells'
  <2> SUFFICES ASSUME NEW d \in RollingChild, children'[d] # None
               PROVE  Tells(d, children[d])'
    BY <1>1 DEF HealthTells
  <2>1. CASE d # c
    BY <1>4, <2>1, BusyTypes DEF OneInv, HealthTells, Tells
  <2>2. CASE d = c
    <3>1. Method[KindOf[c]] # "InPlace"
      BY <2>2 DEF RollingChild, IsRolling
    <3>2. children[c] # None => Tells(c, children[c])
      BY <2>2 DEF OneInv, HealthTells
    <3> QED
      BY <1>5, <1>6, <2>2, <3>1, <3>2 DEF Tells
  <2> QED
    BY <2>1, <2>2
<1>9. OneBusyEach'
  <2> SUFFICES ASSUME NEW v \in Version
               PROVE  OneBusy(Holds(v), v)' /\ OneBusy(plan.claims[v], v)'
    BY <1>1 DEF OneBusyEach
  <2>1. Holds(v) = plan.claims[v] /\ Holds(v)' = Holds(v)
    BY <1>1 DEF Applies, RevisionsCommitted, OneInv, RolloutInv, ClaimsInv, AllSeen,
                StoredAsPlanned, Trusted, Holds
  <2>2. OneBusy(plan.claims[v], v)
    BY <1>1 DEF OneInv, OneBusyEach
  <2>3. \A d \in Child \ {c} : Busy(plan.claims[v], d, v)' => Busy(plan.claims[v], d, v)
    BY <1>1, <1>4 DEF Busy, HasContent
  <2>4. ASSUME c \in Paced, Busy(plan.claims[v], c, v)'
        PROVE  Busy(plan.claims[v], c, v)
    <3>1. c \in plan.claims[want] /\ want \in Version
      BY <1>1, <1>2, <2>4, AlwaysDesired DEF OneInv, RolloutInv, PlanEntitles, Entitled
    <3>2. c \in plan.claims[v] => v = want
      BY <1>1, <3>1 DEF OneInv, RolloutInv, ClaimsInv, ClaimsDisjoint, PlannedDisjoint
    <3>3. None \notin Version
      BY ConstantsAssumption
    <3> QED
      BY <1>1, <1>5, <1>6, <2>4, <3>1, <3>2, <3>3 DEF Busy, HasContent
  <2>5. OneBusy(plan.claims[v], v)'
    BY <2>2, <2>3, <2>4, BusyTypes DEF OneBusy
  <2> QED
    BY <1>1, <2>1, <2>5
<1> QED
  BY <1>7, <1>8, <1>9

-----------------------------------------------------------------------------
(* A decision moves a child to the latest revision only if none is busy.     *)

LEMMA MovedContinues ==
  ASSUME NEW list, NEW outcome \in RollingUpdates(list)
  PROVE  \/ outcome.claims = FirstPass(list)
         \/ \E m \in Pending(list) :
              /\ outcome.claims = MoveOne(FirstPass(list), m)
              /\ \A c \in FirstPass(list)[1] : ~WaitsFor(c)
<1>1. \/ outcome = Outcome(FirstPass(list), "OnLatestRevision")
      \/ outcome = Outcome(FirstPass(list), "RolloutWaiting")
      \/ \E m \in Pending(list) :
           /\ outcome = Outcome(MoveOne(FirstPass(list), m), "RolloutProgressing")
           /\ \A c \in FirstPass(list)[1] : ~WaitsFor(c)
  BY Zenon DEF RollingUpdates
<1> QED
  BY <1>1 DEF Outcome

(* A child that a revision claims, or that moves for free, is the latest's   *)
(* after the first pass if it would not change.                              *)
LEMMA NoOpsInFirstPass ==
  ASSUME TypeOK, NEW list \in Lists, ClaimedOnce(list), NEW i \in DOMAIN list,
         NEW c \in ClaimsOf(list[i]) \intersect RollingChild \intersect Desired, IsNoOp(c)
  PROVE  c \in FirstPass(list)[1]
<1>1. /\ 1 \in DOMAIN list /\ DOMAIN list \subseteq Nat
      /\ \A j \in DOMAIN list : j > 1 <=> j # 1
  BY ListIndices, ListFacts
<1>2. Accepts(list, i, c)
  BY <1>1, OnlyClaimAccepted, SnapTypes DEF ClaimedOnce
<1>3. CASE i = 1
  <2>1. c \in SyncRevisionClaims(list, 1)
    BY <1>2, <1>3, SnapTypes DEF SyncRevisionClaims
  <2> QED
    BY <1>1, <2>1 DEF FirstPass
<1>4. CASE i # 1
  <2>1. c \in MovesForFree(list)
    BY <1>1, <1>2, <1>4 DEF MovesForFree
  <2> QED
    BY <1>1, <2>1 DEF FirstPass
<1> QED
  BY <1>3, <1>4

(* A claim that is stored is that of a revision of the list. *)
LEMMA ClaimedIsListed ==
  ASSUME TypeOK, cRevs = Copies(revs), NEW list \in Lists, NEW c \in Child, Claimed(c)
  PROVE  \E i \in DOMAIN list : c \in ClaimsOf(list[i])
<1>1. PICK v \in Version : revs[v] # None /\ c \in revs[v]
  BY DEF Claimed
<1>2. v \in ObservedRevisions /\ ClaimsOf(v) = revs[v]
  BY <1>1, ClaimsAreStored DEF Holds
<1> QED
  BY <1>1, <1>2, ListNamesObserved

(* What the latest revision did not claim before keeps it as busy as it was, *)
(* but for the child that the sync moves.                                    *)
LEMMA FirstPassBusy ==
  ASSUME OneInv, pc = "observed", cRevs = Copies(revs),
         NEW list \in Lists, ClaimedOnce(list),
         NEW c \in Paced, c \notin ClaimsOf(Latest),
         c \in Unclaimed(list) \/ c \in MovesForFree(list),
         \/ updating[c] = Latest
         \/ children[c] # None /\ children[c].content # Template[Latest][c]
  PROVE  updating[c] = Latest /\ HasContent(c, Latest)
<1>1. TypeOK
  BY DEF OneInv, RolloutInv
<1>2. c \in Child /\ c \in Desired \intersect RollingChild
  BY <1>1, AlwaysDesired, BusyTypes
<1>3. updating[c] # None \/ children[c] # None
  BY <1>1, SnapTypes, ConstantsAssumption
<1>4. Claimed(c)
  BY <1>3, BusyTypes DEF OneInv, RolloutInv, ClaimsInv, StaysClaimed
<1>5. PICK i \in DOMAIN list : c \in ClaimsOf(list[i])
  BY <1>1, <1>2, <1>4, ClaimedIsListed
<1>6. Accepts(list, i, c)
  <2>1. i \in Nat
    BY <1>1, ListFacts
  <2> QED
    BY <1>2, <1>5, <2>1, OnlyClaimAccepted DEF ClaimedOnce
<1>7. IsNoOp(c)
  BY <1>6 DEF Unclaimed, MovesForFree
<1>8. snap.obs[c] # None /\ snap.obs[c].obj.content = Template[Latest][c]
  BY <1>7 DEF IsNoOp
<1>9. children[c] # None => children[c].content = Template[Latest][c]
  BY <1>2, <1>8 DEF OneInv, SeenAsIs
<1> QED
  BY <1>8, <1>9 DEF HasContent

(* What is seen to be settled at the latest version is not updated to it. *)
LEMMA SettledIsFree ==
  ASSUME OneInv, pc = "observed", NEW c \in Paced, ~WaitsFor(c)
  PROVE  /\ updating[c] # Latest
         /\ children[c] # None => children[c].content = Template[Latest][c]
<1>1. TypeOK
  BY DEF OneInv, RolloutInv
<1>2. c \in Child /\ c \in Desired /\ c \in RollingChild
  BY <1>1, AlwaysDesired, BusyTypes
<1>3. /\ snap.obs[c] # None /\ snap.obs[c].obj.content = Template[Latest][c]
      /\ Healthy(c)
  BY <1>2 DEF WaitsFor, IsObserved, IsNoOp
<1>4. Tells(c, snap.obs[c].obj)
  BY <1>2, <1>3 DEF OneInv, HealthTells
<1>5. snap.obs[c].obj.health = "good"
  BY <1>3, <1>4 DEF Healthy, Tells, Paced
<1>6. Latest # None
  BY <1>1, SnapTypes, ConstantsAssumption
<1> QED
  BY <1>2, <1>3, <1>4, <1>5, <1>6 DEF Tells, OneInv, SeenAsIs

LEMMA PlannedOthers ==
  ASSUME TypeOK, SameCopies, cRevs = Copies(revs),
         NEW list \in Lists, NEW outcome \in RollingUpdates(list), NEW want,
         plan' = PlanFor(list, outcome, want), NEW v \in Version \ {Latest}
  PROVE  plan'.claims[v] \subseteq Holds(v)
<1> SUFFICES ASSUME NEW c \in plan'.claims[v] PROVE c \in Holds(v)
  OBVIOUS
<1>1. PICK i \in DOMAIN list : list[i] = v /\ c \in outcome.claims[i]
  BY PlannedClaims
<1>2. i # 1
  BY <1>1, ListIndices
<1>3. c \in ClaimsOf(v)
  BY <1>1, <1>2, OthersClaims
<1> QED
  BY <1>3, ClaimsAreStored

LEMMA DecidesOneBusy ==
  ASSUME OneInv, pc = "observed", cRevs = Copies(revs),
         NEW list \in Lists, ClaimedOnce(list), NEW outcome \in RollingUpdates(list),
         NEW claims, claims = outcome.claims[1] \intersect Child
  PROVE  OneBusy(claims, Latest)
<1>1. TypeOK
  BY DEF OneInv, RolloutInv
<1>2. /\ 1 \in DOMAIN list /\ list[1] = Latest /\ Latest \in Version
      /\ Paced \subseteq Child
      /\ ClaimsOf(Latest) = Holds(Latest)
  BY <1>1, ListIndices, SnapTypes, BusyTypes, ClaimsAreStored
<1>3. OneBusy(Holds(Latest), Latest)
  BY <1>2 DEF OneInv, OneBusyEach
<1>4. ASSUME NEW c \in Paced, Busy(claims, c, Latest),
             ~Busy(Holds(Latest), c, Latest)
      PROVE  c \in outcome.claims[1] \ FirstPass(list)[1]
  <2>1. c \in claims /\ c \notin Holds(Latest)
    BY <1>4 DEF Busy
  <2>2. \/ updating[c] = Latest
        \/ children[c] # None /\ children[c].content # Template[Latest][c]
    BY <1>4 DEF Busy
  <2>3. ~(updating[c] = Latest /\ HasContent(c, Latest))
    BY <1>4 DEF Busy
  <2>4. ~(c \in Unclaimed(list) \/ c \in MovesForFree(list))
    BY <1>2, <2>1, <2>2, <2>3, FirstPassBusy
  <2> QED
    BY <1>2, <2>1, <2>4 DEF FirstPass, SyncRevisionClaims
<1>5. ASSUME NEW m \in outcome.claims[1] \ FirstPass(list)[1],
             NEW c \in Paced, Busy(claims, c, Latest)
      PROVE  c = m
  <2> SUFFICES ASSUME c # m PROVE FALSE
    OBVIOUS
  <2>1. /\ outcome.claims = MoveOne(FirstPass(list), m)
        /\ \A d \in FirstPass(list)[1] : ~WaitsFor(d)
    <3>1. PICK n \in Pending(list) :
            /\ outcome.claims = MoveOne(FirstPass(list), n)
            /\ \A d \in FirstPass(list)[1] : ~WaitsFor(d)
      BY <1>5, MovedContinues
    <3>2. n = m
      BY <1>2, <1>5, <3>1 DEF MoveOne, FirstPass
    <3> QED
      BY <3>1, <3>2
  <2>2. CASE c \in FirstPass(list)[1]
    BY <1>5, <2>1, <2>2, SettledIsFree DEF Busy
  <2>3. CASE c \notin FirstPass(list)[1]
    <3>1. c \notin claims
      BY <1>2, <2>1, <2>3 DEF MoveOne, FirstPass
    <3>2. updating[c] = Latest /\ HasContent(c, Latest)
      BY <1>5, <3>1 DEF Busy
    <3>3. IsNoOp(c)
      BY <1>2, <3>2 DEF HasContent, IsNoOp, OneInv, SeenAsIs
    <3>4. Claimed(c)
      BY <1>2, <3>2, BusyTypes, ConstantsAssumption DEF OneInv, RolloutInv, ClaimsInv, StaysClaimed
    <3>5. PICK i \in DOMAIN list : c \in ClaimsOf(list[i])
      BY <1>1, <1>2, <3>4, ClaimedIsListed
    <3> QED
      BY <1>1, <2>3, <3>3, <3>5, AlwaysDesired, NoOpsInFirstPass
  <2> QED
    BY <2>2, <2>3
<1>6. CASE \A c \in Paced : Busy(claims, c, Latest) => Busy(Holds(Latest), c, Latest)
  BY <1>3, <1>6 DEF OneBusy
<1>7. ASSUME NEW m \in Paced, Busy(claims, m, Latest), ~Busy(Holds(Latest), m, Latest)
      PROVE  OneBusy(claims, Latest)
  <2>1. m \in outcome.claims[1] \ FirstPass(list)[1]
    BY <1>4, <1>7
  <2> QED
    BY <1>5, <2>1 DEF OneBusy
<1> QED
  BY <1>6, <1>7

LEMMA PlanDecisionInv ==
  ASSUME OneInv, PlanRollout, ~astray'
  PROVE  SeenAsIs' /\ TodoDiffers' /\ HealthTells' /\ OneBusyEach'
<1>1. TypeOK
  BY DEF OneInv, RolloutInv
<1>2. /\ pc = "observed" /\ pc' = "planned" /\ cRevs = Copies(revs)
      /\ UNCHANGED <<revs, children, snap, updating>>
  BY <1>1, ReadAsStored DEF PlanRollout, store
<1>3. HealthTells'
  BY <1>2 DEF OneInv, HealthTells, Tells
<1>4. \A c \in Child, v \in Version : HasContent(c, v)' => HasContent(c, v)
  BY <1>2 DEF HasContent
<1>5. ASSUME NEW want, plan'.todo = ToApply(want), plan'.want = Wanted(want)
      PROVE  SeenAsIs' /\ TodoDiffers'
  <2>1. SeenAsIs'
    BY <1>2, <1>5 DEF OneInv, SeenAsIs
  <2>2. ASSUME NEW c \in ToApply(want), snap.obs[c] # None
        PROVE  snap.obs[c].obj.content # Template[Wanted(want)[c]][c]
    BY <1>1, <2>2, SnapTypes DEF ToApply, Differs, Wanted
  <2> QED
    BY <1>2, <1>5, <2>1, <2>2 DEF TodoDiffers
<1>6. CASE ~AnyRolling
  <2>1. plan' = PlanLatestOnly
    BY <1>6 DEF PlanRollout
  <2>2. SeenAsIs' /\ TodoDiffers'
    BY <1>5, <2>1 DEF PlanLatestOnly, NoPlan
  <2>3. Paced = {}
    BY <1>6, ConstantsAssumption DEF Paced, AlwaysAsked, RollingChild, AnyRolling
  <2> QED
    BY <1>3, <2>2, <2>3 DEF OneBusyEach, OneBusy
<1>7. ASSUME NEW list \in Lists, NEW outcome \in RollingUpdates(list),
             NEW want \in DesiredVersions(list, outcome.claims),
             plan' = PlanFor(list, outcome, want)
      PROVE  SeenAsIs' /\ TodoDiffers' /\ OneBusyEach'
  <2>1. SeenAsIs' /\ TodoDiffers'
    BY <1>5, <1>7 DEF PlanFor
  <2>2. OneBusyEach'
    <3> SUFFICES ASSUME NEW v \in Version
                 PROVE  OneBusy(Holds(v), v)' /\ OneBusy(plan.claims[v], v)'
      BY <1>2 DEF OneBusyEach
    <3>1. OneBusy(Holds(v), v)
      BY DEF OneInv, OneBusyEach
    <3>2. OneBusy(Holds(v), v)'
      <4>1. \A c \in Child : Busy(Holds(v), c, v)' => Busy(Holds(v), c, v)
        BY <1>2, <1>4 DEF Busy, Holds
      <4> QED
        BY <3>1, <4>1, BusyTypes DEF OneBusy
    <3>3. OneBusy(plan'.claims[v], v)
      <4>1. ClaimedOnce(list)
        BY <1>1, <1>2, ListClaimsOnce DEF OneInv, RolloutInv, ClaimsInv
      <4>2. CASE v = Latest
        BY <1>1, <1>2, <1>7, <4>1, <4>2, PlannedForLatest, DecidesOneBusy
      <4>3. CASE v # Latest
        <5>1. plan'.claims[v] \subseteq Holds(v)
          BY <1>1, <1>2, <1>7, <4>3, PlannedOthers DEF OneInv, RolloutInv
        <5>2. \A c \in Child : Busy(plan'.claims[v], c, v) => Busy(Holds(v), c, v)
          BY <5>1 DEF Busy
        <5> QED
          BY <3>1, <5>2, BusyTypes DEF OneBusy
      <4> QED
        BY <4>2, <4>3
    <3>4. OneBusy(plan.claims[v], v)'
      <4>1. \A c \in Child : Busy(plan.claims[v], c, v)' => Busy(plan'.claims[v], c, v)
        BY <1>2, <1>4 DEF Busy
      <4> QED
        BY <3>3, <4>1, BusyTypes DEF OneBusy
    <3> QED
      BY <3>2, <3>4
  <2> QED
    BY <2>1, <2>2
<1>8. CASE AnyRolling
  <2>1. PICK list \in Lists :
          \E outcome \in RollingUpdates(list) :
            \E want \in DesiredVersions(list, outcome.claims) :
              plan' = PlanFor(list, outcome, want)
    BY <1>8 DEF PlanRollout
  <2>2. PICK outcome \in RollingUpdates(list) :
          \E want \in DesiredVersions(list, outcome.claims) :
            plan' = PlanFor(list, outcome, want)
    BY <2>1
  <2> QED
    BY <1>3, <1>7, <2>2
<1> QED
  BY <1>6, <1>8

-----------------------------------------------------------------------------
(* The invariant and what follows from it. *)

LEMMA InitOne == Init => OneInv
<1> SUFFICES ASSUME Init PROVE OneInv
  OBVIOUS
<1>1. /\ pc = "idle" /\ children = [c \in Child |-> None]
      /\ updating = [c \in Child |-> None]
  BY DEF Init
<1>2. SeenAsIs /\ TodoDiffers
  BY <1>1 DEF SeenAsIs, TodoDiffers
<1>3. HealthTells
  BY <1>1, BusyTypes DEF HealthTells
<1>4. OneBusyEach
  BY <1>1, BusyTypes DEF OneBusyEach, OneBusy, Busy
<1> QED
  BY <1>2, <1>3, <1>4, InitRollout DEF OneInv, Init

LEMMA StaysStraight ==
  ASSUME TypeOK, [Next]_vars, ~astray'
  PROVE  ~astray
BY StepKinds, ReadAsStored DEF SyncOver, GoesOn, Deletes, Puts

LEMMA OneStep ==
  ASSUME OneInv, [Next]_vars, ~astray'
  PROVE  OneInv'
<1>1. RolloutInv'
  BY RolloutStep DEF OneInv
<1>2. \/ PlanRollout \/ Begins \/ Ends \/ Stores \/ Calm
      \/ \E c \in Child : Applies(c)
  BY OnChildren DEF OneInv, RolloutInv
<1>3. SeenAsIs' /\ TodoDiffers' /\ HealthTells' /\ OneBusyEach'
  BY <1>2, PlanDecisionInv, BeginsInv, EndsInv, StoresInv, CalmInv, AppliesInv
<1> QED
  BY <1>1, <1>3 DEF OneInv

(* It holds up to the first sync that goes astray. *)
OneUpToAstray == RolloutInv /\ (~astray => OneInv)

LEMMA OneUpToStep ==
  ASSUME OneUpToAstray, [Next]_vars
  PROVE  OneUpToAstray'
<1>1. RolloutInv'
  BY RolloutStep DEF OneUpToAstray
<1>2. ASSUME ~astray' PROVE OneInv'
  BY <1>2, StaysStraight, OneStep DEF OneUpToAstray, RolloutInv
<1> QED
  BY <1>1, <1>2 DEF OneUpToAstray

LEMMA InvOneAtATime == OneUpToAstray => OneAtATime
<1> SUFFICES ASSUME OneInv, ~astray, NEW v \in Version, revs[v] # None,
                    NEW c \in revs[v] \intersect Paced,
                    NEW d \in revs[v] \intersect Paced,
                    updating[c] = v, updating[d] = v
             PROVE  c = d
  BY DEF OneAtATime, OneUpToAstray
<1>1. Busy(Holds(v), c, v) /\ Busy(Holds(v), d, v)
  BY DEF Busy, Holds
<1>2. OneBusy(Holds(v), v)
  BY DEF OneInv, OneBusyEach
<1> QED
  BY <1>1, <1>2 DEF OneBusy

(* Up to the first sync that reads old copies, or stores its revisions in    *)
(* part, at most one of the children that a revision claims is being updated *)
(* to it at a time, of those that no edit scales away and whose status tells *)
(* its generation: shouldContinueRolling and the order of manageRevisions    *)
(* before ManageChildren see to it, whatever the user edits and whatever     *)
(* else fails.                                                               *)
THEOREM UpdatesOneAtATime == Spec => []OneAtATime
<1>1. OneUpToAstray /\ [Next]_vars => OneUpToAstray'
  BY OneUpToStep
<1>2. Init => OneUpToAstray
  BY InitOne DEF OneInv, OneUpToAstray
<1> QED
  BY <1>1, <1>2, InvOneAtATime, PTL DEF Spec
-----------------------------------------------------------------------------
(* That the rolling update implements RollingUpdate: two more facts about    *)
(* the children, and what the versions own.                                  *)

(* A child that is being updated and is to stay holds what it is updated to. *)
HoldsItsUpdate(c) ==
  children[c] # None /\ updating[c] # None /\ ~children[c].deleting
    => children[c].content = Template[updating[c]][c]

UpdatedHold == \A c \in RollingChild : HoldsItsUpdate(c)

(* What a sync deletes is not asked for. *)
DeletesUnwanted == pc = "planned" => plan.todel \intersect Desired = {}

RollInv ==
  /\ OneInv
  /\ UpdatedHold
  /\ DeletesUnwanted

LEMMA DeletesUnwantedStep ==
  ASSUME TypeOK, DeletesUnwanted, [Next]_vars
  PROVE  DeletesUnwanted'
<1>1. CASE PlanRollout
  <2>1. plan'.todel = ToDelete /\ UNCHANGED snap
    <3>1. ASSUME plan' = PlanLatestOnly PROVE plan'.todel = ToDelete
      BY <3>1 DEF PlanLatestOnly, NoPlan
    <3>2. ASSUME NEW list, NEW outcome, NEW want, plan' = PlanFor(list, outcome, want)
          PROVE  plan'.todel = ToDelete
      BY <3>2 DEF PlanFor
    <3> QED
      BY <1>1, <3>1, <3>2 DEF PlanRollout
  <2> QED
    BY <2>1 DEF ToDelete, DeletesUnwanted, Desired
<1>2. CASE SyncOver
  BY <1>2 DEF SyncOver, DeletesUnwanted
<1>3. CASE GoesOn
  BY <1>3 DEF GoesOn, SameDecision, DeletesUnwanted, Desired
<1>4. ASSUME NEW v \in Version, Deletes(v) \/ Puts(v) PROVE DeletesUnwanted'
  <2>1. plan'.todel = plan.todel /\ UNCHANGED <<pc, snap>>
    BY <1>4 DEF Deletes, Puts, TypeOK, Plans
  <2> QED
    BY <2>1 DEF DeletesUnwanted, Desired
<1> QED
  BY <1>1, <1>2, <1>3, <1>4, StepKinds

LEMMA UpdatedHoldStep ==
  ASSUME TypeOK, TodoIsWanted, UpdatedHold, ~astray', [Next]_vars
  PROVE  UpdatedHold'
<1> SUFFICES ASSUME NEW c \in RollingChild PROVE HoldsItsUpdate(c)'
  BY DEF UpdatedHold, RollingChild
<1>1. c \in Child /\ HoldsItsUpdate(c)
  BY BusyTypes DEF UpdatedHold
<1>2. ASSUME UNCHANGED <<children, updating>> PROVE HoldsItsUpdate(c)'
  BY <1>1, <1>2 DEF HoldsItsUpdate
<1>3. PlanRollout \/ Begins \/ Ends \/ Stores => UNCHANGED <<children, updating>>
  BY DEF PlanRollout, Begins, Ends, Stores, store
<1>4. CASE Calm
  BY <1>1, <1>4 DEF Calm, CalmFor, HoldsItsUpdate
<1>5. ASSUME NEW d \in Child, Applies(d) PROVE HoldsItsUpdate(c)'
  <2>1. /\ d \in plan.todo /\ plan.want[d] \in Version
        /\ CreateChild(d) \/ RecreateChild(d) \/ UpdateChild(d)
    BY <1>5 DEF Applies, TodoIsWanted
  <2>2. CASE d # c
    <3>1. children'[c] = children[c] /\ updating'[c] = updating[c]
      BY <1>1, <2>1, <2>2 DEF CreateChild, RecreateChild, UpdateChild, WriteChild, TypeOK
    <3> QED
      BY <1>1, <3>1 DEF HoldsItsUpdate
  <2>3. CASE d = c
    <3>1. ASSUME CreateChild(c) PROVE HoldsItsUpdate(c)'
      <4>1. /\ children'[c].content = Template[plan.want[c]][c]
            /\ updating'[c] \in {plan.want[c], None}
        BY <1>1, <3>1 DEF CreateChild, WriteChild, TypeOK
      <4> QED
        BY <4>1 DEF HoldsItsUpdate
    <3>2. ASSUME RecreateChild(c) PROVE HoldsItsUpdate(c)'
      <4>1. children'[c] = [children[c] EXCEPT !.deleting = TRUE] /\ children[c] \in Object
        BY <1>1, <3>2 DEF RecreateChild, CanRecreate, WriteChild, TypeOK
      <4> QED
        BY <4>1 DEF HoldsItsUpdate, Object
    <3>3. ASSUME UpdateChild(c) PROVE HoldsItsUpdate(c)'
      <4>1. /\ children'[c].content = Template[plan.want[c]][c]
            /\ updating'[c] = plan.want[c]
        BY <1>1, <3>3 DEF UpdateChild, CanUpdate, WriteChild, TypeOK, Object
      <4> QED
        BY <4>1 DEF HoldsItsUpdate
    <3> QED
      BY <2>1, <2>3, <3>1, <3>2, <3>3
  <2> QED
    BY <2>2, <2>3
<1> QED
  BY <1>2, <1>3, <1>4, <1>5, OnChildren

LEMMA InitRoll == Init => RollInv
<1> SUFFICES ASSUME Init PROVE RollInv
  OBVIOUS
<1>1. UpdatedHold /\ DeletesUnwanted
  BY BusyTypes DEF Init, UpdatedHold, HoldsItsUpdate, DeletesUnwanted
<1> QED
  BY <1>1, InitOne DEF RollInv

LEMMA RollStep ==
  ASSUME RollInv, [Next]_vars, ~astray'
  PROVE  RollInv'
<1>1. TypeOK /\ TodoIsWanted
  BY DEF RollInv, OneInv, RolloutInv
<1>2. OneInv'
  BY OneStep DEF RollInv
<1> QED
  BY <1>1, <1>2, DeletesUnwantedStep, UpdatedHoldStep DEF RollInv

-----------------------------------------------------------------------------
(* The refinement: what the abstract state is, and how steps change it.      *)

ClaimsAsPlanned ==
  \A v \in Version : ClaimsNow(v) = IF pc = "planned" THEN plan.claims[v] ELSE Holds(v)

(* The owner of a child is the one version that claims it. *)
OwnersClaim ==
  \A c \in Child :
    /\ OwnerOf(c) \in Version \union {None}
    /\ \A v \in Version : OwnerOf(c) = v <=> c \in ClaimsNow(v)

LEMMA NowClaimed == ClaimsAsPlanned
<1> SUFFICES ASSUME NEW v \in Version
             PROVE  ClaimsNow(v) = IF pc = "planned" THEN plan.claims[v] ELSE Holds(v)
  BY DEF ClaimsAsPlanned
<1>1. CASE pc = "planned"
  BY <1>1, Zenon DEF ClaimsNow
<1>2. CASE pc # "planned" /\ revs[v] = None
  BY <1>2 DEF ClaimsNow, Holds
<1>3. CASE pc # "planned" /\ revs[v] # None
  BY <1>3 DEF ClaimsNow, Holds
<1> QED
  BY <1>1, <1>2, <1>3

LEMMA OwnersTell == RollInv => OwnersClaim
<1> SUFFICES ASSUME RollInv, NEW c \in Child
             PROVE  /\ OwnerOf(c) \in Version \union {None}
                    /\ \A v \in Version : OwnerOf(c) = v <=> c \in ClaimsNow(v)
  BY DEF OwnersClaim
<1>1. \A v, w \in Version : c \in ClaimsNow(v) /\ c \in ClaimsNow(w) => v = w
  BY NowClaimed DEF ClaimsAsPlanned, RollInv, OneInv, RolloutInv, ClaimsInv,
                    ClaimsDisjoint, StoredDisjoint, PlannedDisjoint
<1>2. CASE \E v \in Version : c \in ClaimsNow(v)
  BY <1>1, <1>2 DEF OwnerOf
<1>3. CASE ~ \E v \in Version : c \in ClaimsNow(v)
  BY <1>3, BusyTypes DEF OwnerOf
<1> QED
  BY <1>2, <1>3

(* The content of a child is what a sync saw that has yet to decide, and     *)
(* what is stored otherwise.                                                 *)
ContentsRead ==
  \A c \in Child :
    /\ pc = "observed" =>
         ContentOf(c) = IF snap.obs[c] = None THEN None ELSE snap.obs[c].obj.content
    /\ pc # "observed" =>
         ContentOf(c) = IF children[c] = None THEN None ELSE children[c].content

LEMMA ReadContents == ContentsRead
<1> SUFFICES ASSUME NEW c \in Child
             PROVE  /\ pc = "observed" =>
                         ContentOf(c) = IF snap.obs[c] = None THEN None
                                        ELSE snap.obs[c].obj.content
                    /\ pc # "observed" =>
                         ContentOf(c) = IF children[c] = None THEN None
                                        ELSE children[c].content
  BY DEF ContentsRead
<1>1. CASE pc = "observed" /\ snap.obs[c] # None
  BY <1>1 DEF ContentOf
<1>2. CASE pc = "observed" /\ snap.obs[c] = None
  BY <1>2 DEF ContentOf
<1>3. CASE pc # "observed" /\ children[c] # None
  BY <1>3 DEF ContentOf
<1>4. CASE pc # "observed" /\ children[c] = None
  BY <1>4 DEF ContentOf
<1> QED
  BY <1>1, <1>2, <1>3, <1>4

(* Only a decision changes what is claimed. *)
LEMMA SameOwners ==
  ASSUME RollInv, RollInv', [Next]_vars, ~PlanRollout
  PROVE  Owners' = Owners
<1>1. TypeOK /\ StoredAsPlanned /\ AllSeen /\ ~astray
  BY DEF RollInv, OneInv, RolloutInv, ClaimsInv
<1>2. ~astray'
  BY DEF RollInv, OneInv
<1>3. ASSUME NEW v \in Version PROVE ClaimsNow(v)' = ClaimsNow(v)
  <2>1. CASE GoesOn
    <3>1. UNCHANGED <<pc, revs, plan.claims>>
      BY <2>1 DEF GoesOn, SameDecision
    <3> QED
      BY <3>1, Zenon DEF ClaimsNow
  <2>2. ASSUME NEW w \in Version, Deletes(w) \/ Puts(w) PROVE ClaimsNow(v)' = ClaimsNow(v)
    <3>1. pc = "planned" /\ pc' = "planned" /\ plan'.claims = plan.claims
      BY <1>1, <2>2 DEF Deletes, Puts, TypeOK, Plans
    <3>2. ClaimsNow(v)' = plan'.claims[v]
      BY <3>1, Zenon DEF ClaimsNow
    <3>3. ClaimsNow(v) = plan.claims[v]
      BY <3>1, Zenon DEF ClaimsNow
    <3> QED
      BY <3>1, <3>2, <3>3
  <2>3. CASE SyncOver
    <3>1. pc' # "planned" /\ UNCHANGED revs /\ (pc = "planned" => RevisionsCommitted)
      BY <1>2, <2>3 DEF SyncOver
    <3>2. ClaimsNow(v)' = Holds(v)
      <4>1. ClaimsAsPlanned'
        BY NowClaimed, PTL
      <4> QED
        BY <3>1, <4>1 DEF ClaimsAsPlanned, Holds
    <3>3. ClaimsNow(v) = Holds(v)
      BY <1>1, <3>1, NowClaimed
         DEF ClaimsAsPlanned, StoredAsPlanned, AllSeen, Trusted, RevisionsCommitted
    <3> QED
      BY <3>2, <3>3
  <2> QED
    BY <1>1, <2>1, <2>2, <2>3, StepKinds
<1>4. OwnersClaim /\ OwnersClaim'
  BY OwnersTell, PTL
<1>5. \A c \in Child : OwnerOf(c)' = OwnerOf(c)
  BY <1>3, <1>4 DEF OwnersClaim
<1> QED
  BY <1>5, BusyTypes DEF Owners

(* What a child that is applied is not changes only by its being gone.       *)
LEMMA ContentStays ==
  ASSUME RollInv, ~astray', [Next]_vars, NEW c \in Child, ~Applies(c)
  PROVE  ContentOf(c)' \in {ContentOf(c), None}
<1>1. TypeOK /\ SeenAsIs
  BY DEF RollInv, OneInv, RolloutInv
<1>2. ContentsRead /\ ContentsRead'
  BY ReadContents, PTL
<1>3. CASE PlanRollout
  <2>1. pc = "observed" /\ pc' = "planned" /\ UNCHANGED children
    BY <1>3 DEF PlanRollout, store
  <2> QED
    BY <1>1, <1>2, <2>1 DEF ContentsRead, SeenAsIs
<1>4. CASE Begins
  <2>1. /\ pc = "idle" /\ pc' = "observed" /\ UNCHANGED children
        /\ snap'.obs[c] = Copy(children[c])
    BY <1>1, <1>4 DEF Begins, Copies, TypeOK
  <2>2. snap'.obs[c] = None \/ (children[c] # None /\ snap'.obs[c].obj = children[c])
    BY <2>1 DEF Copy, Fresh
  <2> QED
    BY <1>2, <2>1, <2>2 DEF ContentsRead
<1>5. CASE Ends
  <2>1. pc' = "idle" /\ UNCHANGED children
    BY <1>5 DEF Ends
  <2> QED
    BY <1>1, <1>2, <2>1 DEF ContentsRead, SeenAsIs
<1>6. CASE Stores
  <2>1. pc = "planned" /\ UNCHANGED <<pc, children>>
    BY <1>6 DEF Stores
  <2> QED
    BY <1>2, <2>1 DEF ContentsRead
<1>7. CASE Calm
  <2>1. UNCHANGED pc /\ SameObserved /\ CalmFor(c)
    BY <1>7 DEF Calm
  <2> QED
    BY <1>2, <2>1 DEF ContentsRead, SameObserved, CalmFor
<1>8. ASSUME NEW d \in Child, Applies(d) PROVE ContentOf(c)' \in {ContentOf(c), None}
  <2>1. pc = "planned" /\ UNCHANGED pc
    BY <1>8 DEF Applies, RevisionsCommitted
  <2>2. d # c
    BY <1>8
  <2>3. children'[c] = children[c]
    BY <1>1, <1>8, <2>2 DEF Applies, CreateChild, RecreateChild, UpdateChild, WriteChild, TypeOK
  <2> QED
    BY <1>2, <2>1, <2>3 DEF ContentsRead
<1> QED
  BY <1>1, <1>3, <1>4, <1>5, <1>6, <1>7, <1>8, OnChildren

LEMMA WhoUpdates ==
  ASSUME TypeOK, DeletesUnwanted, [Next]_vars, NEW c \in Paced,
         updating'[c] # updating[c]
  PROVE  ChildSettles(c) \/ Applies(c)
<1>1. c \in Child /\ c \in Desired
  BY AlwaysDesired, BusyTypes
<1>2. ~UNCHANGED updating
  OBVIOUS
<1>3. CASE Worker
  <2>1. ~(BeginSync \/ PlanRollout \/ PlanPanics \/ FinishSync)
    BY <1>2 DEF BeginSync, PlanRollout, PlanPanics, FinishSync, Restart
  <2>2. \A v \in Version : ~(DeleteRevision(v) \/ PutRevision(v))
    BY <1>2, Zenon DEF DeleteRevision, PutRevision
  <2>3. ASSUME NEW d \in Child, DeleteChild(d) PROVE FALSE
    <3>1. pc = "planned" /\ d \in plan.todel /\ updating' = [updating EXCEPT ![d] = None]
      BY <1>2, <2>3, Zenon DEF DeleteChild, RevisionsCommitted
    <3>2. d # c
      BY <1>1, <3>1 DEF DeletesUnwanted
    <3> QED
      BY <1>1, <3>1, <3>2 DEF TypeOK
  <2>4. ASSUME NEW d \in Child, ApplyChild(d) PROVE Applies(c)
    <3>1. Applies(d)
      BY <1>2, <2>4, ApplyApplies
    <3>2. d = c
      BY <1>1, <3>1 DEF Applies, CreateChild, RecreateChild, UpdateChild, TypeOK
    <3> QED
      BY <3>1, <3>2
  <2> QED
    BY <1>3, <2>1, <2>2, <2>3, <2>4 DEF Worker
<1>4. ~Informers
  BY <1>2 DEF Informers, ParentEvent, ParentResync, RevisionEvent, ChildEvent, history
<1>5. ~Faults
  BY <1>2 DEF Faults, Crash, AbortSync, Restart, ChildCallFails, ChildBreaks, ChildDrained,
              history
<1>6. CASE Environment
  <2>1. \A spec \in ParentSpec : ~EditParent(spec)
    BY <1>2 DEF EditParent, history
  <2>2. \A d \in Child : ~ChildRemoved(d)
    BY <1>2 DEF ChildRemoved
  <2>3. ASSUME NEW d \in Child, ChildSettles(d) PROVE d = c
    BY <1>1, <2>3 DEF ChildSettles, TypeOK
  <2> QED
    BY <1>6, <2>1, <2>2, <2>3 DEF Environment
<1>7. ~UNCHANGED vars
  BY <1>2 DEF vars, history
<1> QED
  BY <1>3, <1>4, <1>5, <1>6, <1>7 DEF Next

LEMMA VanishSome ==
  ASSUME \A c \in Paced : ContentOf(c)' \in {ContentOf(c), None}
  PROVE  Rolls!MayVanish
<1> DEFINE gone == {c \in Paced : ContentOf(c)' = None}
<1>1. Contents' = [c \in Paced |-> IF c \in gone THEN None ELSE Contents[c]]
  BY DEF Contents
<1>2. gone \in SUBSET Paced
  OBVIOUS
<1> HIDE DEF gone
<1> QED
  BY <1>1, <1>2 DEF Rolls!MayVanish

(* A step that decides nothing, applies no child and settles none.           *)
LEMMA VanishOnly ==
  ASSUME RollInv, RollInv', [Next]_vars, ~PlanRollout,
         \A c \in Paced : ~Applies(c) /\ updating'[c] = updating[c]
  PROVE  Rolls!Vanish
<1>1. Rolls!MayVanish
  BY ContentStays, BusyTypes, VanishSome DEF RollInv, OneInv
<1>2. Movings' = Movings
  BY DEF Movings
<1> QED
  BY <1>1, <1>2, SameOwners DEF Rolls!Vanish

LEMMA MovesOne ==
  ASSUME TypeOK, NEW c \in Paced, NEW v, updating' = [updating EXCEPT ![c] = v]
  PROVE  /\ Movings[c] = updating[c]
         /\ Movings' = [Movings EXCEPT ![c] = v]
<1>1. Movings[c] = updating[c] /\ Movings = [d \in Paced |-> updating[d]]
  BY DEF Movings
<1>2. Movings' = [d \in Paced |-> updating'[d]]
  BY DEF Movings
<1>3. \A d \in Paced : updating'[d] = IF d = c THEN v ELSE updating[d]
  BY BusyTypes DEF TypeOK
<1> QED
  BY <1>1, <1>2, <1>3

LEMMA SettlesOne ==
  ASSUME RollInv, RollInv', [Next]_vars,
         NEW c \in Paced, ChildSettles(c), updating'[c] # updating[c]
  PROVE  Rolls!Settle(c)
<1>1. TypeOK /\ SeenAsIs /\ HoldsItsUpdate(c) /\ c \in Child
  BY BusyTypes DEF RollInv, OneInv, RolloutInv, UpdatedHold
<1>2. /\ updating[c] # None /\ updating' = [updating EXCEPT ![c] = None]
      /\ children[c] # None /\ ~children[c].deleting
  BY <1>1 DEF ChildSettles, TypeOK
<1>3. ContentsRead /\ ContentsRead'
  BY ReadContents, PTL
<1>4. UNCHANGED pc /\ SameObserved
  <2>1. \A d \in Child : updating[d] = None => updating'[d] = None
    BY <1>1, <1>2 DEF TypeOK
  <2>2. GoesOn
    BY <1>1, <1>2, <2>1, EnvGoesOn DEF ChildSettles, Lag
  <2> QED
    BY <2>2 DEF GoesOn
<1>5. ~PlanRollout
  BY <1>4 DEF PlanRollout
<1>6. \A d \in Child : /\ children'[d] = None <=> children[d] = None
                       /\ children[d] # None => children'[d].content = children[d].content
  <2>1. children' = [children EXCEPT ![c] = [children[c] EXCEPT !.health = "good"]]
    BY DEF ChildSettles, EnvWritesChild, WriteChild
  <2>2. children[c] \in Object
    BY <1>1, <1>2 DEF TypeOK
  <2>3. [children[c] EXCEPT !.health = "good"] # None
    BY <2>2, ConstantsAssumption DEF Object, Health
  <2> QED
    BY <1>1, <1>2, <2>1, <2>2, <2>3 DEF TypeOK, Object
<1>7. Contents' = Contents
  <2>1. \A d \in Child : ContentOf(d)' = ContentOf(d)
    BY <1>3, <1>4, <1>6 DEF ContentsRead, SameObserved
  <2> QED
    BY <2>1, BusyTypes DEF Contents
<1>8. Contents[c] = Template[Movings[c]][c]
  <2>1. ContentOf(c) = children[c].content
    BY <1>1, <1>2, <1>3 DEF ContentsRead, SeenAsIs
  <2> QED
    BY <1>1, <1>2, <2>1 DEF Contents, Movings, HoldsItsUpdate
<1>9. Movings[c] # None /\ Movings' = [Movings EXCEPT ![c] = None]
  BY <1>1, <1>2, MovesOne
<1> QED
  BY <1>5, <1>7, <1>8, <1>9, SameOwners DEF Rolls!Settle

LEMMA AppliesOne ==
  ASSUME RollInv, RollInv', [Next]_vars,
         NEW c \in Paced, Applies(c)
  PROVE  Rolls!Update(c) \/ Rolls!Create(c)
<1> DEFINE v == plan.want[c]
<1>1. /\ TypeOK /\ PlanEntitles /\ SeenAsIs /\ TodoDiffers
      /\ c \in Child /\ c \in Desired \intersect RollingChild
  BY BusyTypes, AlwaysDesired DEF RollInv, OneInv, RolloutInv
<1>2. /\ pc = "planned" /\ UNCHANGED pc /\ c \in plan.todo
      /\ CreateChild(c) \/ RecreateChild(c) \/ UpdateChild(c)
  BY DEF Applies, RevisionsCommitted
<1>4. v \in Version /\ c \in plan.claims[v]
  BY <1>1, <1>2 DEF PlanEntitles, Entitled
<1>5. OwnerOf(c) = v
  <2>1. c \in ClaimsNow(v)
    BY <1>2, <1>4, NowClaimed DEF ClaimsAsPlanned
  <2> QED
    BY <1>1, <1>4, <2>1, OwnersTell DEF OwnersClaim
<1>6. Owners[c] = v /\ v # None /\ Owners' = Owners
  <2>1. ~PlanRollout
    BY <1>2 DEF PlanRollout
  <2> QED
    BY <1>4, <1>5, <2>1, SameOwners, BusyTypes DEF Owners
<1> HIDE DEF v
<1>7. ContentsRead /\ ContentsRead'
  BY ReadContents, PTL
<1>8. Contents[c] = IF children[c] = None THEN None ELSE children[c].content
  BY <1>1, <1>2, <1>7 DEF ContentsRead, Contents
<1>9. \A d \in Paced \ {c} : Contents'[d] = Contents[d]
  <2>1. \A d \in Child \ {c} : children'[d] = children[d]
    BY <1>1, <1>2 DEF CreateChild, RecreateChild, UpdateChild, WriteChild, TypeOK
  <2> QED
    BY <1>2, <1>7, <2>1, BusyTypes DEF ContentsRead, Contents
<1>10. Contents'[c] = IF children'[c] = None THEN None ELSE children'[c].content
  BY <1>1, <1>2, <1>7 DEF ContentsRead, Contents
<1>11. /\ DOMAIN Contents = Paced /\ Contents = [d \in Paced |-> Contents[d]]
       /\ Contents' = [d \in Paced |-> Contents'[d]]
  BY DEF Contents
<1>12. Template[v][c] # None /\ Template[v][c] \in Content
  BY <1>1, <1>4, ConstantsAssumption
<1>13. CASE CreateChild(c)
  <2>1. children[c] = None /\ children'[c] = [content |-> Template[v][c], health |-> "bad",
                                              deleting |-> FALSE]
    BY <1>1, <1>13 DEF CreateChild, CanCreate, WriteChild, TypeOK, v
  <2>2. children'[c] # None
    BY <1>12, <2>1, ConstantsAssumption DEF Object, Health
  <2>3. Contents' = [Contents EXCEPT ![c] = Template[Owners[c]][c]]
    BY <1>6, <1>9, <1>10, <1>11, <2>1, <2>2
  <2>4. Movings' = [Movings EXCEPT ![c] = IF @ = Owners[c] THEN @ ELSE None]
    <3>1. updating' = [updating EXCEPT ![c] = IF updating[c] = v THEN updating[c] ELSE None]
      BY <1>1, <1>13 DEF CreateChild, TypeOK, v
    <3>2. /\ Movings[c] = updating[c]
          /\ Movings' = [Movings EXCEPT ![c] = IF updating[c] = v THEN updating[c] ELSE None]
      BY <1>1, <3>1, MovesOne
    <3>3. c \in DOMAIN Movings
      BY DEF Movings
    <3> QED
      BY <1>6, <3>2, <3>3
  <2>5. Contents[c] = None
    BY <1>8, <2>1
  <2> QED
    BY <1>6, <2>3, <2>4, <2>5 DEF Rolls!Create
<1>14. CASE RecreateChild(c) \/ UpdateChild(c)
  <2>1. /\ children[c] # None /\ children[c] \in Object
        /\ Contents[c] = children[c].content /\ children[c].content # None
    BY <1>1, <1>8, <1>14, ConstantsAssumption
       DEF RecreateChild, CanRecreate, UpdateChild, CanUpdate, TypeOK, Object
  <2>2. Contents[c] # Template[v][c]
    BY <1>1, <1>2, <2>1 DEF SeenAsIs, TodoDiffers, v
  <2>3. Movings' = [Movings EXCEPT ![c] = Owners[c]]
    BY <1>1, <1>6, <1>14, MovesOne DEF RecreateChild, UpdateChild, v
  <2>4. CASE RecreateChild(c)
    <3>1. children'[c] = [children[c] EXCEPT !.deleting = TRUE]
      BY <1>1, <2>4 DEF RecreateChild, WriteChild, TypeOK
    <3>2. children'[c] # None /\ children'[c].content = children[c].content
      BY <2>1, <3>1, ConstantsAssumption DEF Object
    <3>3. Contents' = [Contents EXCEPT ![c] = Contents[c]]
      BY <1>9, <1>10, <1>11, <2>1, <3>2
    <3> QED
      BY <1>6, <2>1, <2>2, <2>3, <3>3 DEF Rolls!Update
  <2>5. CASE UpdateChild(c)
    <3>1. children'[c] = [children[c] EXCEPT !.content = Template[v][c],
                                             !.health = IF @ = "bad" THEN "bad" ELSE "stale"]
      BY <1>1, <2>5 DEF UpdateChild, WriteChild, TypeOK, v
    <3>2. children'[c].content = Template[v][c] /\ children'[c] \in Object
      BY <1>12, <2>1, <3>1 DEF Object, Health
    <3>3. children'[c] # None
      BY <3>2, ConstantsAssumption
    <3>4. Contents' = [Contents EXCEPT ![c] = Template[Owners[c]][c]]
      BY <1>6, <1>9, <1>10, <1>11, <3>2, <3>3
    <3> QED
      BY <1>6, <2>1, <2>2, <2>3, <3>4 DEF Rolls!Update
  <2> QED
    BY <1>14, <2>4, <2>5
<1> QED
  BY <1>2, <1>13, <1>14

-----------------------------------------------------------------------------
(* A decision moves at most one child that is not given to it.               *)

LEMMA FirstPassLatest ==
  ASSUME TypeOK, NEW list \in Lists, ClaimedOnce(list),
         NEW c \in Child, c \in Desired \intersect RollingChild
  PROVE  c \in FirstPass(list)[1] <=>
           \/ c \in ClaimsOf(Latest)
           \/ IsNoOp(c)
           \/ \A i \in DOMAIN list : c \notin ClaimsOf(list[i])
<1>1. /\ 1 \in DOMAIN list /\ list[1] = Latest /\ DOMAIN list \subseteq Nat
  BY ListIndices, ListFacts
<1>2. c \in FirstPass(list)[1] <=>
        c \in SyncRevisionClaims(list, 1) \union Unclaimed(list) \union MovesForFree(list)
  BY <1>1 DEF FirstPass
<1>3. c \in SyncRevisionClaims(list, 1) <=> c \in ClaimsOf(Latest)
  <2>1. c \in SyncRevisionClaims(list, 1) => c \in ClaimsOf(Latest)
    BY <1>1 DEF SyncRevisionClaims
  <2>2. ASSUME c \in ClaimsOf(Latest) PROVE c \in SyncRevisionClaims(list, 1)
    <3>1. Accepts(list, 1, c)
      BY <1>1, <2>2, OnlyClaimAccepted DEF ClaimedOnce
    <3> QED
      BY <1>1, <2>2, <3>1 DEF SyncRevisionClaims
  <2> QED
    BY <2>1, <2>2
<1>4. c \in Unclaimed(list) <=> \A i \in DOMAIN list : c \notin ClaimsOf(list[i])
  <2>1. \A i \in DOMAIN list : Accepts(list, i, c) <=> c \in ClaimsOf(list[i])
    BY <1>1, OnlyClaimAccepted DEF Accepts, ClaimedOnce
  <2> QED
    BY <2>1 DEF Unclaimed
<1>5. c \in MovesForFree(list) => IsNoOp(c)
  BY DEF MovesForFree
<1>6. ASSUME IsNoOp(c), NEW i \in DOMAIN list, c \in ClaimsOf(list[i])
      PROVE  c \in FirstPass(list)[1]
  BY <1>6, NoOpsInFirstPass
<1> QED
  BY <1>2, <1>3, <1>4, <1>5, <1>6

LEMMA FirstPassOthers ==
  ASSUME TypeOK, NEW list \in Lists, ClaimedOnce(list),
         NEW c \in Child, c \in Desired \intersect RollingChild,
         NEW i \in DOMAIN list, i # 1, c \in ClaimsOf(list[i]), ~IsNoOp(c)
  PROVE  c \in FirstPass(list)[i]
<1>1. Accepts(list, i, c)
  BY ListFacts, OnlyClaimAccepted DEF ClaimedOnce
<1>2. c \in SyncRevisionClaims(list, i)
  BY <1>1 DEF SyncRevisionClaims
<1>3. c \notin MovesForFree(list)
  BY DEF MovesForFree
<1> QED
  BY <1>2, <1>3 DEF FirstPass

(* What a revision of the list claims by the plan is what it was left with.  *)
LEMMA PlannedAt ==
  ASSUME TypeOK, NEW list \in Lists, NEW outcome \in RollingUpdates(list), NEW want,
         plan' = PlanFor(list, outcome, want), NEW i \in DOMAIN list,
         NEW c \in Child, c \in outcome.claims[i]
  PROVE  c \in plan'.claims[list[i]]
<1>1. plan'.claims = [v \in Version |->
                        {d \in Child : \E j \in Kept(outcome.claims) :
                                         list[j] = v /\ d \in outcome.claims[j]}]
  BY DEF PlanFor
<1>2. list[i] \in Version /\ i \in Kept(outcome.claims)
  BY ListIndices, OutcomeForms DEF Kept
<1> QED
  BY <1>1, <1>2

(* The children that the latest revision is left with become its own, and    *)
(* every other stays with the revision that had it.                          *)
LEMMA DecidedOwners ==
  ASSUME RollInv, RollInv', pc = "observed", pc' = "planned",
         cRevs = Copies(revs), NEW list \in Lists, ClaimedOnce(list),
         NEW outcome \in RollingUpdates(list), NEW want,
         plan' = PlanFor(list, outcome, want), NEW c \in Paced
  PROVE  OwnerOf(c)' = IF c \in outcome.claims[1] THEN Latest ELSE OwnerOf(c)
<1>1. TypeOK /\ c \in Child /\ c \in Desired \intersect RollingChild
  BY AlwaysDesired, BusyTypes DEF RollInv, OneInv, RolloutInv
<1>2. /\ 1 \in DOMAIN list /\ list[1] = Latest
      /\ \A i \in DOMAIN list : list[i] \in Version
  BY <1>1, ListIndices
<1>3. OwnersClaim /\ OwnersClaim'
  BY OwnersTell, PTL
<1>4. ClaimsAsPlanned /\ ClaimsAsPlanned'
  BY NowClaimed, PTL
<1>5. ASSUME NEW i \in DOMAIN list, c \in outcome.claims[i] PROVE OwnerOf(c)' = list[i]
  <2>1. c \in plan'.claims[list[i]]
    BY <1>1, <1>5, PlannedAt
  <2>2. c \in ClaimsNow(list[i])'
    BY <1>2, <1>4, <2>1 DEF ClaimsAsPlanned
  <2> QED
    BY <1>1, <1>2, <1>3, <2>2 DEF OwnersClaim
<1>6. ASSUME c \notin outcome.claims[1] PROVE OwnerOf(c)' = OwnerOf(c)
  <2>1. /\ c \notin FirstPass(list)[1]
        /\ \A i \in DOMAIN list : c \in FirstPass(list)[i] => c \in outcome.claims[i]
    <3>1. CASE outcome.claims = FirstPass(list)
      BY <1>6, <3>1
    <3>2. ASSUME NEW m, outcome.claims = MoveOne(FirstPass(list), m)
          PROVE  /\ c \notin FirstPass(list)[1]
                 /\ \A i \in DOMAIN list : c \in FirstPass(list)[i] => c \in outcome.claims[i]
      BY <1>2, <1>6, <3>2 DEF MoveOne, FirstPass
    <3> QED
      BY <3>1, <3>2, MovedContinues
  <2>2. PICK i \in DOMAIN list : c \in ClaimsOf(list[i])
    BY <1>1, <2>1, FirstPassLatest
  <2>3. i # 1 /\ ~IsNoOp(c)
    BY <1>1, <1>2, <2>1, <2>2, FirstPassLatest
  <2>4. c \in outcome.claims[i]
    BY <1>1, <2>1, <2>2, <2>3, FirstPassOthers
  <2>5. c \in ClaimsNow(list[i])
    BY <1>1, <1>2, <1>4, <2>2, ClaimsAreStored DEF ClaimsAsPlanned
  <2> QED
    BY <1>1, <1>2, <1>3, <1>5, <2>4, <2>5 DEF OwnersClaim
<1> QED
  BY <1>2, <1>5, <1>6

(* What the first loop gives to the latest revision is given, or its own.    *)
LEMMA FirstPassGives ==
  ASSUME RollInv, pc = "observed", cRevs = Copies(revs),
         NEW list \in Lists, ClaimedOnce(list), NEW c \in Paced
  PROVE  c \in FirstPass(list)[1] <=> c \in Rolls!Given(Latest) \/ Owners[c] = Latest
<1>1. TypeOK /\ c \in Child /\ c \in Desired \intersect RollingChild
  BY AlwaysDesired, BusyTypes DEF RollInv, OneInv, RolloutInv
<1>2. /\ 1 \in DOMAIN list /\ list[1] = Latest /\ Latest \in Version
      /\ \A i \in DOMAIN list : list[i] \in Version
  BY <1>1, ListIndices, SnapTypes
<1>3. Owners[c] = OwnerOf(c) /\ Contents[c] = ContentOf(c)
  BY DEF Owners, Contents
<1>4. \A v \in Version : OwnerOf(c) = v <=> c \in ClaimsOf(v)
  <2>1. OwnersClaim /\ ClaimsAsPlanned
    BY OwnersTell, NowClaimed
  <2> QED
    BY <1>1, <2>1, ClaimsAreStored DEF OwnersClaim, ClaimsAsPlanned
<1>5. OwnerOf(c) = None <=> \A i \in DOMAIN list : c \notin ClaimsOf(list[i])
  <2>1. OwnerOf(c) \in Version \union {None} /\ None \notin Version
    BY <1>1, BusyTypes, OwnersTell DEF OwnersClaim
  <2>2. \A v \in Version : c \in ClaimsOf(v) => \E i \in DOMAIN list : list[i] = v
    BY ListNamesObserved DEF ClaimsOf, ObservedRevisions
  <2> QED
    BY <1>2, <1>4, <2>1, <2>2
<1>6. IsNoOp(c) <=> ContentOf(c) = Template[Latest][c]
  <2>1. ContentOf(c) = IF snap.obs[c] = None THEN None ELSE snap.obs[c].obj.content
    BY <1>1, ReadContents DEF ContentsRead
  <2>2. Template[Latest][c] # None
    BY <1>1, <1>2, ConstantsAssumption
  <2> QED
    BY <2>1, <2>2 DEF IsNoOp
<1>7. c \in Rolls!Given(Latest) <=> Owners[c] = None \/ Contents[c] = Template[Latest][c]
  BY DEF Rolls!Given
<1> QED
  BY <1>1, <1>2, <1>3, <1>4, <1>5, <1>6, <1>7, FirstPassLatest

(* The others that the latest revision has after the first loop were seen    *)
(* settled if a child moves.                                                 *)
LEMMA OthersSettled ==
  ASSUME RollInv, pc = "observed", cRevs = Copies(revs),
         NEW list \in Lists, ClaimedOnce(list), NEW m \in Paced,
         \A c \in FirstPass(list)[1] : ~WaitsFor(c)
  PROVE  Rolls!Settled(Latest, m)
<1> SUFFICES ASSUME NEW c \in Paced, c \in Rolls!Given(Latest) \/ Owners[c] = Latest
             PROVE  Contents[c] = Template[Latest][c] /\ Movings[c] # Latest
  BY Zenon DEF Rolls!Settled
<1>1. TypeOK /\ OneInv /\ c \in Child /\ c \in Desired
  BY AlwaysDesired, BusyTypes DEF RollInv, OneInv, RolloutInv
<1>2. ~WaitsFor(c)
  BY FirstPassGives
<1>3. Movings[c] # Latest
  BY <1>1, <1>2, SettledIsFree DEF Movings
<1>4. Contents[c] = Template[Latest][c]
  <2>1. snap.obs[c] # None /\ snap.obs[c].obj.content = Template[Latest][c]
    BY <1>1, <1>2 DEF WaitsFor, IsObserved, IsNoOp
  <2> QED
    BY <1>1, <2>1, ReadContents DEF ContentsRead, Contents
<1> QED
  BY <1>3, <1>4

LEMMA DecidesRolls ==
  ASSUME RollInv, RollInv', [Next]_vars, PlanRollout
  PROVE  Rolls!Step
<1>0. TypeOK /\ ClaimsDisjoint /\ ~astray /\ ~astray'
  BY DEF RollInv, OneInv, RolloutInv, ClaimsInv
<1>1. /\ TypeOK /\ ClaimsDisjoint /\ ~astray /\ ~astray'
      /\ pc = "observed" /\ pc' = "planned" /\ cRevs = Copies(revs)
      /\ UNCHANGED updating /\ Latest \in Version
  BY <1>0, SnapTypes, ReadAsStored DEF PlanRollout
<1>2. Rolls!MayVanish
  <2>1. \A c \in Paced : ~Applies(c)
    BY <1>1 DEF Applies
  <2> QED
    BY <1>1, <2>1, ContentStays, BusyTypes, VanishSome
<1>3. UNCHANGED Movings
  BY <1>1 DEF Movings
<1>4. CASE ~AnyRolling
  <2>1. Paced = {}
    BY <1>4, ConstantsAssumption DEF Paced, AlwaysAsked, RollingChild, AnyRolling
  <2>2. UNCHANGED Owners
    BY <2>1 DEF Owners
  <2> QED
    BY <1>2, <1>3, <2>2 DEF Rolls!Step, Rolls!Vanish
<1>5. ASSUME NEW list \in Lists, NEW outcome \in RollingUpdates(list), NEW want,
             plan' = PlanFor(list, outcome, want)
      PROVE  Rolls!Decide(Latest)
  <2>1. ClaimedOnce(list) /\ 1 \in DOMAIN list
    BY <1>1, ListClaimsOnce, ListIndices
  <2>2. \A c \in Paced :
          Owners'[c] = IF c \in outcome.claims[1] THEN Latest ELSE Owners[c]
    BY <1>1, <1>5, <2>1, DecidedOwners DEF Owners
  <2>3. /\ Owners' = [c \in Paced |-> Owners'[c]]
        /\ Rolls!Given(Latest) \subseteq Paced
    BY DEF Owners, Rolls!Given
  <2>4. \A c \in Paced :
          c \in FirstPass(list)[1] <=> c \in Rolls!Given(Latest) \/ Owners[c] = Latest
    BY <1>1, <2>1, FirstPassGives
  <2>5. ASSUME NEW taken,
               \A c \in Paced :
                 c \in outcome.claims[1] <=> c \in taken \/ Owners[c] = Latest
        PROVE  Rolls!Take(Latest, taken)
    <3>1. \A c \in Paced : Owners'[c] = IF c \in taken THEN Latest ELSE Owners[c]
      BY <2>2, <2>5
    <3>2. Owners' = [c \in Paced |-> IF c \in taken THEN Latest ELSE Owners[c]]
      BY <2>3, <3>1
    <3> QED
      BY <1>2, <1>3, <3>2 DEF Rolls!Take
  <2>6. ASSUME \A c \in Paced : c \in outcome.claims[1] <=> c \in FirstPass(list)[1]
        PROVE  Rolls!Decide(Latest)
    <3>1. Rolls!Take(Latest, Rolls!Given(Latest))
      BY <2>4, <2>5, <2>6
    <3> QED
      BY <3>1 DEF Rolls!Decide
  <2>7. ASSUME NEW m \in Paced, outcome.claims = MoveOne(FirstPass(list), m),
               \A c \in FirstPass(list)[1] : ~WaitsFor(c)
        PROVE  Rolls!Decide(Latest)
    <3>1. \A c \in Paced :
            c \in outcome.claims[1] <=> c \in FirstPass(list)[1] \/ c = m
      BY <2>1, <2>7 DEF MoveOne, FirstPass
    <3>2. Rolls!Take(Latest, Rolls!Given(Latest) \union {m})
      BY <2>4, <2>5, <3>1
    <3>3. Rolls!Settled(Latest, m)
      BY <1>1, <2>1, <2>7, OthersSettled
    <3> QED
      BY <3>2, <3>3 DEF Rolls!Decide
  <2>8. ASSUME NEW m, m \notin Paced, outcome.claims = MoveOne(FirstPass(list), m)
        PROVE  \A c \in Paced : c \in outcome.claims[1] <=> c \in FirstPass(list)[1]
    BY <2>1, <2>8 DEF MoveOne, FirstPass
  <2> QED
    BY <2>6, <2>7, <2>8, MovedContinues
<1>6. CASE AnyRolling
  <2>1. \E list \in Lists : \E outcome \in RollingUpdates(list) : \E want :
          plan' = PlanFor(list, outcome, want)
    BY <1>6, Zenon DEF PlanRollout
  <2> QED
    BY <1>1, <1>5, <2>1, Zenon DEF Rolls!Step
<1> QED
  BY <1>4, <1>6

LEMMA InitRolls == Init => Rolls!Init
<1> SUFFICES ASSUME Init PROVE Rolls!Init
  OBVIOUS
<1>1. /\ pc = "idle" /\ astray = FALSE
      /\ \A c \in Child : children[c] = None /\ updating[c] = None
      /\ \A v \in Version : revs[v] = None
  BY DEF Init
<1>2. \A c \in Paced : OwnerOf(c) = None
  BY <1>1, NowClaimed DEF ClaimsAsPlanned, Holds, OwnerOf
<1>3. \A c \in Paced : ContentOf(c) = None
  BY <1>1, ReadContents, BusyTypes DEF ContentsRead
<1> QED
  BY <1>1, <1>2, <1>3, BusyTypes DEF Rolls!Init, Owners, Contents, Movings

LEMMA RollsStep ==
  ASSUME RollInv, RollInv', [Next]_vars
  PROVE  Rolls!Step
<1>1. TypeOK /\ DeletesUnwanted
  BY DEF RollInv, OneInv, RolloutInv
<1>2. CASE PlanRollout
  BY <1>2, DecidesRolls
<1>3. ASSUME NEW c \in Paced, Applies(c) PROVE Rolls!Step
  BY <1>3, AppliesOne DEF Rolls!Step
<1>4. ASSUME NEW c \in Paced, ~Applies(c), updating'[c] # updating[c] PROVE Rolls!Step
  <2>1. ChildSettles(c)
    BY <1>1, <1>4, WhoUpdates
  <2> QED
    BY <1>4, <2>1, SettlesOne DEF Rolls!Step
<1>5. ASSUME ~PlanRollout, \A c \in Paced : ~Applies(c) /\ updating'[c] = updating[c]
      PROVE  Rolls!Step
  <2>1. Rolls!Vanish
    BY <1>5, VanishOnly, Zenon
  <2> QED
    BY <2>1 DEF Rolls!Step
<1> QED
  BY <1>2, <1>3, <1>4, <1>5

RollUpToAstray == RolloutInv /\ (~astray => RollInv)

LEMMA RollUpToStep ==
  ASSUME RollUpToAstray, [Next]_vars
  PROVE  RollUpToAstray' /\ Rolls!Next
<1>1. RolloutInv'
  BY RolloutStep DEF RollUpToAstray
<1>2. TypeOK /\ TypeOK'
  BY <1>1 DEF RollUpToAstray, RolloutInv
<1>3. ASSUME ~astray' PROVE RollInv /\ RollInv' /\ UNCHANGED astray
  <2>1. ~astray
    BY <1>2, <1>3, StaysStraight
  <2>2. UNCHANGED astray
    BY <1>2, <1>3, <2>1 DEF TypeOK
  <2> QED
    BY <1>3, <2>1, <2>2, RollStep DEF RollUpToAstray
<1>4. CASE astray'
  BY <1>1, <1>4 DEF RollUpToAstray, Rolls!Next
<1>5. CASE ~astray'
  BY <1>1, <1>3, <1>5, RollsStep DEF RollUpToAstray, Rolls!Next
<1> QED
  BY <1>4, <1>5

(* The composite controller's rolling update is the one that RollingUpdate   *)
(* promises, for the children that no edit scales away and whose status      *)
(* tells its generation, up to the first sync that reads old copies or       *)
(* stores its revisions in part: syncRollingUpdate moves one child at most   *)
(* that is neither free nor holds what is wanted already, only when every    *)
(* other child of the latest revision has its content and is through with    *)
(* its update; manageRevisions changes no child's version; and               *)
(* ManageChildren makes of a child only what its version wants.              *)
THEOREM ImplementsRollingUpdate == Spec => RollsOneByOne
<1>1. RollUpToAstray /\ [Next]_vars => RollUpToAstray' /\ Rolls!Next
  BY RollUpToStep
<1>2. Init => RollUpToAstray
  BY InitRoll DEF RollInv, OneInv, RollUpToAstray
<1> QED
  BY <1>1, <1>2, InitRolls, PTL DEF Spec, RollsOneByOne, Rolls!Spec

=============================================================================
