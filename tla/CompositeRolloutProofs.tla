----------------------- MODULE CompositeRolloutProofs -----------------------
(* Theorems about CompositeRollout, for all constants: type correctness,    *)
(* and that no child is touched before the revisions that entitle it to its *)
(* version are stored.                                                      *)
EXTENDS CompositeRollout, FiniteSetTheorems, TLAPS

-----------------------------------------------------------------------------
(* Copies, and how they age. *)

LEMMA CopiesType ==
  ASSUME NEW S, NEW T, NEW objects \in [S -> {None} \union T]
  PROVE  Copies(objects) \in [S -> {None} \union [obj : T, lag : Lag]]
BY DEF Copies, Copy, Fresh, Lag

LEMMA AgeType ==
  ASSUME NEW S, NEW T, NEW copies \in [S -> {None} \union [obj : T, lag : Lag]],
         NEW x \in S, NEW lag \in Lag
  PROVE  Age(copies, x, lag) \in [S -> {None} \union [obj : T, lag : Lag]]
BY DEF Age

(* What the caches hold after the informers caught up. *)
LEMMA CaughtUpTypes ==
  ASSUME TypeOK
  PROVE  /\ Fresh(parent) \in [obj : [spec : ParentSpec, cond : Conditions], lag : Lag]
         /\ Copies(revs) \in RevisionCopies
         /\ Copies(children) \in ChildCopies
<1>1. Fresh(parent) \in [obj : [spec : ParentSpec, cond : Conditions], lag : Lag]
  BY DEF TypeOK, Fresh, Lag
<1>2. Copies(revs) \in RevisionCopies
  BY CopiesType DEF TypeOK, RevisionCopies, RevisionCopy
<1>3. Copies(children) \in ChildCopies
  BY CopiesType DEF TypeOK, ChildCopies, ChildCopy
<1> QED
  BY <1>1, <1>2, <1>3

LEMMA IdleTypes == NoSnap \in [spec : ParentSpec, obs : ChildCopies] /\ NoPlan \in Plans
<1>1. NoSnap \in [spec : ParentSpec, obs : ChildCopies]
  BY ConstantsAssumption DEF NoSnap, ChildCopies, ChildCopy
<1>2. NoPlan \in Plans
  BY DEF NoPlan, Plans, Reasons
<1> QED
  BY <1>1, <1>2

-----------------------------------------------------------------------------
(* The decision of a sync. *)

LEMMA SnapTypes ==
  ASSUME TypeOK
  PROVE  Latest \in Version /\ Desired \subseteq Child
BY ConstantsAssumption DEF TypeOK, Latest, Desired, ParentSpec

(* A list of revisions starts with the latest and names each once. *)
LEMMA ListFacts ==
  ASSUME TypeOK, NEW list \in Lists
  PROVE  \E n \in Nat \ {0} :
           /\ DOMAIN list = 1..n
           /\ list \in [1..n -> Version]
           /\ list[1] = Latest
           /\ \A i, j \in 1..n : list[i] = list[j] => i = j
<1>1. Cardinality(Version) \in Nat
  BY ConstantsAssumption, FS_CardinalityType
<1>2. PICK n \in 1..Cardinality(Version) : list \in [1..n -> Version]
  BY DEF Lists
<1>3. n \in Nat \ {0}
  BY <1>1, <1>2
<1>4. /\ list[1] = Latest
      /\ \A i, j \in DOMAIN list : list[i] = list[j] => i = j
  BY DEF Lists
<1> QED
  BY <1>2, <1>3, <1>4

(* The claims are those of the first pass, but for one move. *)
LEMMA OutcomeForms ==
  ASSUME NEW list, NEW outcome \in RollingUpdates(list)
  PROVE  /\ outcome.reason \in Reasons
         /\ DOMAIN outcome.claims = DOMAIN list
         /\ \/ outcome.claims = FirstPass(list)
            \/ \E c \in Pending(list) : outcome.claims = MoveOne(FirstPass(list), c)
<1>1. \/ outcome = Outcome(FirstPass(list), "OnLatestRevision")
      \/ outcome = Outcome(FirstPass(list), "RolloutWaiting")
      \/ \E c \in Pending(list) :
           outcome = Outcome(MoveOne(FirstPass(list), c), "RolloutProgressing")
  BY Zenon DEF RollingUpdates
<1>2. /\ DOMAIN FirstPass(list) = DOMAIN list
      /\ \A c : DOMAIN MoveOne(FirstPass(list), c) = DOMAIN list
  BY DEF FirstPass, MoveOne
<1>3. CASE outcome = Outcome(FirstPass(list), "OnLatestRevision")
  BY <1>2, <1>3 DEF Outcome, Reasons
<1>4. CASE outcome = Outcome(FirstPass(list), "RolloutWaiting")
  BY <1>2, <1>4 DEF Outcome, Reasons
<1>5. ASSUME NEW c \in Pending(list),
             outcome = Outcome(MoveOne(FirstPass(list), c), "RolloutProgressing")
      PROVE  /\ outcome.reason \in Reasons
             /\ DOMAIN outcome.claims = DOMAIN list
             /\ outcome.claims = MoveOne(FirstPass(list), c)
  BY <1>2, <1>5 DEF Outcome, Reasons
<1> QED
  BY <1>1, <1>3, <1>4, <1>5

LEMMA PlanForType ==
  ASSUME TypeOK, NEW list \in Lists, NEW outcome \in RollingUpdates(list),
         NEW want \in DesiredVersions(list, outcome.claims)
  PROVE  PlanFor(list, outcome, want) \in Plans
<1>1. PICK n \in Nat \ {0} : DOMAIN list = 1..n /\ list \in [1..n -> Version]
  BY ListFacts
<1>2. outcome.reason \in Reasons /\ DOMAIN outcome.claims = 1..n
  BY <1>1, OutcomeForms
<1>3. {list[i] : i \in Kept(outcome.claims)} \subseteq Version
  BY <1>1, <1>2 DEF Kept
<1>4. Wanted(want) \in [Child -> Version \union {None}]
  BY DEF Wanted, DesiredVersions
<1>5. ToDelete \subseteq Child /\ ToApply(want) \subseteq Child
  BY SnapTypes DEF ToDelete, ToApply
<1>6. [v \in Version |-> IF cRevs[v] = None THEN None ELSE cRevs[v].lag]
        \in [Version -> Lag \union {None}]
  BY DEF TypeOK, RevisionCopies, RevisionCopy
<1>7. {c \in Child : \E v, w \in Version :
         v # w /\ c \in ClaimsOf(v) \intersect ClaimsOf(w)} \in SUBSET Child
  OBVIOUS
<1> QED
  BY <1>2, <1>3, <1>4, <1>5, <1>6, <1>7 DEF PlanFor, Plans, ObservedRevisions

LEMMA PlanLatestOnlyType ==
  ASSUME TypeOK
  PROVE  PlanLatestOnly \in Plans
<1> DEFINE want == [c \in Desired |-> Latest]
<1>1. Wanted(want) \in [Child -> Version \union {None}]
  BY SnapTypes DEF Wanted
<1>2. ToDelete \subseteq Child /\ ToApply(want) \subseteq Child
  BY SnapTypes DEF ToDelete, ToApply
<1> QED
  BY <1>1, <1>2, IdleTypes DEF PlanLatestOnly, Plans

-----------------------------------------------------------------------------
(* Type correctness. *)

LEMMA EndSyncType ==
  ASSUME TypeOK, NEW failed \in BOOLEAN, EndSync(failed)
  PROVE  /\ pc' \in {"idle", "observed", "planned"}
         /\ snap' \in [spec : ParentSpec, obs : ChildCopies]
         /\ plan' \in Plans
         /\ queued' \in BOOLEAN
         /\ astray' \in BOOLEAN
BY IdleTypes DEF EndSync, TypeOK

LEMMA RestartType ==
  ASSUME TypeOK, Restart, faults' \in 0..MaxFaults
  PROVE  TypeOK'
<1>1. /\ pc' \in {"idle", "observed", "planned"}
      /\ snap' \in [spec : ParentSpec, obs : ChildCopies]
      /\ plan' \in Plans
      /\ queued' \in BOOLEAN
      /\ astray' \in BOOLEAN
  BY EndSyncType DEF Restart
<1>2. UNCHANGED <<parent, revs, children, updating, edits>>
  BY DEF Restart, store
<1> QED
  BY <1>1, <1>2, CaughtUpTypes DEF TypeOK, Restart

(* The types of what the API calls of a sync write. *)
LEMMA WriteRevisionType ==
  ASSUME TypeOK, NEW v \in Version, NEW claims \in {None} \union SUBSET Child,
         WriteRevision(v, claims)
  PROVE  revs' \in [Version -> {None} \union SUBSET Child] /\ cRevs' \in RevisionCopies
<1>1. (IF claims = None THEN "gone" ELSE "changed") \in Lag
  BY DEF Lag
<1> QED
  BY <1>1, AgeType DEF WriteRevision, TypeOK, RevisionCopies, RevisionCopy

LEMMA WriteChildType ==
  ASSUME TypeOK, NEW c \in Child, NEW object \in {None} \union Object, NEW lag \in Lag,
         WriteChild(c, object, lag)
  PROVE  children' \in [Child -> {None} \union Object] /\ cChildren' \in ChildCopies
BY AgeType DEF WriteChild, TypeOK, ChildCopies, ChildCopy

LEMMA ObsAgeType ==
  ASSUME TypeOK, NEW c \in Child, NEW lag \in Lag,
         snap' = [snap EXCEPT !.obs = Age(@, c, lag)]
  PROVE  snap' \in [spec : ParentSpec, obs : ChildCopies]
<1>1. Age(snap.obs, c, lag) \in ChildCopies
  BY AgeType DEF TypeOK, ChildCopies, ChildCopy
<1> QED
  BY <1>1 DEF TypeOK

LEMMA WriteParentType ==
  ASSUME TypeOK, NEW object \in [spec : ParentSpec, cond : Conditions], WriteParent(object)
  PROVE  /\ parent' \in [spec : ParentSpec, cond : Conditions]
         /\ cParent' \in [obj : [spec : ParentSpec, cond : Conditions], lag : Lag]
BY DEF WriteParent, TypeOK, Lag

LEMMA InitType == Init => TypeOK
<1> SUFFICES ASSUME Init PROVE TypeOK
  OBVIOUS
<1>1. /\ parent \in [spec : ParentSpec, cond : Conditions]
      /\ revs \in [Version -> {None} \union SUBSET Child]
      /\ children \in [Child -> {None} \union Object]
  BY ConstantsAssumption DEF Init, Conditions
<1>2. /\ cParent \in [obj : [spec : ParentSpec, cond : Conditions], lag : Lag]
      /\ cRevs \in RevisionCopies
      /\ cChildren \in ChildCopies
  BY <1>1, CopiesType DEF Init, Fresh, Lag, RevisionCopies, RevisionCopy, ChildCopies, ChildCopy
<1>3. queued \in BOOLEAN /\ astray \in BOOLEAN /\ pc \in {"idle", "observed", "planned"}
  BY DEF Init
<1>4. /\ snap \in [spec : ParentSpec, obs : ChildCopies] /\ plan \in Plans
      /\ updating \in [Child -> Version \union {None}]
      /\ edits \in 0..MaxEdits /\ faults \in 0..MaxFaults
  BY IdleTypes, ConstantsAssumption DEF Init
<1> QED
  BY <1>1, <1>2, <1>3, <1>4 DEF TypeOK

(* TypeOK is not inductive: ApplyChild looks a child's version up. *)
TodoIsWanted == \A c \in plan.todo : plan.want[c] \in Version

LEMMA TickOffType ==
  ASSUME TypeOK, NEW c
  PROVE  /\ [plan EXCEPT !.todel = @ \ {c}] \in Plans
         /\ [plan EXCEPT !.todel = @ \ {c}, !.failed = TRUE] \in Plans
         /\ [plan EXCEPT !.todo = @ \ {c}] \in Plans
         /\ [plan EXCEPT !.todo = @ \ {c}, !.failed = TRUE] \in Plans
         /\ [plan EXCEPT !.todel = @ \ {c}, !.todo = @ \ {c}, !.failed = TRUE] \in Plans
         /\ [plan EXCEPT !.del = @ \ {c}] \in Plans
         /\ [plan EXCEPT !.put = @ \ {c}] \in Plans
<1>1. plan \in Plans
  BY DEF TypeOK
<1> QED
  BY <1>1 DEF Plans

LEMMA TouchedChild ==
  ASSUME TypeOK, NEW c \in Child, children[c] # None
  PROVE  /\ [children[c] EXCEPT !.deleting = TRUE] \in Object
         /\ \A h \in Health : [children[c] EXCEPT !.health = h] \in Object
         /\ \A x \in Content :
              [children[c] EXCEPT !.content = x,
                                  !.health = IF @ = "bad" THEN "bad" ELSE "stale"] \in Object
<1>1. children[c] \in Object
  BY DEF TypeOK
<1> QED
  BY <1>1 DEF Object, Health

LEMMA WorkerType == TypeOK /\ TodoIsWanted /\ Worker => TypeOK'
<1> SUFFICES ASSUME TypeOK, TodoIsWanted PROVE Worker => TypeOK'
  OBVIOUS
<1>1. ASSUME BeginSync PROVE TypeOK'
  BY <1>1 DEF BeginSync, TypeOK, store, cache, history
<1>2. ASSUME PlanRollout PROVE TypeOK'
  <2>1. plan' \in Plans
    BY <1>2, PlanForType, PlanLatestOnlyType DEF PlanRollout
  <2> QED
    BY <1>2, <2>1 DEF PlanRollout, TypeOK, store, cache, history
<1>3. ASSUME PlanPanics PROVE TypeOK'
  BY <1>3, RestartType DEF PlanPanics, TypeOK
<1>4. ASSUME FinishSync PROVE TypeOK'
  <2> DEFINE object == WithStatus(parent)
  <2>1. object \in [spec : ParentSpec, cond : Conditions]
    BY DEF WithStatus, TypeOK, Plans, Conditions
  <2>2. WriteParent(object) /\ EndSync(plan.failed) /\ plan.failed \in BOOLEAN
    BY <1>4 DEF FinishSync, TypeOK, Plans
  <2> HIDE DEF object
  <2> QED
    BY <1>4, <2>1, <2>2, WriteParentType, EndSyncType DEF FinishSync, TypeOK
<1>5. ASSUME NEW v \in Version, DeleteRevision(v) PROVE TypeOK'
  <2>1. CASE EndSync(TRUE) /\ UNCHANGED <<revs, cRevs>>
    BY <1>5, <2>1, EndSyncType DEF DeleteRevision, TypeOK
  <2>2. CASE /\ WriteRevision(v, None)
             /\ plan' = [plan EXCEPT !.del = @ \ {v}]
             /\ UNCHANGED <<queued, pc, snap, astray>>
    <3>1. plan' \in Plans
      BY <2>2, TickOffType
    <3>2. revs' \in [Version -> {None} \union SUBSET Child] /\ cRevs' \in RevisionCopies
      BY <2>2, WriteRevisionType
    <3>3. UNCHANGED <<parent, children, cParent, cChildren, updating, edits, faults>>
      BY <1>5 DEF DeleteRevision
    <3>4. UNCHANGED <<queued, pc, snap, astray>>
      BY <2>2
    <3> QED
      BY <3>1, <3>2, <3>3, <3>4 DEF TypeOK
  <2> QED
    BY <1>5, <2>1, <2>2 DEF DeleteRevision
<1>6. ASSUME NEW v \in Version, PutRevision(v) PROVE TypeOK'
  <2>1. CASE EndSync(TRUE) /\ UNCHANGED <<revs, cRevs>>
    BY <1>6, <2>1, EndSyncType DEF PutRevision, TypeOK
  <2>2. CASE /\ WriteRevision(v, plan.claims[v])
             /\ plan' = [plan EXCEPT !.put = @ \ {v}]
             /\ UNCHANGED <<queued, pc, snap, astray>>
    <3> DEFINE claims == plan.claims[v]
    <3>1. plan' \in Plans
      BY <2>2, TickOffType
    <3>2. claims \in SUBSET Child /\ WriteRevision(v, claims)
      BY <2>2 DEF TypeOK, Plans
    <3> HIDE DEF claims
    <3>3. revs' \in [Version -> {None} \union SUBSET Child] /\ cRevs' \in RevisionCopies
      BY <3>2, WriteRevisionType
    <3>4. UNCHANGED <<parent, children, cParent, cChildren, updating, edits, faults>>
      BY <1>6 DEF PutRevision
    <3>5. UNCHANGED <<queued, pc, snap, astray>>
      BY <2>2
    <3> QED
      BY <3>1, <3>3, <3>4, <3>5 DEF TypeOK
  <2> QED
    BY <1>6, <2>1, <2>2 DEF PutRevision
<1>7. ASSUME NEW c \in Child, DeleteChild(c) PROVE TypeOK'
  <2>1. plan' \in Plans
    BY <1>7, TickOffType DEF DeleteChild
  <2>2. CASE /\ children[c] # None
             /\ WriteChild(c, [children[c] EXCEPT !.deleting = TRUE], "changed")
             /\ snap' = [snap EXCEPT !.obs = Age(@, c, "changed")]
             /\ updating' = [updating EXCEPT ![c] = None]
    <3>1. [children[c] EXCEPT !.deleting = TRUE] \in Object /\ "changed" \in Lag
      BY <2>2, TouchedChild DEF Lag
    <3>2. children' \in [Child -> {None} \union Object] /\ cChildren' \in ChildCopies
      BY <2>2, <3>1, WriteChildType
    <3>3. snap' \in [spec : ParentSpec, obs : ChildCopies]
      BY <2>2, <3>1, ObsAgeType
    <3>4. UNCHANGED <<parent, revs, cParent, cRevs, queued, pc, astray, edits, faults>>
      BY <1>7 DEF DeleteChild
    <3>5. updating' \in [Child -> Version \union {None}]
      BY <2>2 DEF TypeOK
    <3> QED
      BY <2>1, <3>2, <3>3, <3>4, <3>5 DEF TypeOK
  <2>3. CASE UNCHANGED <<children, cChildren, snap, updating>>
    <3>1. UNCHANGED <<parent, revs, cParent, cRevs, queued, pc, astray, edits, faults>>
      BY <1>7 DEF DeleteChild
    <3> QED
      BY <2>1, <2>3, <3>1 DEF TypeOK
  <2> QED
    BY <1>7, <2>2, <2>3, Zenon DEF DeleteChild
<1>8. ASSUME NEW c \in Child, ApplyChild(c) PROVE TypeOK'
  <2>1. plan' \in Plans
    BY <1>8, TickOffType DEF ApplyChild
  <2>2. ASSUME CreateChild(c) \/ RecreateChild(c) \/ UpdateChild(c),
               snap' = [snap EXCEPT !.obs = Age(@, c, "changed")]
        PROVE  TypeOK'
    <3>1. PICK object \in Object : WriteChild(c, object, "changed")
      <4>1. plan.want[c] \in Version /\ Template[plan.want[c]][c] \in Content
        BY <1>8, ConstantsAssumption DEF ApplyChild, TodoIsWanted
      <4>2. [content |-> Template[plan.want[c]][c], health |-> "bad", deleting |-> FALSE] \in Object
        BY <4>1 DEF Object, Health
      <4>3. children[c] # None =>
              /\ [children[c] EXCEPT !.deleting = TRUE] \in Object
              /\ [children[c] EXCEPT !.content = Template[plan.want[c]][c],
                                     !.health = IF @ = "bad" THEN "bad" ELSE "stale"] \in Object
        BY <4>1, TouchedChild
      <4>4. CASE CreateChild(c)
        BY <4>2, <4>4 DEF CreateChild
      <4>5. CASE RecreateChild(c)
        BY <4>3, <4>5 DEF RecreateChild, CanRecreate
      <4>6. CASE UpdateChild(c)
        BY <4>3, <4>6 DEF UpdateChild, CanUpdate
      <4> QED
        BY <2>2, <4>4, <4>5, <4>6
    <3>2. updating' \in [Child -> Version \union {None}]
      BY <2>2 DEF CreateChild, RecreateChild, UpdateChild, TypeOK, Plans
    <3>3. children' \in [Child -> {None} \union Object] /\ cChildren' \in ChildCopies
      BY <3>1, WriteChildType DEF Lag
    <3>4. snap' \in [spec : ParentSpec, obs : ChildCopies]
      BY <2>2, ObsAgeType DEF Lag
    <3>5. UNCHANGED <<parent, revs, cParent, cRevs, queued, pc, astray, edits, faults>>
      BY <1>8 DEF ApplyChild
    <3> QED
      BY <2>1, <3>2, <3>3, <3>4, <3>5 DEF TypeOK
  <2>3. CASE UNCHANGED <<children, cChildren, snap, updating>>
    BY <1>8, <2>1, <2>3 DEF ApplyChild, TypeOK
  <2> QED
    BY <1>8, <2>2, <2>3 DEF ApplyChild
<1> QED
  BY <1>1, <1>2, <1>3, <1>4, <1>5, <1>6, <1>7, <1>8 DEF Worker

LEMMA InformersType == TypeOK /\ Informers => TypeOK'
<1> SUFFICES ASSUME TypeOK PROVE Informers => TypeOK'
  OBVIOUS
<1>1. ASSUME ParentEvent PROVE TypeOK'
  BY <1>1, CaughtUpTypes DEF ParentEvent, TypeOK, store, sync, history
<1>2. ASSUME ParentResync PROVE TypeOK'
  BY <1>2 DEF ParentResync, TypeOK, store, cache, sync, history
<1>3. ASSUME RevisionEvent PROVE TypeOK'
  BY <1>3, CaughtUpTypes DEF RevisionEvent, TypeOK, store, sync, history
<1>4. ASSUME NEW k \in Kind, ChildEvent(k) PROVE TypeOK'
  <2>1. cChildren' \in ChildCopies
    BY <1>4, CaughtUpTypes DEF ChildEvent, TypeOK, ChildCopies, ChildCopy
  <2> QED
    BY <1>4, <2>1 DEF ChildEvent, TypeOK, store, sync, history
<1> QED
  BY <1>1, <1>2, <1>3, <1>4 DEF Informers

LEMMA EnvWritesType ==
  ASSUME TypeOK, NEW c \in Child, NEW object \in {None} \union Object, NEW lag \in Lag,
         EnvWritesChild(c, object, lag),
         updating' \in [Child -> Version \union {None}], faults' \in 0..MaxFaults
  PROVE  TypeOK'
<1>1. /\ children' \in [Child -> {None} \union Object]
      /\ cChildren' \in ChildCopies
      /\ snap' \in [spec : ParentSpec, obs : ChildCopies]
  BY WriteChildType, ObsAgeType DEF EnvWritesChild
<1> QED
  BY <1>1 DEF EnvWritesChild, TypeOK

LEMMA FaultsType == TypeOK /\ Faults => TypeOK'
<1> SUFFICES ASSUME TypeOK PROVE Faults => TypeOK'
  OBVIOUS
<1>1. faults < MaxFaults => faults + 1 \in 0..MaxFaults
  BY ConstantsAssumption DEF TypeOK
<1>2. ASSUME Crash PROVE TypeOK'
  BY <1>1, <1>2, RestartType DEF Crash
<1>3. ASSUME AbortSync PROVE TypeOK'
  BY <1>1, <1>3, EndSyncType DEF AbortSync, TypeOK, store, cache, history
<1>4. ASSUME NEW c \in Child, ChildCallFails(c) PROVE TypeOK'
  <2>1. plan' \in Plans
    BY <1>4, TickOffType DEF ChildCallFails
  <2> QED
    BY <1>1, <1>4, <2>1 DEF ChildCallFails, TypeOK, store, cache, history
<1>5. ASSUME NEW c \in Child, ChildBreaks(c) PROVE TypeOK'
  <2>1. [children[c] EXCEPT !.health = "bad"] \in Object /\ "changed" \in Lag
    BY <1>5, TouchedChild DEF ChildBreaks, Lag, Health
  <2>2. updating' \in [Child -> Version \union {None}] /\ faults' \in 0..MaxFaults
    BY <1>1, <1>5 DEF ChildBreaks, TypeOK
  <2> QED
    BY <1>5, <2>1, <2>2, EnvWritesType DEF ChildBreaks
<1>6. ASSUME NEW c \in Child, ChildDrained(c) PROVE TypeOK'
  <2>1. [children[c] EXCEPT !.deleting = TRUE] \in Object /\ "changed" \in Lag
    BY <1>6, TouchedChild DEF ChildDrained, Lag, Health
  <2>2. updating' \in [Child -> Version \union {None}] /\ faults' \in 0..MaxFaults
    BY <1>1, <1>6 DEF ChildDrained, TypeOK
  <2>3. EnvWritesChild(c, [children[c] EXCEPT !.deleting = TRUE], "changed")
    BY <1>6 DEF ChildDrained
  <2> QED
    BY <2>1, <2>2, <2>3, EnvWritesType
<1> QED
  BY <1>2, <1>3, <1>4, <1>5, <1>6 DEF Faults

LEMMA EnvironmentType == TypeOK /\ Environment => TypeOK'
<1> SUFFICES ASSUME TypeOK PROVE Environment => TypeOK'
  OBVIOUS
<1>1. ASSUME NEW spec \in ParentSpec, EditParent(spec) PROVE TypeOK'
  <2> DEFINE object == [parent EXCEPT !.spec = spec]
  <2>1. object \in [spec : ParentSpec, cond : Conditions]
    BY DEF TypeOK
  <2>2. WriteParent(object)
    BY <1>1 DEF EditParent
  <2>3. edits' \in 0..MaxEdits
    BY <1>1, ConstantsAssumption DEF EditParent, TypeOK
  <2> HIDE DEF object
  <2> QED
    BY <1>1, <2>1, <2>2, <2>3, WriteParentType DEF EditParent, TypeOK, sync, history
<1>2. ASSUME NEW c \in Child, ChildSettles(c) PROVE TypeOK'
  <2>1. [children[c] EXCEPT !.health = "good"] \in Object /\ "changed" \in Lag
    BY <1>2 DEF ChildSettles, TypeOK, Object, Health, Lag
  <2>2. updating' \in [Child -> Version \union {None}]
    BY <1>2 DEF ChildSettles, TypeOK
  <2> QED
    BY <1>2, <2>1, <2>2, EnvWritesType DEF ChildSettles, TypeOK
<1>3. ASSUME NEW c \in Child, ChildRemoved(c) PROVE TypeOK'
  <2>1. "gone" \in Lag
    BY DEF Lag
  <2> QED
    BY <1>3, <2>1, EnvWritesType DEF ChildRemoved, TypeOK
<1> QED
  BY <1>1, <1>2, <1>3 DEF Environment

(* What a step does to the plan: decide, forget, or tick something off. *)
LEMMA PlanSteps ==
  ASSUME TypeOK, Next
  PROVE  \/ PlanRollout
         \/ pc' = "idle" /\ plan' = NoPlan
         \/ /\ plan'.want = plan.want /\ plan'.claims = plan.claims
            /\ plan'.todo \subseteq plan.todo
<1> DEFINE Kept3 == /\ plan'.want = plan.want /\ plan'.claims = plan.claims
                    /\ plan'.todo \subseteq plan.todo
           Forgot == pc' = "idle" /\ plan' = NoPlan
<1>0. plan \in Plans
  BY DEF TypeOK
<1>1. ASSUME Worker PROVE PlanRollout \/ Forgot \/ Kept3
  <2>1. BeginSync => Kept3
    BY DEF BeginSync
  <2>2. PlanPanics \/ FinishSync => Forgot
    BY DEF PlanPanics, FinishSync, Restart, EndSync
  <2>3. ASSUME NEW v \in Version, DeleteRevision(v) PROVE Forgot \/ Kept3
    BY <1>0, <2>3 DEF DeleteRevision, EndSync, Plans
  <2>4. ASSUME NEW v \in Version, PutRevision(v) PROVE Forgot \/ Kept3
    BY <1>0, <2>4 DEF PutRevision, EndSync, Plans
  <2>5. ASSUME NEW c \in Child, DeleteChild(c) PROVE Kept3
    BY <1>0, <2>5 DEF DeleteChild, Plans
  <2>6. ASSUME NEW c \in Child, ApplyChild(c) PROVE Kept3
    <3>1. \/ plan' = [plan EXCEPT !.todo = @ \ {c}]
          \/ plan' = [plan EXCEPT !.todo = @ \ {c}, !.failed = TRUE]
      BY <2>6, Zenon DEF ApplyChild
    <3>2. CASE plan' = [plan EXCEPT !.todo = @ \ {c}]
      BY <1>0, <3>2 DEF Plans
    <3>3. CASE plan' = [plan EXCEPT !.todo = @ \ {c}, !.failed = TRUE]
      BY <1>0, <3>3 DEF Plans
    <3> QED
      BY <3>1, <3>2, <3>3
  <2> HIDE DEF Kept3, Forgot
  <2> QED
    BY <1>1, <2>1, <2>2, <2>3, <2>4, <2>5, <2>6 DEF Worker
<1>2. Informers \/ Environment => Kept3
  BY DEF Informers, ParentEvent, ParentResync, RevisionEvent, ChildEvent, Environment,
         EditParent, ChildSettles, ChildRemoved, EnvWritesChild, sync
<1>3. ASSUME Faults PROVE Forgot \/ Kept3
  <2>1. Crash \/ AbortSync => Forgot
    BY DEF Crash, AbortSync, Restart, EndSync
  <2>2. ASSUME NEW c \in Child, ChildCallFails(c) PROVE Kept3
    BY <1>0, <2>2 DEF ChildCallFails, Plans
  <2>3. ASSUME NEW c \in Child, ChildBreaks(c) \/ ChildDrained(c) PROVE Kept3
    BY <2>3, Zenon DEF ChildBreaks, ChildDrained, EnvWritesChild
  <2> HIDE DEF Kept3, Forgot
  <2> QED
    BY <1>3, <2>1, <2>2, <2>3 DEF Faults
<1> QED
  BY <1>1, <1>2, <1>3 DEF Next

LEMMA TodoStep == TypeOK /\ TodoIsWanted /\ [Next]_vars => TodoIsWanted'
<1> SUFFICES ASSUME TypeOK, TodoIsWanted, [Next]_vars PROVE TodoIsWanted'
  OBVIOUS
<1>1. CASE PlanRollout
  <2>1. PICK want \in [Desired -> Version] :
          plan'.want = Wanted(want) /\ plan'.todo = ToApply(want)
    <3>1. CASE plan' = PlanLatestOnly
      BY <3>1, SnapTypes DEF PlanLatestOnly, NoPlan
    <3>2. CASE \E list \in Lists : \E outcome \in RollingUpdates(list) :
                 \E want \in DesiredVersions(list, outcome.claims) :
                   plan' = PlanFor(list, outcome, want)
      BY <3>2 DEF PlanFor, DesiredVersions
    <3> QED
      BY <1>1, <3>1, <3>2 DEF PlanRollout
  <2> QED
    BY <2>1, SnapTypes DEF TodoIsWanted, Wanted, ToApply
<1>2. CASE plan' = NoPlan
  BY <1>2 DEF NoPlan, TodoIsWanted
<1>3. CASE plan'.want = plan.want /\ plan'.todo \subseteq plan.todo
  BY <1>3 DEF TodoIsWanted
<1>4. CASE UNCHANGED plan
  BY <1>4 DEF TodoIsWanted
<1> QED
  BY <1>1, <1>2, <1>3, <1>4, PlanSteps DEF vars, sync

(* Every variable always has its type. *)
THEOREM TypeCorrect == Spec => []TypeOK
<1>1. Init => TypeOK /\ TodoIsWanted
  <2>1. Init => TodoIsWanted
    <3>1. Init => plan = NoPlan
      BY DEF Init
    <3>2. NoPlan.todo = {}
      BY DEF NoPlan
    <3> QED
      BY <3>1, <3>2 DEF TodoIsWanted
  <2> QED
    BY <2>1, InitType
<1>2. TypeOK /\ TodoIsWanted /\ [Next]_vars => (TypeOK /\ TodoIsWanted)'
  <2>1. TypeOK /\ UNCHANGED vars => TypeOK'
    BY DEF TypeOK, vars, store, cache, sync, history
  <2> QED
    BY <2>1, WorkerType, InformersType, FaultsType, EnvironmentType, TodoStep DEF Next
<1> QED
  BY <1>1, <1>2, PTL DEF Spec

-----------------------------------------------------------------------------
(* Nothing acts before its revisions are stored. *)

(* Every desired rolling child is claimed by some revision of the list after *)
(* the first pass of syncRollingUpdate, and its one move keeps that so.     *)
LEMMA EveryChildClaimed ==
  ASSUME NEW list, 1 \in DOMAIN list, NEW outcome \in RollingUpdates(list),
         NEW c \in Desired \intersect RollingChild, Desired \subseteq Child
  PROVE  \E i \in DOMAIN list : i \in DOMAIN outcome.claims /\ c \in outcome.claims[i]
<1>1. \E i \in DOMAIN list : c \in FirstPass(list)[i]
  <2>1. CASE c \in Unclaimed(list) \union MovesForFree(list)
    BY <2>1 DEF FirstPass
  <2>2. CASE c \notin Unclaimed(list) \union MovesForFree(list)
    <3>1. PICK i \in DOMAIN list : Accepts(list, i, c)
      BY <2>2 DEF Unclaimed
    <3>2. c \in SyncRevisionClaims(list, i)
      BY <3>1 DEF SyncRevisionClaims, Accepts
    <3> QED
      BY <2>2, <3>1, <3>2 DEF FirstPass
  <2> QED
    BY <2>1, <2>2
<1>2. DOMAIN FirstPass(list) = DOMAIN list
  BY DEF FirstPass
<1>3. ASSUME NEW d, outcome.claims = MoveOne(FirstPass(list), d)
      PROVE  \E i \in DOMAIN list : i \in DOMAIN outcome.claims /\ c \in outcome.claims[i]
  <2>1. PICK i \in DOMAIN list : c \in FirstPass(list)[i]
    BY <1>1
  <2>2. CASE c = d
    BY <1>2, <1>3, <2>2 DEF MoveOne
  <2>3. CASE c # d
    BY <1>2, <1>3, <2>1, <2>3 DEF MoveOne
  <2> QED
    BY <2>2, <2>3
<1> QED
  BY <1>1, <1>2, <1>3, OutcomeForms

(* A claimed child gets the version of a revision that claims it. *)
LEMMA WantIsClaimed ==
  ASSUME NEW n \in Nat \ {0}, NEW list, DOMAIN list = 1..n, NEW claims,
         NEW want \in DesiredVersions(list, claims), NEW c \in Desired,
         \E i \in DOMAIN list : c \in claims[i]
  PROVE  \E i \in DOMAIN list : want[c] = list[i] /\ c \in claims[i]
<1>1. PICK i \in DOMAIN list :
        /\ want[c] = list[i]
        /\ i = 1 \/ c \in claims[i]
        /\ \A j \in DOMAIN list : c \in claims[j] => j <= i
  BY DEF DesiredVersions
<1>2. PICK j \in DOMAIN list : c \in claims[j]
  OBVIOUS
<1>3. i = 1 => j = 1
  BY <1>1, <1>2
<1> QED
  BY <1>1, <1>2, <1>3

(* A copy of a revision that is "same" is. *)
SameCopies ==
  \A v \in Version : cRevs[v] # None /\ cRevs[v].lag = "same" => revs[v] = cRevs[v].obj

LEMMA CopiesAreSame ==
  ASSUME TypeOK
  PROVE  \A v \in Version : /\ Copies(revs)[v] = None <=> revs[v] = None
                            /\ revs[v] # None => /\ Copies(revs)[v].lag = "same"
                                                 /\ Copies(revs)[v].obj = revs[v]
<1> SUFFICES ASSUME NEW v \in Version
             PROVE  /\ Copies(revs)[v] = None <=> revs[v] = None
                    /\ revs[v] # None => /\ Copies(revs)[v].lag = "same"
                                         /\ Copies(revs)[v].obj = revs[v]
  OBVIOUS
<1>1. Copies(revs)[v] = Copy(revs[v])
  BY DEF Copies, TypeOK
<1>2. revs[v] # None => Fresh(revs[v]) \in RevisionCopy
  BY DEF TypeOK, RevisionCopy, Fresh, Lag
<1> QED
  BY <1>1, <1>2, ConstantsAssumption DEF Copy, Fresh

LEMMA SameCopiesStep ==
  ASSUME TypeOK, SameCopies, [Next]_vars
  PROVE  SameCopies'
<1>1. ASSUME UNCHANGED <<revs, cRevs>> PROVE SameCopies'
  BY <1>1 DEF SameCopies
<1>2. ASSUME cRevs' = Copies(revs), UNCHANGED revs PROVE SameCopies'
  BY <1>2, CopiesAreSame DEF SameCopies
<1>3. ASSUME NEW v \in Version, NEW claims, WriteRevision(v, claims) PROVE SameCopies'
  <2>1. /\ revs' = [revs EXCEPT ![v] = claims]
        /\ cRevs' = Age(cRevs, v, IF claims = None THEN "gone" ELSE "changed")
    BY <1>3 DEF WriteRevision
  <2>2. \A w \in Version : w # v => revs'[w] = revs[w] /\ cRevs'[w] = cRevs[w]
    BY <2>1 DEF Age, TypeOK, RevisionCopies
  <2>3. cRevs'[v] # None => cRevs'[v].lag # "same"
    <3>1. cRevs'[v] = IF cRevs[v] = None \/ cRevs[v].lag = "gone" THEN cRevs[v]
                      ELSE [cRevs[v] EXCEPT !.lag = IF claims = None THEN "gone" ELSE "changed"]
      BY <2>1 DEF Age, TypeOK, RevisionCopies
    <3>2. cRevs[v] # None => cRevs[v] \in RevisionCopy
      BY DEF TypeOK, RevisionCopies
    <3> QED
      BY <3>1, <3>2 DEF RevisionCopy
  <2> QED
    BY <2>2, <2>3 DEF SameCopies
<1>4. CASE Worker
  <2>1. BeginSync \/ PlanRollout \/ FinishSync => UNCHANGED <<revs, cRevs>>
    BY DEF BeginSync, PlanRollout, FinishSync, store, cache
  <2>2. PlanPanics => cRevs' = Copies(revs) /\ UNCHANGED revs
    BY DEF PlanPanics, Restart, store
  <2>3. \A v \in Version : DeleteRevision(v) \/ PutRevision(v) =>
          UNCHANGED <<revs, cRevs>> \/ \E claims : WriteRevision(v, claims)
    BY Zenon DEF DeleteRevision, PutRevision
  <2>4. \A c \in Child : DeleteChild(c) \/ ApplyChild(c) => UNCHANGED <<revs, cRevs>>
    BY DEF DeleteChild, ApplyChild
  <2> QED
    BY <1>1, <1>2, <1>3, <1>4, <2>1, <2>2, <2>3, <2>4 DEF Worker
<1>5. CASE Informers
  <2>1. RevisionEvent => cRevs' = Copies(revs) /\ UNCHANGED revs
    BY DEF RevisionEvent, store
  <2>2. ParentEvent \/ ParentResync \/ (\E k \in Kind : ChildEvent(k)) => UNCHANGED <<revs, cRevs>>
    BY DEF ParentEvent, ParentResync, ChildEvent, store, cache
  <2> QED
    BY <1>1, <1>2, <1>5, <2>1, <2>2 DEF Informers
<1>6. CASE Faults
  <2>1. Crash => cRevs' = Copies(revs) /\ UNCHANGED revs
    BY DEF Crash, Restart, store
  <2>2. AbortSync \/ (\E c \in Child : ChildCallFails(c) \/ ChildBreaks(c) \/ ChildDrained(c))
          => UNCHANGED <<revs, cRevs>>
    BY DEF AbortSync, ChildCallFails, ChildBreaks, ChildDrained, EnvWritesChild, store, cache
  <2> QED
    BY <1>1, <1>2, <1>6, <2>1, <2>2 DEF Faults
<1>7. Environment => UNCHANGED <<revs, cRevs>>
  BY DEF Environment, EditParent, ChildSettles, ChildRemoved, EnvWritesChild
<1>8. CASE UNCHANGED vars
  BY <1>1, <1>8 DEF vars, store, cache
<1> QED
  BY <1>1, <1>4, <1>5, <1>6, <1>7, <1>8 DEF Next

(* What the plan promises about the version of a child while it is carried  *)
(* out: it has a revision that claims the child and is not to be deleted,   *)
(* and unless that revision is still to be written it is stored as planned, *)
(* if the plan did not take an old copy of it for what is stored.           *)
Entitled(c) ==
  LET v == plan.want[c]
  IN /\ v \in Version
     /\ v \notin plan.del
     /\ c \in plan.claims[v]
     /\ v \notin plan.put /\ plan.base[v] \in {"same", None} => revs[v] = plan.claims[v]

PlanEntitles ==
  pc = "planned" => \A c \in Desired \intersect RollingChild : Entitled(c)

LEMMA PlanRolloutEntitles ==
  ASSUME TypeOK, SameCopies, PlanRollout
  PROVE  PlanEntitles'
<1>1. UNCHANGED <<revs, snap>>
  BY DEF PlanRollout, store
<1> SUFFICES ASSUME NEW c \in Desired \intersect RollingChild
             PROVE  Entitled(c)'
  BY <1>1 DEF PlanEntitles, Desired
<1>2. AnyRolling
  BY ConstantsAssumption DEF AnyRolling, RollingChild
<1>3. PICK list \in Lists :
        \E outcome \in RollingUpdates(list) :
          \E want \in DesiredVersions(list, outcome.claims) :
            plan' = PlanFor(list, outcome, want)
  BY <1>2 DEF PlanRollout
<1>4. PICK outcome \in RollingUpdates(list) :
        \E want \in DesiredVersions(list, outcome.claims) :
          plan' = PlanFor(list, outcome, want)
  BY <1>3
<1>5. PICK want \in DesiredVersions(list, outcome.claims) :
        plan' = PlanFor(list, outcome, want)
  BY <1>4
<1>6. PICK n \in Nat \ {0} : /\ DOMAIN list = 1..n
                            /\ list \in [1..n -> Version]
  BY ListFacts
<1>7. c \in Child /\ c \in Desired
  BY SnapTypes
<1>8. PICK i \in DOMAIN list : /\ want[c] = list[i]
                              /\ i \in Kept(outcome.claims)
                              /\ c \in outcome.claims[i]
  <2>1. \E i \in DOMAIN list : i \in DOMAIN outcome.claims /\ c \in outcome.claims[i]
    BY <1>6, EveryChildClaimed, SnapTypes
  <2>2. PICK i \in DOMAIN list : want[c] = list[i] /\ c \in outcome.claims[i]
    BY <1>6, <1>7, <2>1, WantIsClaimed
  <2>3. DOMAIN outcome.claims = DOMAIN list
    BY OutcomeForms
  <2> QED
    BY <2>2, <2>3 DEF Kept
<1> DEFINE v == list[i]
           kept == {list[j] : j \in Kept(outcome.claims)}
           claims == [w \in Version |->
                        {d \in Child : \E j \in Kept(outcome.claims) :
                                         list[j] = w /\ d \in outcome.claims[j]}]
<1>9. /\ plan'.want = Wanted(want)
      /\ plan'.del = ObservedRevisions \ kept
      /\ plan'.claims = claims
      /\ plan'.put = {w \in kept : cRevs[w] = None \/ ClaimsOf(w) # claims[w]}
      /\ plan'.base = [w \in Version |-> IF cRevs[w] = None THEN None ELSE cRevs[w].lag]
  BY <1>5 DEF PlanFor
<1>10. v \in Version /\ v \in kept /\ c \in claims[v]
  BY <1>6, <1>7, <1>8
<1>11. plan'.want[c] = v
  BY <1>7, <1>8, <1>9 DEF Wanted
<1>12. cRevs[v] # None /\ cRevs[v].lag \in {"same", None} => ClaimsOf(v) = revs[v]
  <2>1. cRevs[v] # None => cRevs[v] \in RevisionCopy
    BY <1>10 DEF TypeOK, RevisionCopies
  <2>2. None \notin Lag
    BY ConstantsAssumption
  <2> QED
    BY <1>10, <2>1, <2>2 DEF ClaimsOf, SameCopies, RevisionCopy
<1>13. plan'.base[v] = IF cRevs[v] = None THEN None ELSE cRevs[v].lag
  BY <1>9, <1>10
<1> HIDE DEF v, kept, claims
<1> QED
  BY <1>1, <1>9, <1>10, <1>11, <1>12, <1>13 DEF Entitled

LEMMA PlanEntitlesStep ==
  ASSUME TypeOK, SameCopies, PlanEntitles, [Next]_vars
  PROVE  PlanEntitles'
(* What matters of a step that neither decides nor ends a sync. *)
<1> DEFINE Keeps == /\ UNCHANGED <<pc, revs, snap.spec>>
                    /\ plan'.want = plan.want /\ plan'.claims = plan.claims
                    /\ plan'.del = plan.del /\ plan'.put = plan.put
                    /\ plan'.base = plan.base
<1>1. ASSUME pc' # "planned" PROVE PlanEntitles'
  BY <1>1 DEF PlanEntitles
<1>2. ASSUME Keeps PROVE PlanEntitles'
  BY <1>2 DEF PlanEntitles, Entitled, Desired
<1>3. ASSUME NEW v \in Version, DeleteRevision(v), pc' = "planned"
      PROVE  PlanEntitles'
  <2>1. /\ pc = "planned" /\ v \in plan.del /\ UNCHANGED snap
        /\ revs' = [revs EXCEPT ![v] = None]
        /\ plan' = [plan EXCEPT !.del = @ \ {v}]
    BY <1>3 DEF DeleteRevision, EndSync, WriteRevision
  <2>2. /\ plan'.want = plan.want /\ plan'.claims = plan.claims
        /\ plan'.base = plan.base
        /\ plan'.del = plan.del \ {v} /\ plan'.put = plan.put
    BY <2>1 DEF TypeOK, Plans
  <2> QED
    BY <2>1, <2>2 DEF PlanEntitles, Entitled, Desired, TypeOK
<1>4. ASSUME NEW v \in Version, PutRevision(v), pc' = "planned"
      PROVE  PlanEntitles'
  <2>1. /\ pc = "planned" /\ UNCHANGED snap
        /\ revs' = [revs EXCEPT ![v] = plan.claims[v]]
        /\ plan' = [plan EXCEPT !.put = @ \ {v}]
    BY <1>4 DEF PutRevision, EndSync, WriteRevision
  <2>2. /\ plan'.want = plan.want /\ plan'.claims = plan.claims
        /\ plan'.base = plan.base
        /\ plan'.del = plan.del /\ plan'.put = plan.put \ {v}
    BY <2>1 DEF TypeOK, Plans
  <2> QED
    BY <2>1, <2>2 DEF PlanEntitles, Entitled, Desired, TypeOK
<1>5. ASSUME NEW c \in Child, DeleteChild(c) PROVE PlanEntitles'
  <2>1. UNCHANGED <<pc, revs, snap.spec>>
    BY <1>5 DEF DeleteChild, TypeOK
  <2>2. \/ plan' = [plan EXCEPT !.todel = @ \ {c}]
        \/ plan' = [plan EXCEPT !.todel = @ \ {c}, !.failed = TRUE]
    BY <1>5, Zenon DEF DeleteChild
  <2> QED
    BY <1>2, <2>1, <2>2 DEF TypeOK, Plans
<1>6. ASSUME NEW c \in Child, ApplyChild(c) PROVE PlanEntitles'
  <2>1. UNCHANGED <<pc, revs, snap.spec>>
    BY <1>6 DEF ApplyChild, TypeOK
  <2>2. \/ plan' = [plan EXCEPT !.todo = @ \ {c}]
        \/ plan' = [plan EXCEPT !.todo = @ \ {c}, !.failed = TRUE]
    BY <1>6, Zenon DEF ApplyChild
  <2> QED
    BY <1>2, <2>1, <2>2 DEF TypeOK, Plans
<1>7. ASSUME NEW c \in Child, ChildCallFails(c) PROVE PlanEntitles'
  <2>1. UNCHANGED <<pc, revs, snap.spec>>
    BY <1>7 DEF ChildCallFails, store
  <2> QED
    BY <1>2, <1>7, <2>1 DEF ChildCallFails, TypeOK, Plans
<1>8. ASSUME NEW c \in Child, NEW object, NEW lag, EnvWritesChild(c, object, lag)
      PROVE  PlanEntitles'
  <2>1. UNCHANGED <<pc, revs, plan, snap.spec>>
    BY <1>8 DEF EnvWritesChild, TypeOK
  <2> QED
    BY <1>2, <2>1
<1>9. CASE UNCHANGED vars
  BY <1>2, <1>9 DEF vars, store, sync
<1> HIDE DEF Keeps
<1>10. ASSUME Worker PROVE PlanEntitles'
  <2>1. BeginSync \/ PlanPanics \/ FinishSync => pc' # "planned"
    BY DEF BeginSync, PlanPanics, FinishSync, Restart, EndSync
  <2> QED
    BY <1>1, <1>3, <1>4, <1>5, <1>6, <1>10, <2>1, PlanRolloutEntitles DEF Worker
<1>11. ASSUME Informers PROVE PlanEntitles'
  BY <1>2, <1>11 DEF Informers, ParentEvent, ParentResync, RevisionEvent, ChildEvent,
                     sync, store, Keeps
<1>12. ASSUME Faults PROVE PlanEntitles'
  <2>1. Crash \/ AbortSync => pc' # "planned"
    BY DEF Crash, AbortSync, Restart, EndSync
  <2> QED
    BY <1>1, <1>7, <1>8, <1>12, <2>1 DEF Faults, ChildBreaks, ChildDrained
<1>13. ASSUME Environment PROVE PlanEntitles'
  <2>1. ASSUME NEW spec \in ParentSpec, EditParent(spec) PROVE PlanEntitles'
    BY <1>2, <2>1 DEF EditParent, sync, Keeps
  <2> QED
    BY <1>8, <1>13, <2>1 DEF Environment, ChildSettles, ChildRemoved
<1> QED
  BY <1>9, <1>10, <1>11, <1>12, <1>13 DEF Next

LEMMA EntitlesCommitted == TypeOK /\ PlanEntitles => CommittedBeforeActing
<1> SUFFICES ASSUME TypeOK, PlanEntitles, RevisionsCommitted,
                    NEW c \in Desired \intersect RollingChild,
                    plan.base[plan.want[c]] \in {"same", None}
             PROVE  revs[plan.want[c]] # None /\ c \in revs[plan.want[c]]
  BY DEF CommittedBeforeActing
<1>1. Entitled(c) /\ plan.put = {}
  BY DEF PlanEntitles, RevisionsCommitted
<1>2. plan.claims[plan.want[c]] \in SUBSET Child
  BY <1>1 DEF Entitled, TypeOK, Plans
<1> QED
  BY <1>1, <1>2, ConstantsAssumption DEF Entitled

(* No child is ever created, deleted or updated before the stored revisions *)
(* entitle every rolling child to the version this sync gives it, whatever  *)
(* others of the copies it read were old: manageRevisions commits before    *)
(* ManageChildren acts.                                                     *)
THEOREM CommitsBeforeActing == Spec => []CommittedBeforeActing
<1>1. Init => PlanEntitles /\ SameCopies
  <2>1. Init => PlanEntitles
    BY DEF Init, PlanEntitles
  <2>2. Init => TypeOK /\ cRevs = Copies(revs)
    BY InitType DEF Init
  <2> QED
    BY <2>1, <2>2, CopiesAreSame DEF SameCopies
<1>2. TypeOK /\ SameCopies /\ PlanEntitles /\ [Next]_vars => SameCopies' /\ PlanEntitles'
  BY PlanEntitlesStep, SameCopiesStep
<1> QED
  BY <1>1, <1>2, TypeCorrect, EntitlesCommitted, PTL DEF Spec
=============================================================================
