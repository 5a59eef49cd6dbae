-------------------------- MODULE CompositeRollout --------------------------
(***************************************************************************)
(* The rolling update of one parent of a CompositeController.              *)
(*                                                                         *)
(* A worker syncs the parent again and again.  Each sync reads the parent, *)
(* the children and the ControllerRevisions from informer caches that lag  *)
(* behind the API server, calls the sync hook for every revision, decides  *)
(* which revision owns which child (syncRollingUpdate), persists that      *)
(* decision revision by revision (manageRevisions), and only then touches  *)
(* the children one API call at a time (ManageChildren).  A crash or an    *)
(* API error may end it between any two calls.                             *)
(*                                                                         *)
(* Child ownership (controllerRefs) is the subject of module ChildClaims;  *)
(* here every child of the parent is already owned by it.                  *)
(***************************************************************************)
EXTENDS Naturals, FiniteSets

CONSTANTS
  Version,   \* values of the parent's revisionHistory fields; a version is
             \* also the name of its ControllerRevision (a hash of the patch)
  Child,     \* names of children
  Kind,      \* child kinds
  KindOf,    \* [Child -> Kind]
  Method,    \* [Kind -> update method]
  Content,   \* what a child's spec may hold
  Template,  \* [Version -> [Child -> Content]], what the sync hook asks for
  Scale,     \* the sets of children a parent may ask for
  InitSpec,  \* the parent's spec at first
  Reporting, \* the kinds whose status has an observedGeneration
  MaxEdits,  \* bound: edits of the parent's spec
  MaxFaults, \* bound: crashes, failed API calls, children that turn unhappy
             \* or are deleted by somebody else
  None       \* no such object

Methods == {"OnDelete", "Recreate", "InPlace", "RollingRecreate", "RollingInPlace"}

ParentSpec == [ver : Version, scale : Scale]

Health == {"bad", "stale", "good"}

Object == [content : Content, health : Health, deleting : BOOLEAN]

(* A copy of an object, in a cache or a sync, is "same" while the object    *)
(* has the resourceVersion of the copy, "changed" once it was written, and  *)
(* "gone" once it was deleted, even if an object of the same name (with     *)
(* another UID) exists.                                                     *)
Lag == {"same", "changed", "gone"}

ChildCopy == [obj : Object, lag : Lag]
RevisionCopy == [obj : SUBSET Child, lag : Lag]

ASSUME ConstantsAssumption ==
  /\ IsFiniteSet(Version)
  /\ KindOf \in [Child -> Kind]
  /\ Method \in [Kind -> Methods]
  /\ Template \in [Version -> [Child -> Content]]
  /\ Scale \subseteq SUBSET Child
  /\ InitSpec \in ParentSpec
  /\ Reporting \subseteq Kind
  /\ MaxEdits \in Nat
  /\ MaxFaults \in Nat
  /\ None \notin Version \union Content \union Lag
  /\ \A x \in SUBSET Child : x # None
  /\ \A x \in Object : x # None
  /\ \A x \in ChildCopy : x # None
  /\ \A x \in RevisionCopy : x # None

VARIABLES
  parent,      \* API server: [spec, cond], cond is the Updated condition
  revs,        \* API server: [Version -> children claimed, or None]
  children,    \* API server: [Child -> object or None]
  cParent,     \* informer caches of the three
  cRevs,
  cChildren,
  queued,      \* is the parent's key in the work queue?
  pc,          \* the worker: "idle", "observed", "planned"
  snap,        \* what this sync read: [spec, obs]
  plan,        \* what this sync decided
  updating,    \* history: the version a child is being updated to until it
               \* is seen healthy with it or created at another
  astray,      \* history: has a sync read children or revisions that were no
               \* longer so, or ended before it stored all its revisions?
  edits, faults

store == <<parent, revs, children>>
cache == <<cParent, cRevs, cChildren>>
sync  == <<pc, snap, plan>>
history == <<updating, astray>>
vars  == <<store, cache, queued, sync, history, edits, faults>>

-----------------------------------------------------------------------------
(* Objects and the copies a cache or a sync holds of them. *)

Fresh(object) == [obj |-> object, lag |-> "same"]

Copy(object) == IF object = None THEN None ELSE Fresh(object)

Copies(objects) == [x \in DOMAIN objects |-> Copy(objects[x])]

(* The copies after object x was written (lag "changed") or deleted ("gone"). *)
Age(copies, x, lag) ==
  [copies EXCEPT ![x] = IF @ = None \/ @.lag = "gone" THEN @
                        ELSE [@ EXCEPT !.lag = lag]]

IsRolling(kind) == Method[kind] \in {"RollingInPlace", "RollingRecreate"}
AnyRolling == \E k \in Kind : IsRolling(k)

RollingChild == {c \in Child : IsRolling(KindOf[c])}

-----------------------------------------------------------------------------
(* syncRollingUpdate, over a list of revisions: the latest first, then the  *)
(* other observed revisions in any order.                                   *)

Latest == snap.spec.ver
Desired == snap.spec.scale

ObservedRevisions == {v \in Version : cRevs[v] # None}

Lists ==
  {l \in UNION {[1..n -> Version] : n \in 1..Cardinality(Version)} :
     /\ l[1] = Latest
     /\ \A i, j \in DOMAIN l : l[i] = l[j] => i = j
     /\ {l[i] : i \in DOMAIN l} = {Latest} \union ObservedRevisions}

ClaimsOf(v) == IF cRevs[v] = None THEN {} ELSE cRevs[v].obj

(* syncRevisionClaims gives a rolling, desired child to the first revision  *)
(* of the list that claims it.                                              *)
Accepts(list, i, c) ==
  /\ c \in ClaimsOf(list[i]) \intersect RollingChild \intersect Desired
  /\ \A j \in DOMAIN list : c \in ClaimsOf(list[j]) => i <= j

(* The claims syncRevisionClaims leaves in a revision: none of a kind of    *)
(* which it accepted nothing, and all of any other kind.  (It builds the    *)
(* accepted names and then keeps the entry it read.)                        *)
SyncRevisionClaims(list, i) ==
  {c \in ClaimsOf(list[i]) \intersect RollingChild :
     \E d \in Child : KindOf[d] = KindOf[c] /\ Accepts(list, i, d)}

Unclaimed(list) ==
  {c \in Desired \intersect RollingChild : \A i \in DOMAIN list : ~Accepts(list, i, c)}

(* Merging the latest desired state into the child would change nothing. *)
IsNoOp(c) == snap.obs[c] # None /\ snap.obs[c].obj.content = Template[Latest][c]

MovesForFree(list) ==
  {c \in Desired : IsNoOp(c) /\ \E i \in DOMAIN list : i > 1 /\ Accepts(list, i, c)}

(* The claims after the first loop of syncRollingUpdate.  The mutant does   *)
(* not take a child that moves for free from the revision that had it.      *)
FirstPassKeepsOld(list) ==
  [i \in DOMAIN list |->
     IF i = 1
     THEN SyncRevisionClaims(list, 1) \union Unclaimed(list) \union MovesForFree(list)
     ELSE SyncRevisionClaims(list, i)]

FirstPass(list) ==
  [i \in DOMAIN list |->
     IF i = 1
     THEN SyncRevisionClaims(list, 1) \union Unclaimed(list) \union MovesForFree(list)
     ELSE SyncRevisionClaims(list, i)
            \ {c \in MovesForFree(list) : Accepts(list, i, c)}]

(* The children that the second loop finds not to be on the latest revision. *)
OnLatest(list, c) ==
  c \in Unclaimed(list) \union MovesForFree(list) \/ Accepts(list, 1, c)

Pending(list) == {c \in Desired \intersect RollingChild : ~OnLatest(list, c)}

(* shouldContinueRolling: what a child claimed by the latest revision makes *)
(* the rollout wait for.  The mutant skips the status checks.               *)
IsObserved(c) == snap.obs[c] # None

Healthy(c) ==
  \/ snap.obs[c].obj.health = "good"
  \/ /\ snap.obs[c].obj.health = "stale"
     /\ ~(Method[KindOf[c]] = "RollingInPlace" /\ KindOf[c] \in Reporting)

WaitsForUpdateOnly(c) == ~IsObserved(c) \/ (c \in Desired /\ ~IsNoOp(c))

WaitsFor(c) ==
  ~IsObserved(c) \/ (c \in Desired /\ (~IsNoOp(c) \/ ~Healthy(c)))

(* For a child that is observed but no longer desired, Merge dereferences   *)
(* the nil desired object.                                                  *)
PanicsOn(c) == IsObserved(c) /\ c \notin Desired

(* The one move of a sync.  The mutants forget one half of it. *)
MoveOneKeepsOld(claims, c) == [claims EXCEPT ![1] = @ \union {c}]

MoveOneForgetsNew(claims, c) == [i \in DOMAIN claims |-> claims[i] \ {c}]

MoveOne(claims, c) ==
  [i \in DOMAIN claims |-> IF i = 1 THEN claims[1] \union {c} ELSE claims[i] \ {c}]

(* The outcomes of syncRollingUpdate: what every listed revision claims,    *)
(* and the Updated condition it reports.                                    *)
Outcome(claims, reason) == [claims |-> claims, reason |-> reason]

RollingUpdates(list) ==
  LET claims == FirstPass(list)
      CanContinue == \A c \in claims[1] : ~WaitsFor(c) /\ ~PanicsOn(c)
  IN {o \in {Outcome(claims, "OnLatestRevision")} : Pending(list) = {}}
     \union {o \in {Outcome(claims, "RolloutWaiting")} :
               Pending(list) # {} /\ \E c \in claims[1] : WaitsFor(c)}
     \union {Outcome(MoveOne(claims, c), "RolloutProgressing") :
               c \in {d \in Pending(list) : CanContinue}}

RollingUpdatePanics(list) ==
  Pending(list) # {} /\ \E c \in FirstPass(list)[1] : PanicsOn(c)

(* The revisions that pruneParentRevisions keeps, as indices of the list.   *)
(* The mutants keep all of them, and the latest only.                       *)
KeptAll(claims) == DOMAIN claims

KeptLatestOnly(claims) == {1}

Kept(claims) == {i \in DOMAIN claims : i = 1 \/ claims[i] # {}}

(* The version each desired child is to have: the latest, overwritten in    *)
(* list order by every other revision that still claims the child.          *)
DesiredVersions(list, claims) ==
  {want \in [Desired -> Version] :
     \A c \in Desired : \E i \in DOMAIN list :
       /\ want[c] = list[i]
       /\ i = 1 \/ c \in claims[i]
       /\ \A j \in DOMAIN list : c \in claims[j] => j <= i}

(* The objects ManageChildren acts on: those it deletes, and those it       *)
(* creates, recreates or updates.                                           *)
ToDelete == {c \in Child \ Desired : snap.obs[c] # None /\ ~snap.obs[c].obj.deleting}

Differs(c, want) ==
  /\ snap.obs[c].obj.content # Template[want[c]][c]
  /\ ~snap.obs[c].obj.deleting
  /\ Method[KindOf[c]] # "OnDelete"

ToApply(want) == {c \in Desired : snap.obs[c] = None \/ Differs(c, want)}

NoPlan == [del |-> {}, put |-> {}, claims |-> [v \in Version |-> {}],
           base |-> [v \in Version |-> None], twice |-> {},
           want |-> [c \in Child |-> None], todel |-> {}, todo |-> {},
           reason |-> "", failed |-> FALSE]

Wanted(want) == [c \in Child |-> IF c \in Desired THEN want[c] ELSE None]

PlanFor(list, outcome, want) ==
  LET kept == {list[i] : i \in Kept(outcome.claims)}
      claims == [v \in Version |->
                   {c \in Child : \E i \in Kept(outcome.claims) :
                                    list[i] = v /\ c \in outcome.claims[i]}]
  IN [del |-> ObservedRevisions \ kept,
      put |-> {v \in kept : cRevs[v] = None \/ ClaimsOf(v) # claims[v]},
      claims |-> claims,
      base |-> [v \in Version |-> IF cRevs[v] = None THEN None ELSE cRevs[v].lag],
      twice |-> {c \in Child : \E v, w \in Version :
                                 v # w /\ c \in ClaimsOf(v) \intersect ClaimsOf(w)},
      want |-> Wanted(want), todel |-> ToDelete, todo |-> ToApply(want),
      reason |-> outcome.reason, failed |-> FALSE]

(* Without rolling kinds the hook is called for the latest parent alone. *)
PlanLatestOnly ==
  LET want == [c \in Desired |-> Latest]
  IN [NoPlan EXCEPT !.want = Wanted(want), !.todel = ToDelete, !.todo = ToApply(want)]

-----------------------------------------------------------------------------
NoSnap == [spec |-> InitSpec, obs |-> [c \in Child |-> None]]

Init ==
  /\ parent = [spec |-> InitSpec, cond |-> None]
  /\ revs = [v \in Version |-> None]
  /\ children = [c \in Child |-> None]
  /\ cParent = Fresh(parent)
  /\ cRevs = Copies(revs)
  /\ cChildren = Copies(children)
  /\ queued = TRUE
  /\ pc = "idle"
  /\ snap = NoSnap
  /\ plan = NoPlan
  /\ updating = [c \in Child |-> None]
  /\ astray = FALSE
  /\ edits = 0
  /\ faults = 0

RevisionsCommitted == pc = "planned" /\ plan.del = {} /\ plan.put = {}

(* The end of a sync: the worker forgets everything it read and decided,    *)
(* and an error puts the key back into the queue.                           *)
EndSync(failed) ==
  /\ pc' = "idle"
  /\ snap' = NoSnap
  /\ plan' = NoPlan
  /\ queued' = (queued \/ failed)
  /\ astray' = (astray \/ (pc = "planned" /\ ~RevisionsCommitted))

(* A restarted process lists everything afresh and syncs every parent. *)
Restart ==
  /\ EndSync(TRUE)
  /\ cParent' = Fresh(parent)
  /\ cRevs' = Copies(revs)
  /\ cChildren' = Copies(children)
  /\ UNCHANGED <<store, updating, edits>>

(* queue.Get, the read of the parent and the claim of its children. *)
BeginSync ==
  /\ pc = "idle" /\ queued
  /\ queued' = FALSE
  /\ pc' = "observed"
  /\ snap' = [spec |-> cParent.obj.spec, obs |-> cChildren]
  /\ astray' = (astray \/ cChildren # Copies(children))
  /\ UNCHANGED <<store, cache, plan, updating, edits, faults>>

(* syncRevisions up to the first API call: claim the revisions, call the    *)
(* sync hook for each, decide.                                              *)
PlanRollout ==
  /\ pc = "observed"
  /\ pc' = "planned"
  /\ \/ /\ AnyRolling
        /\ \E list \in Lists : \E outcome \in RollingUpdates(list) :
             \E want \in DesiredVersions(list, outcome.claims) :
               plan' = PlanFor(list, outcome, want)
     \/ /\ ~AnyRolling
        /\ plan' = PlanLatestOnly
  /\ astray' = (astray \/ cRevs # Copies(revs))
  /\ UNCHANGED <<store, cache, queued, snap, updating, edits, faults>>

PlanPanics ==
  /\ pc = "observed"
  /\ AnyRolling
  /\ \E list \in Lists : RollingUpdatePanics(list)
  /\ Restart
  /\ UNCHANGED faults

WriteRevision(v, claims) ==
  /\ revs' = [revs EXCEPT ![v] = claims]
  /\ cRevs' = Age(cRevs, v, IF claims = None THEN "gone" ELSE "changed")

(* manageRevisions, first loop: delete with a UID precondition. *)
DeleteRevision(v) ==
  /\ pc = "planned" /\ v \in plan.del
  /\ IF revs[v] # None /\ plan.base[v] # "gone"
     THEN /\ WriteRevision(v, None)
          /\ plan' = [plan EXCEPT !.del = @ \ {v}]
          /\ UNCHANGED <<queued, pc, snap, astray>>
     ELSE EndSync(TRUE) /\ UNCHANGED <<revs, cRevs>>
  /\ UNCHANGED <<parent, children, cParent, cChildren, updating, edits, faults>>

(* manageRevisions, second loop: the latest first; an update carries the    *)
(* resourceVersion of the copy, a create fails if the name is taken.        *)
PutRevision(v) ==
  /\ pc = "planned" /\ plan.del = {} /\ v \in plan.put
  /\ Latest \in plan.put => v = Latest
  /\ IF plan.base[v] = "same" \/ (plan.base[v] = None /\ revs[v] = None)
     THEN /\ WriteRevision(v, plan.claims[v])
          /\ plan' = [plan EXCEPT !.put = @ \ {v}]
          /\ UNCHANGED <<queued, pc, snap, astray>>
     ELSE EndSync(TRUE) /\ UNCHANGED <<revs, cRevs>>
  /\ UNCHANGED <<parent, children, cParent, cChildren, updating, edits, faults>>

WriteChild(c, object, lag) ==
  /\ children' = [children EXCEPT ![c] = object]
  /\ cChildren' = Age(cChildren, c, lag)

(* deleteChildren, for one child. *)
DeleteChild(c) ==
  /\ RevisionsCommitted /\ c \in plan.todel
  /\ IF children[c] # None /\ snap.obs[c].lag # "gone"
     THEN /\ WriteChild(c, [children[c] EXCEPT !.deleting = TRUE], "changed")
          /\ snap' = [snap EXCEPT !.obs = Age(@, c, "changed")]
          /\ plan' = [plan EXCEPT !.todel = @ \ {c}]
          /\ updating' = [updating EXCEPT ![c] = None]
     ELSE /\ plan' = [plan EXCEPT !.todel = @ \ {c}, !.failed = TRUE]
          /\ UNCHANGED <<children, cChildren, snap, updating>>
  /\ UNCHANGED <<parent, revs, cParent, cRevs, queued, pc, astray, edits, faults>>

(* updateChildren, for one child: whether its API call can succeed (a       *)
(* create needs a free name, a delete the same UID, an update the same      *)
(* resourceVersion) and what it makes of the child.                         *)
CanCreate(c) == snap.obs[c] = None /\ children[c] = None

CanRecreate(c) ==
  /\ snap.obs[c] # None /\ children[c] # None
  /\ snap.obs[c].lag # "gone"
  /\ Method[KindOf[c]] \in {"Recreate", "RollingRecreate"}

CanUpdate(c) ==
  /\ snap.obs[c] # None /\ children[c] # None
  /\ snap.obs[c].lag = "same"
  /\ Method[KindOf[c]] \in {"InPlace", "RollingInPlace"}

CreateChild(c) ==
  /\ CanCreate(c)
  /\ WriteChild(c, [content |-> Template[plan.want[c]][c], health |-> "bad",
                    deleting |-> FALSE], "changed")
  /\ updating' = [updating EXCEPT ![c] = IF @ = plan.want[c] THEN @ ELSE None]

RecreateChild(c) ==
  /\ CanRecreate(c)
  /\ WriteChild(c, [children[c] EXCEPT !.deleting = TRUE], "changed")
  /\ updating' = [updating EXCEPT ![c] = plan.want[c]]

UpdateChild(c) ==
  /\ CanUpdate(c)
  /\ WriteChild(c, [children[c] EXCEPT !.content = Template[plan.want[c]][c],
                                       !.health = IF @ = "bad" THEN "bad" ELSE "stale"],
                "changed")
  /\ updating' = [updating EXCEPT ![c] = plan.want[c]]

ApplyChild(c) ==
  /\ RevisionsCommitted /\ plan.todel = {} /\ c \in plan.todo
  /\ \/ /\ CreateChild(c) \/ RecreateChild(c) \/ UpdateChild(c)
        /\ snap' = [snap EXCEPT !.obs = Age(@, c, "changed")]
        /\ plan' = [plan EXCEPT !.todo = @ \ {c}]
     \/ /\ ~CanCreate(c) /\ ~CanRecreate(c) /\ ~CanUpdate(c)
        /\ plan' = [plan EXCEPT !.todo = @ \ {c}, !.failed = TRUE]
        /\ UNCHANGED <<children, cChildren, snap, updating>>
  /\ UNCHANGED <<parent, revs, cParent, cRevs, queued, pc, astray, edits, faults>>

WriteParent(object) ==
  /\ parent' = object
  /\ cParent' = IF object = parent THEN cParent ELSE [cParent EXCEPT !.lag = "changed"]

(* updateParentStatus sets the status of the parent as it is stored now and  *)
(* leaves its spec alone.  The mutant overwrites the object.                 *)
StatusOnly(object) == [reason |-> plan.reason, spec |-> snap.spec]

WithStatus(object) ==
  [object EXCEPT !.cond = [reason |-> plan.reason, spec |-> snap.spec]]

(* The parent's status is written, if it changed, whatever ManageChildren returned. *)
FinishSync ==
  /\ RevisionsCommitted /\ plan.todel = {} /\ plan.todo = {}
  /\ WriteParent(WithStatus(parent))
  /\ EndSync(plan.failed)
  /\ UNCHANGED <<revs, children, cRevs, cChildren, updating, edits, faults>>

-----------------------------------------------------------------------------
(* Faults of the worker: a crash, an API call that fails or whose answer is *)
(* lost, a hook that fails.                                                 *)
Crash ==
  /\ faults < MaxFaults
  /\ faults' = faults + 1
  /\ Restart

AbortSync ==
  /\ faults < MaxFaults
  /\ pc # "idle"
  /\ faults' = faults + 1
  /\ EndSync(TRUE)
  /\ UNCHANGED <<store, cache, updating, edits>>

ChildCallFails(c) ==
  /\ faults < MaxFaults
  /\ RevisionsCommitted
  /\ \/ c \in plan.todel
     \/ plan.todel = {} /\ c \in plan.todo
  /\ faults' = faults + 1
  /\ plan' = [plan EXCEPT !.todel = @ \ {c}, !.todo = @ \ {c}, !.failed = TRUE]
  /\ UNCHANGED <<store, cache, queued, pc, snap, history, edits>>

(* Watch events: the cache of one kind of objects catches up with the API   *)
(* server, and the handlers enqueue the parent.  ControllerRevisions have   *)
(* no handler.                                                              *)
ParentEvent ==
  /\ cParent # Fresh(parent)
  /\ cParent' = Fresh(parent)
  /\ queued' = TRUE
  /\ UNCHANGED <<store, cRevs, cChildren, sync, history, edits, faults>>

RevisionEvent ==
  /\ cRevs # Copies(revs)
  /\ cRevs' = Copies(revs)
  /\ UNCHANGED <<store, cParent, cChildren, queued, sync, history, edits, faults>>

ChildEvent(k) ==
  LET fresh == [c \in Child |-> IF KindOf[c] = k THEN Copies(children)[c] ELSE cChildren[c]]
  IN /\ cChildren # fresh
     /\ cChildren' = fresh
     /\ queued' = TRUE
     /\ UNCHANGED <<store, cParent, cRevs, sync, history, edits, faults>>

(* The informer's periodic resync hands every cached parent to              *)
(* updateParentObject, which enqueues it even if nothing changed.           *)
ParentResync ==
  /\ ~queued
  /\ queued' = TRUE
  /\ UNCHANGED <<store, cache, sync, history, edits, faults>>

(* The user edits the parent. *)
EditParent(spec) ==
  /\ edits < MaxEdits
  /\ spec # parent.spec
  /\ edits' = edits + 1
  /\ WriteParent([parent EXCEPT !.spec = spec])
  /\ UNCHANGED <<revs, children, cRevs, cChildren, queued, sync, history, faults>>

(* The child's own controller. *)
EnvWritesChild(c, object, lag) ==
  /\ WriteChild(c, object, lag)
  /\ snap' = [snap EXCEPT !.obs = Age(@, c, lag)]
  /\ UNCHANGED <<parent, revs, cParent, cRevs, queued, pc, plan, astray, edits>>

ChildSettles(c) ==
  /\ children[c] # None
  /\ children[c].health # "good" /\ ~children[c].deleting
  /\ EnvWritesChild(c, [children[c] EXCEPT !.health = "good"], "changed")
  /\ updating' = [updating EXCEPT ![c] = None]
  /\ UNCHANGED faults

ChildBreaks(c) ==
  /\ faults < MaxFaults
  /\ children[c] # None
  /\ children[c].health = "good"
  /\ faults' = faults + 1
  /\ EnvWritesChild(c, [children[c] EXCEPT !.health = "bad"], "changed")
  /\ UNCHANGED updating

(* Something else deletes a child, say a node drain. *)
ChildDrained(c) ==
  /\ faults < MaxFaults
  /\ children[c] # None
  /\ ~children[c].deleting
  /\ faults' = faults + 1
  /\ EnvWritesChild(c, [children[c] EXCEPT !.deleting = TRUE], "changed")
  /\ UNCHANGED updating

ChildRemoved(c) ==
  /\ children[c] # None
  /\ children[c].deleting
  /\ EnvWritesChild(c, None, "gone")
  /\ UNCHANGED <<updating, faults>>

-----------------------------------------------------------------------------
Worker ==
  \/ BeginSync \/ PlanRollout \/ PlanPanics \/ FinishSync
  \/ \E v \in Version : DeleteRevision(v) \/ PutRevision(v)
  \/ \E c \in Child : DeleteChild(c) \/ ApplyChild(c)

Informers == ParentEvent \/ ParentResync \/ RevisionEvent \/ \E k \in Kind : ChildEvent(k)

Faults == Crash \/ AbortSync \/ \E c \in Child : ChildCallFails(c) \/ ChildBreaks(c) \/ ChildDrained(c)

Environment ==
  \/ \E spec \in ParentSpec : EditParent(spec)
  \/ \E c \in Child : ChildSettles(c) \/ ChildRemoved(c)

Next == Worker \/ Informers \/ Faults \/ Environment

Spec == Init /\ [][Next]_vars

(* The worker goes on, and so do the watches and the children's controller:  *)
(* one of them at a time is enough.  FairSpec has the resync come again too. *)
Progresses ==
  \/ ParentEvent \/ RevisionEvent
  \/ \E k \in Kind : ChildEvent(k)
  \/ \E c \in Child : ChildSettles(c) \/ ChildRemoved(c)

EventSpec == Spec /\ WF_vars(Worker) /\ WF_vars(Progresses)

FairSpec == EventSpec /\ WF_vars(ParentResync)

-----------------------------------------------------------------------------
Reasons == {"", "RolloutWaiting", "RolloutProgressing", "OnLatestRevision"}

Conditions == {None} \union [reason : Reasons, spec : ParentSpec]

ChildCopies == [Child -> {None} \union ChildCopy]
RevisionCopies == [Version -> {None} \union RevisionCopy]

Plans ==
  [del : SUBSET Version, put : SUBSET Version, claims : [Version -> SUBSET Child],
   base : [Version -> Lag \union {None}], twice : SUBSET Child,
   want : [Child -> Version \union {None}], todel : SUBSET Child, todo : SUBSET Child, reason : Reasons, failed : BOOLEAN]

TypeOK ==
  /\ parent \in [spec : ParentSpec, cond : Conditions]
  /\ revs \in [Version -> {None} \union SUBSET Child]
  /\ children \in [Child -> {None} \union Object]
  /\ cParent \in [obj : [spec : ParentSpec, cond : Conditions], lag : Lag]
  /\ cRevs \in RevisionCopies
  /\ cChildren \in ChildCopies
  /\ queued \in BOOLEAN
  /\ pc \in {"idle", "observed", "planned"}
  /\ snap \in [spec : ParentSpec, obs : ChildCopies]
  /\ plan \in Plans
  /\ updating \in [Child -> Version \union {None}]
  /\ astray \in BOOLEAN
  /\ edits \in 0..MaxEdits
  /\ faults \in 0..MaxFaults

-----------------------------------------------------------------------------
(* Properties.  Nothing waits for the caches: what a sync of old copies may *)
(* do is said with each property, by the copies the sync in question had.   *)

(* The rolling children that the parent asks for at any of its scales, and  *)
(* those of them whose status tells which generation it speaks of.          *)
AlwaysAsked == {c \in RollingChild : \A scale \in Scale : c \in scale}

Paced == {c \in AlwaysAsked :
            Method[KindOf[c]] = "RollingInPlace" => KindOf[c] \in Reporting}

(* At most one of the children that a revision claims is being updated to   *)
(* it at a time: shouldContinueRolling holds the next child back until the  *)
(* ones the latest revision claims were seen updated and happy.  (A child   *)
(* that is scaled away and back is claimed without waiting.)  It is so up   *)
(* to the first sync that reads old copies or stores its revisions in part, *)
(* for the claims it leaves behind are believed by all later ones.          *)
OneAtATime ==
  ~astray =>
    \A v \in Version : revs[v] # None =>
      \A c, d \in revs[v] \intersect Paced :
        updating[c] = v /\ updating[d] = v => c = d

(* "We don't want to start acting before we persist our desired end state": *)
(* once manageRevisions returned, the stored revisions entitle every rolling *)
(* child to the version ManageChildren is about to give it, however old the *)
(* copies of others were; but a revision that needs no write is not looked  *)
(* at again.  So a child that was deleted by others comes back at the       *)
(* revision it was on.                                                      *)
CommittedBeforeActing ==
  RevisionsCommitted =>
    \A c \in Desired \intersect RollingChild :
      LET v == plan.want[c]
      IN plan.base[v] \in {"same", None} => revs[v] # None /\ c \in revs[v]

(* Deleting and rewriting revisions one by one never takes the last claim   *)
(* of a rolling child, which no edit scales away: it is another's already,  *)
(* and only a revision that is deleted may go before this very sync writes  *)
(* the claim into the latest.  The sync can be wrong about it only if all   *)
(* the copies it means to keep the claim in were old.                       *)
Claimed(c) == \E v \in Version : revs[v] # None /\ c \in revs[v]

NeverUnclaimed ==
  [][ \A c \in AlwaysAsked :
        Claimed(c) /\ ~Claimed(c)' =>
          \/ /\ Latest \in plan'.put /\ c \in plan'.claims[Latest]
             /\ \E v \in Version : revs[v] # None /\ revs'[v] = None
          \/ /\ \E v \in Version : c \in plan.claims[v]
             /\ \A v \in Version :
                  c \in plan.claims[v] => plan.base[v] \in {"changed", "gone"} ]_vars

(* A sync never takes the content of the version that is the latest to it   *)
(* away from a child: a child that has it is claimed by the latest revision *)
(* for free, and no other has a say in it, unless two of the copies that the *)
(* sync read claimed the child already.                                     *)
LatestWins ==
  [][ pc = "planned" =>
        \A c \in Desired \ plan.twice :
          /\ children[c] # None /\ children'[c] # None
          /\ children[c].content = Template[Latest][c]
          => children'[c].content = Template[Latest][c] ]_vars

(* When the parent is told that everything is on the latest revision, that  *)
(* one claims all rolling children it asks for; what is left of any other,  *)
(* which the sync saw as it is, is claims of children no longer asked for,  *)
(* or that were claimed twice before.                                       *)
StatusTruth ==
  [][ parent'.cond # parent.cond /\ parent'.cond.reason = "OnLatestRevision" =>
        LET told == parent'.cond.spec
        IN /\ plan.base[told.ver] \in {"same", None} =>
                revs'[told.ver] # None /\ told.scale \intersect RollingChild \subseteq revs'[told.ver]
           /\ \A v \in Version \ {told.ver} :
                plan.base[v] = "same" /\ revs'[v] # None =>
                  revs'[v] # {} /\ revs'[v] \intersect told.scale \subseteq plan.twice ]_vars

(* It implements RollingUpdate: the version of a child is the one whose     *)
(* claims name it, by the plan while there is one; and its content is, for a *)
(* sync that has yet to decide, what it saw.                                *)
ClaimsNow(v) ==
  CASE pc = "planned" -> plan.claims[v]
    [] pc # "planned" /\ revs[v] = None -> {}
    [] OTHER -> revs[v]

OwnerOf(c) ==
  IF \E v \in Version : c \in ClaimsNow(v)
  THEN CHOOSE v \in Version : c \in ClaimsNow(v)
  ELSE None

ContentOf(c) ==
  CASE pc = "observed" /\ snap.obs[c] # None -> snap.obs[c].obj.content
    [] pc # "observed" /\ children[c] # None -> children[c].content
    [] OTHER -> None

Owners == [c \in Paced |-> OwnerOf(c)]
Contents == [c \in Paced |-> ContentOf(c)]
Movings == [c \in Paced |-> updating[c]]

Rolls == INSTANCE RollingUpdate WITH
  Child <- Paced, owner <- Owners, content <- Contents, moving <- Movings

RollsOneByOne == Rolls!Spec

(* The rollout of the last edit finishes: every desired child has the       *)
(* content of its latest version, no other child is left, only the latest   *)
(* revision is, and the status says so.                                     *)
Done ==
  /\ \A c \in parent.spec.scale :
       /\ children[c] # None /\ ~children[c].deleting
       /\ children[c].content = Template[parent.spec.ver][c]
  /\ \A c \in Child \ parent.spec.scale : children[c] = None
  /\ \A v \in Version : revs[v] # None <=> v = parent.spec.ver
  /\ parent.cond = [reason |-> "OnLatestRevision", spec |-> parent.spec]

RolloutCompletes == <>[]Done

(* It does with the events alone, without the resync, if no sync went astray; *)
(* and with the resync, whatever copies were old, unless a child stays      *)
(* claimed by two revisions.                                                *)
DoublyClaimed ==
  {c \in Child : \E v, w \in Version :
     v # w /\ revs[v] # None /\ revs[w] # None /\ c \in revs[v] \intersect revs[w]}

RolloutGoesOn ==
  []~astray \/ (WF_vars(ParentResync) /\ <>[](DoublyClaimed = {})) => <>[]Done
=============================================================================
