--------------------------- MODULE ParentLifecycle ---------------------------
(***************************************************************************)
(* The life of one parent of a CompositeController: the controller's       *)
(* finalizer, the finalize hook, and the garbage collector that may be     *)
(* deleting the same children.                                             *)
(*                                                                         *)
(* The finalize hook is the one the documentation describes: it asks for   *)
(* all children it observes but the last, and says that it has finalized   *)
(* once it observes none.  A sync hook that shares its code may say so too.*)
(* The CompositeController may gain and lose its finalize hook, which      *)
(* restarts the controller; the informers it shares may outlive it.        *)
(***************************************************************************)
EXTENDS Naturals

CONSTANTS
  Child,      \* children the sync hook wants; numbers, torn down from the last
  MaxUid,     \* bound: incarnations of the parent
  MaxUpsets,  \* bound: steps of users after the parent's creation, crashes
              \* and failed calls, together
  None

Uid == 1..MaxUid

(* ours: the controller's finalizer; gc: the garbage collector's finalizer. *)
Parents == [uid : Uid, ours : BOOLEAN, gc : BOOLEAN, deleting : BOOLEAN]

Children == [owner : Uid, deleting : BOOLEAN]

(* A copy is "gone" when the object it was made of is, even if there is a   *)
(* new one of its name.                                                     *)
Copies == [obj : Children, lag : {"same", "changed", "gone"}]

ChildCopies == [Child -> Copies \union {None}]

Syncs == [pc : {"idle", "finalizer", "observe", "finalized", "manage"},
          me : Parents \union {None}, saw : ChildCopies,
          current : BOOLEAN, todel : SUBSET Child, tonew : SUBSET Child,
          failed : BOOLEAN]

ASSUME LifecycleAssumption ==
  /\ Child \subseteq Nat
  /\ MaxUid \in Nat /\ MaxUpsets \in Nat
  /\ \A x \in Parents \union Children \union Copies : x # None

VARIABLES
  parent, children,     \* API server
  cParent, cChildren,   \* informer caches, with the lag of each copy
  hooked,               \* the CompositeController has a finalize hook
  queued,               \* the parent's key is in the queue
  sync,                 \* the sync that runs; "current" is for the properties
  acted,                \* UIDs a child was created for, with a finalize hook
  cleaned,              \* UIDs a finalize hook has reported finalized
  lapsed,               \* UIDs without a finalizer by design: see CleansUp
  nextUid, upsets

store   == <<parent, children>>
caches  == <<cParent, cChildren>>
history == <<acted, cleaned, lapsed>>
bounds  == <<nextUid, upsets>>
vars    == <<store, caches, hooked, queued, sync, history, bounds>>

Idle == [pc |-> "idle", me |-> None, saw |-> [c \in Child |-> None],
         current |-> FALSE, todel |-> {}, tonew |-> {}, failed |-> FALSE]

Init ==
  /\ parent = None
  /\ children = [c \in Child |-> None]
  /\ cParent = [obj |-> None, lag |-> "same"]
  /\ cChildren = [c \in Child |-> None]
  /\ hooked \in BOOLEAN
  /\ queued = FALSE
  /\ sync = Idle
  /\ acted = {} /\ cleaned = {} /\ lapsed = {}
  /\ nextUid = 1 /\ upsets = 0

-----------------------------------------------------------------------------
(* The API server removes an object that is pending deletion with its last  *)
(* finalizer, and refuses to give such an object another one.               *)
Stored(object) ==
  IF object.deleting /\ ~object.ours /\ ~object.gc THEN None ELSE object

WriteParent(object) ==
  /\ parent' = object
  /\ cParent' = IF object = parent THEN cParent ELSE [cParent EXCEPT !.lag = "changed"]

Copy(object) == IF object = None THEN None ELSE [obj |-> object, lag |-> "same"]

AgeOne(copy, lag) ==
  IF copy = None \/ copy.lag = "gone" THEN copy ELSE [copy EXCEPT !.lag = lag]

(* The lag of copies of child c after a write. *)
Aged(copies, c, object) ==
  [copies EXCEPT ![c] = AgeOne(@, IF object = None THEN "gone" ELSE "changed")]

WriteChild(c, object) ==
  /\ children' = [children EXCEPT ![c] = object]
  /\ cChildren' = Aged(cChildren, c, object)

Live(me) == parent # None /\ parent.uid = me.uid

ChildrenOf(uid) == {c \in Child : children[c] # None /\ children[c].owner = uid}

-----------------------------------------------------------------------------
(* One sync, call by call. *)
Requeue == queued' = TRUE /\ sync' = Idle

BeginSync ==
  /\ sync.pc = "idle" /\ queued
  /\ queued' = FALSE
  /\ sync' = IF cParent.obj = None THEN Idle
             ELSE [Idle EXCEPT !.pc = "finalizer", !.me = cParent.obj]
  /\ UNCHANGED <<store, caches, hooked, history, bounds>>

(* Finalizer.SyncObject: nothing to do by the copy. *)
InRightState(me) == (me.ours = hooked) \/ (hooked /\ me.deleting)

(* AddFinalizer and RemoveFinalizer, through AtomicUpdate. *)
WithFinalizer(object) == [object EXCEPT !.ours = hooked]

(* The update is possible: the object is the one that was read, and it is   *)
(* not given a new finalizer while it is pending deletion.                  *)
Accepted(me) ==
  Live(me) /\ (hooked /\ parent.deleting => parent.ours)

(* The mutant goes on when the update is refused. *)
ToObserveAnyway ==
  /\ sync.pc = "finalizer"
  /\ IF ~InRightState(sync.me) /\ Accepted(sync.me)
     THEN /\ WriteParent(Stored(WithFinalizer(parent)))
          /\ sync' = [sync EXCEPT !.pc = "observe", !.me = WithFinalizer(parent)]
     ELSE /\ sync' = [sync EXCEPT !.pc = "observe"]
          /\ UNCHANGED <<parent, cParent>>
  /\ UNCHANGED queued

ToObserve ==
  /\ sync.pc = "finalizer"
  /\ \/ /\ InRightState(sync.me)
        /\ sync' = [sync EXCEPT !.pc = "observe"]
        /\ UNCHANGED <<parent, cParent, queued>>
     \/ /\ ~InRightState(sync.me) /\ Accepted(sync.me)
        /\ WriteParent(Stored(WithFinalizer(parent)))
        /\ sync' = [sync EXCEPT !.pc = "observe", !.me = WithFinalizer(parent)]
        /\ UNCHANGED queued
     \/ /\ ~InRightState(sync.me) /\ ~Accepted(sync.me)
        /\ Requeue
        /\ UNCHANGED <<parent, cParent>>

SyncFinalizer ==
  /\ ToObserve
  /\ lapsed' = IF parent' # None /\ parent'.ours THEN {} ELSE lapsed
  /\ UNCHANGED <<children, cChildren, hooked, acted, cleaned, bounds>>

(* claimChildren: the cached children this parent controls.  The mutant     *)
(* does not count those that are pending deletion.                          *)
ObservedLiving(me) ==
  {c \in Child : cChildren[c] # None /\ cChildren[c].obj.owner = me.uid
                 /\ ~cChildren[c].obj.deleting}

Observed(me) ==
  {c \in Child : cChildren[c] # None /\ cChildren[c].obj.owner = me.uid}

(* HookExecutor.Execute: which hook is called. *)
Finalizing(me) == me.deleting /\ hooked

(* What the hook answers to the children it is shown. *)
Wanted(me, seen) ==
  IF Finalizing(me) THEN {c \in seen : \E d \in seen : d > c} ELSE Child

MaySayFinalized(me, seen) ==
  IF Finalizing(me) THEN {seen = {}} ELSE {FALSE, seen = {}}

(* Finalizer.ShouldFinalize, and the guard of ManageChildren.  The mutant   *)
(* manages the children of every parent.                                    *)
ShouldFinalize(me) == ~me.gc /\ me.ours /\ hooked

ManagesAny(me) == TRUE

Manages(me) == ~me.deleting \/ ShouldFinalize(me)

(* deleteChildren and updateChildren: whose turn it is.  A child that is    *)
(* there is not changed by an update, a merge with what it was made from.   *)
ToManage(me, seen) ==
  LET wanted == Wanted(me, seen)
  IN [pc |-> "manage", me |-> me, failed |-> FALSE,
      saw |-> [c \in Child |-> IF c \in seen THEN cChildren[c] ELSE None],
      current |-> cChildren = [c \in Child |-> Copy(children[c])],
      todel |-> {c \in seen \ wanted : ~cChildren[c].obj.deleting},
      tonew |-> wanted \ seen]

CallHook ==
  /\ sync.pc = "observe"
  /\ LET me == sync.me
         seen == Observed(me)
     IN \E done \in MaySayFinalized(me, seen) :
          /\ sync' = [ToManage(me, seen) EXCEPT !.pc = IF done THEN "finalized" ELSE @]
          /\ cleaned' = IF done /\ Finalizing(me) THEN cleaned \union {me.uid}
                        ELSE cleaned
  /\ UNCHANGED <<store, caches, hooked, queued, acted, lapsed, bounds>>

(* RemoveFinalizer, once a hook said that it has finalized, be it the sync   *)
(* hook.  The sync goes on with the object as it was sent, which may no      *)
(* longer exist.                                                             *)
Without(object) == [object EXCEPT !.ours = FALSE]

RemoveFinalizer ==
  /\ sync.pc = "finalized"
  /\ \/ /\ Live(sync.me)
        /\ WriteParent(Stored(Without(parent)))
        /\ sync' = [sync EXCEPT !.pc = "manage", !.me = Without(parent)]
        /\ lapsed' = IF sync.me.deleting THEN lapsed ELSE lapsed \union {parent.uid}
        /\ UNCHANGED queued
     \/ /\ ~Live(sync.me)
        /\ Requeue
        /\ UNCHANGED <<parent, cParent, lapsed>>
  /\ UNCHANGED <<children, cChildren, hooked, acted, cleaned, bounds>>

(* ManageChildren: a delete has the UID of the child that was listed, a     *)
(* create needs a free name.                                                *)
CanDelete(c) == children[c] # None /\ sync.saw[c].lag # "gone"

DeleteChild(c) ==
  /\ sync.pc = "manage" /\ Manages(sync.me) /\ c \in sync.todel
  /\ IF CanDelete(c)
     THEN /\ WriteChild(c, [children[c] EXCEPT !.deleting = TRUE])
          /\ sync' = [sync EXCEPT !.todel = @ \ {c}]
     ELSE /\ sync' = [sync EXCEPT !.todel = @ \ {c}, !.failed = TRUE]
          /\ UNCHANGED <<children, cChildren>>
  /\ UNCHANGED <<parent, cParent, hooked, queued, history, bounds>>

CreateChild(c) ==
  /\ sync.pc = "manage" /\ Manages(sync.me) /\ sync.todel = {} /\ c \in sync.tonew
  /\ IF children[c] = None
     THEN /\ WriteChild(c, [owner |-> sync.me.uid, deleting |-> FALSE])
          /\ sync' = [sync EXCEPT !.tonew = @ \ {c}]
          /\ acted' = IF hooked THEN acted \union {sync.me.uid} ELSE acted
     ELSE /\ sync' = [sync EXCEPT !.tonew = @ \ {c}, !.failed = TRUE]
          /\ UNCHANGED <<children, cChildren, acted>>
  /\ UNCHANGED <<parent, cParent, hooked, queued, cleaned, lapsed, bounds>>

(* updateParentStatus, and what processNextWorkItem makes of an error.  The *)
(* status may differ from the stored one or not.                            *)
FinishSync ==
  /\ sync.pc = "manage"
  /\ Manages(sync.me) => sync.todel = {} /\ sync.tonew = {}
  /\ \/ Live(sync.me) /\ cParent' = [cParent EXCEPT !.lag = "changed"]
     \/ UNCHANGED cParent
  /\ queued' = (queued \/ sync.failed \/ ~Live(sync.me))
  /\ sync' = Idle
  /\ UNCHANGED <<store, cChildren, hooked, history, bounds>>

-----------------------------------------------------------------------------
(* Watch events and their handlers. *)
ParentEvent ==
  /\ cParent.lag = "changed"
  /\ cParent' = [obj |-> parent, lag |-> "same"]
  /\ queued' = TRUE
  /\ UNCHANGED <<store, cChildren, hooked, sync, history, bounds>>

(* onChildAdd, onChildUpdate and onChildDelete wake the controller that the *)
(* child refers to; a child deleted and created again is removed first.     *)
Wakes(copy) ==
  copy # None /\ cParent.obj # None /\ copy.obj.owner = cParent.obj.uid

ChildEvent(c) ==
  LET old == cChildren[c]
      new == IF old # None /\ old.lag = "gone" THEN None ELSE Copy(children[c])
  IN /\ old # new
     /\ cChildren' = [cChildren EXCEPT ![c] = new]
     /\ queued' = (queued \/ Wakes(IF new = None THEN old ELSE new))
     /\ UNCHANGED <<store, cParent, hooked, sync, history, bounds>>

ParentResync ==
  /\ cParent.obj # None /\ ~queued
  /\ queued' = TRUE
  /\ UNCHANGED <<store, caches, hooked, sync, history, bounds>>

-----------------------------------------------------------------------------
(* Faults and restarts. *)
Upset == upsets < MaxUpsets /\ upsets' = upsets + 1

FreshParent == cParent' = [obj |-> parent, lag |-> "same"]

FreshChildren == cChildren' = [c \in Child |-> Copy(children[c])]

Crash ==
  /\ Upset
  /\ FreshParent /\ FreshChildren
  /\ queued' = (parent # None)
  /\ sync' = Idle
  /\ UNCHANGED <<store, hooked, history, nextUid>>

(* A failed hook or API call before the children are managed. *)
AbortSync ==
  /\ Upset
  /\ sync.pc \in {"finalizer", "observe", "finalized"}
  /\ Requeue
  /\ UNCHANGED <<store, caches, hooked, history, nextUid>>

ChildCallFails(c) ==
  /\ Upset
  /\ sync.pc = "manage" /\ Manages(sync.me) /\ c \in sync.todel \union sync.tonew
  /\ sync' = [sync EXCEPT !.todel = @ \ {c}, !.tonew = @ \ {c}, !.failed = TRUE]
  /\ UNCHANGED <<store, caches, hooked, queued, history, nextUid>>

-----------------------------------------------------------------------------
(* Users, the garbage collector, and the children's own finalizers. *)
CreateParent ==
  /\ parent = None /\ nextUid \in Uid
  /\ WriteParent([uid |-> nextUid, ours |-> FALSE, gc |-> FALSE, deleting |-> FALSE])
  /\ nextUid' = nextUid + 1
  /\ UNCHANGED <<children, cChildren, hooked, queued, sync, history, upsets>>

(* In the foreground the garbage collector has a finalizer of its own. *)
DeleteParent(foreground) ==
  /\ Upset
  /\ parent # None /\ ~parent.deleting
  /\ WriteParent(Stored([parent EXCEPT !.deleting = TRUE, !.gc = foreground]))
  /\ UNCHANGED <<children, cChildren, hooked, queued, sync, history, nextUid>>

(* The CompositeController is edited: Stop waits for the workers, and a new *)
(* controller subscribes.  An informer that another controller shares goes  *)
(* on with the cache it has; one that nobody else uses lists afresh.  The   *)
(* first resync enqueues every cached parent.  Without a hook nothing is    *)
(* owed.                                                                    *)
StaleFinalizer(copy) ==
  /\ parent # None /\ ~parent.ours
  /\ copy # None /\ copy.ours /\ copy.uid = parent.uid

Reconfigure ==
  /\ Upset
  /\ sync.pc = "idle"
  /\ hooked' = ~hooked
  /\ FreshParent \/ UNCHANGED cParent
  /\ FreshChildren \/ UNCHANGED cChildren
  /\ queued' = (cParent'.obj # None)
  /\ acted' = {}
  /\ lapsed' = IF StaleFinalizer(cParent'.obj) THEN {parent.uid} ELSE {}
  /\ UNCHANGED <<store, sync, cleaned, nextUid>>

(* A write of a child by others than the sync. *)
Others(c, object) ==
  /\ WriteChild(c, object)
  /\ sync' = [sync EXCEPT !.saw = Aged(@, c, object)]
  /\ UNCHANGED <<hooked, queued, history>>

DrainChild(c) ==
  /\ Upset
  /\ children[c] # None /\ ~children[c].deleting
  /\ Others(c, [children[c] EXCEPT !.deleting = TRUE])
  /\ UNCHANGED <<parent, cParent, nextUid>>

Dependents ==
  {c \in Child : /\ children[c] # None
                 /\ parent # None /\ parent.uid = children[c].owner => parent.gc}

CollectChild(c) ==
  /\ c \in Dependents /\ ~children[c].deleting
  /\ Others(c, [children[c] EXCEPT !.deleting = TRUE])
  /\ UNCHANGED <<parent, cParent, bounds>>

RemoveChild(c) ==
  /\ children[c] # None /\ children[c].deleting
  /\ Others(c, None)
  /\ UNCHANGED <<parent, cParent, bounds>>

CollectParent ==
  /\ parent # None /\ parent.gc
  /\ ChildrenOf(parent.uid) = {}
  /\ WriteParent(Stored([parent EXCEPT !.gc = FALSE]))
  /\ UNCHANGED <<children, cChildren, hooked, queued, sync, history, bounds>>

-----------------------------------------------------------------------------
Worker ==
  \/ BeginSync \/ SyncFinalizer \/ CallHook \/ RemoveFinalizer
  \/ \E c \in Child : DeleteChild(c) \/ CreateChild(c)
  \/ FinishSync

Informers == ParentEvent \/ ParentResync \/ \E c \in Child : ChildEvent(c)

Faults == Crash \/ AbortSync \/ \E c \in Child : ChildCallFails(c)

Environment ==
  \/ CreateParent \/ (\E foreground \in BOOLEAN : DeleteParent(foreground))
  \/ Reconfigure \/ CollectParent
  \/ \E c \in Child : DrainChild(c) \/ CollectChild(c) \/ RemoveChild(c)

Next == Worker \/ Informers \/ Faults \/ Environment

Spec == Init /\ [][Next]_vars

(* The worker, the watches, the garbage collector and the children's own    *)
(* controllers go on; the resync is not needed.                             *)
Fairness ==
  /\ WF_vars(Worker)
  /\ WF_vars(ParentEvent)
  /\ WF_vars(CollectParent)
  /\ \A c \in Child :
       WF_vars(ChildEvent(c)) /\ WF_vars(CollectChild(c)) /\ WF_vars(RemoveChild(c))

FairSpec == Spec /\ Fairness

-----------------------------------------------------------------------------
(* Every variable has its type. *)
TypeOK ==
  /\ parent \in Parents \union {None}
  /\ children \in [Child -> Children \union {None}]
  /\ cParent \in [obj : Parents \union {None}, lag : {"same", "changed"}]
  /\ cChildren \in ChildCopies
  /\ hooked \in BOOLEAN /\ queued \in BOOLEAN
  /\ sync \in Syncs
  /\ sync.pc # "idle" => sync.me # None
  /\ acted \subseteq Uid /\ cleaned \subseteq Uid /\ lapsed \subseteq Uid
  /\ nextUid \in 1..(MaxUid + 1)
  /\ upsets \in 0..MaxUpsets

(* A parent for which a child was created while there is a finalize hook is *)
(* not removed before a finalize hook has reported that it has finalized:   *)
(* syncParentObject adds the finalizer before anything else, "to ensure we  *)
(* have a chance to clean up after any action we later take".  But the      *)
(* finalizer may have lapsed, until a sync adds it again: a sync hook said  *)
(* "finalized" and it was removed from a living parent; or it was removed   *)
(* while there was no hook, and the controller with the new hook found a    *)
(* shared informer's copy that still has it.                                *)
CleansUp ==
  [][ parent # None /\ parent' = None /\ parent.uid \in acted
        => parent.uid \in cleaned \union lapsed' ]_vars

(* Ordered teardown: a worker that has listed the children as they were     *)
(* deletes a child of a parent that is pending deletion only once every     *)
(* later child is gone.                                                     *)
TeardownOrder ==
  [][ \A c \in Child :
        /\ sync.pc = "manage" /\ sync.current /\ sync.me.deleting /\ c \in sync.todel
        /\ children'[c] # children[c]
        => \A d \in ChildrenOf(sync.me.uid) : d <= c ]_vars

(* A controller that has listed the children as they were lets go of a      *)
(* parent only when none of them exist, although it then asks no more.      *)
LeavesNothing ==
  [][ sync.current /\ parent # None /\ parent.ours /\ parent.deleting /\ hooked
      /\ (parent' = None \/ ~parent'.ours)
        => ChildrenOf(parent.uid) = {} ]_vars

(* A parent that is being deleted goes away, in the foreground too, where   *)
(* the garbage collector waits for the children to be gone.                 *)
Dies ==
  \A u \in Uid :
    (parent # None /\ parent.uid = u /\ parent.deleting)
      ~> (parent = None \/ parent.uid # u)
=============================================================================
