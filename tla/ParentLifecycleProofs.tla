------------------------ MODULE ParentLifecycleProofs ------------------------
(***************************************************************************)
(* Proofs about ParentLifecycle: its states are well typed; no parent goes *)
(* without its finalize hook having finished, unless its finalizer had     *)
(* lapsed; and a teardown is in order and leaves no child.                 *)
(***************************************************************************)
EXTENDS ParentLifecycle, TLAPS

-----------------------------------------------------------------------------
(* Objects and their copies.                                                *)

LEMMA StoredFacts ==
  ASSUME NEW object \in Parents
  PROVE  /\ Stored(object) \in Parents \union {None}
         /\ Stored(object) = None => ~object.ours
         /\ Stored(object) # None => Stored(object) = object
BY LifecycleAssumption DEF Stored

LEMMA ParentFacts ==
  ASSUME NEW object \in Parents
  PROVE  /\ object # None
         /\ \A b \in BOOLEAN : [object EXCEPT !.ours = b] \in Parents
         /\ \A b \in BOOLEAN : [object EXCEPT !.gc = b] \in Parents
         /\ \A b \in BOOLEAN : [object EXCEPT !.deleting = TRUE, !.gc = b] \in Parents
BY LifecycleAssumption DEF Parents

LEMMA CopyFacts ==
  ASSUME NEW object \in Children \union {None}
  PROVE  Copy(object) \in Copies \union {None}
BY DEF Copy, Copies

LEMMA AgedFacts ==
  ASSUME NEW copies \in ChildCopies, NEW c \in Child, NEW object
  PROVE  Aged(copies, c, object) \in ChildCopies
<1>1. ASSUME NEW copy \in Copies \union {None}, NEW lag \in {"changed", "gone"}
      PROVE  AgeOne(copy, lag) \in Copies \union {None}
  BY <1>1, LifecycleAssumption DEF AgeOne, Copies
<1>2. copies[c] \in Copies \union {None}
  BY DEF ChildCopies
<1>3. AgeOne(copies[c], IF object = None THEN "gone" ELSE "changed") \in Copies \union {None}
  BY <1>1, <1>2
<1> QED
  BY <1>3 DEF Aged, ChildCopies

(* A write of the parent keeps its type and its cached copy. *)
LEMMA WriteParentFacts ==
  ASSUME TypeOK, NEW object \in Parents \union {None}, WriteParent(object)
  PROVE  /\ parent' = object
         /\ cParent'.obj = cParent.obj
         /\ parent' \in Parents \union {None}
         /\ cParent' \in [obj : Parents \union {None}, lag : {"same", "changed"}]
BY DEF WriteParent, TypeOK

LEMMA WriteChildFacts ==
  ASSUME TypeOK, NEW c \in Child, NEW object \in Children \union {None}, WriteChild(c, object)
  PROVE  /\ children' \in [Child -> Children \union {None}]
         /\ cChildren' \in ChildCopies
BY AgedFacts DEF WriteChild, TypeOK

LEMMA FreshFacts ==
  ASSUME TypeOK
  PROVE  /\ FreshParent \/ UNCHANGED cParent =>
              /\ cParent'.obj \in {parent, cParent.obj}
              /\ cParent' \in [obj : Parents \union {None}, lag : {"same", "changed"}]
         /\ FreshChildren \/ UNCHANGED cChildren => cChildren' \in ChildCopies
<1>1. \A c \in Child : Copy(children[c]) \in Copies \union {None}
  BY CopyFacts DEF TypeOK
<1>2. FreshChildren => cChildren' \in ChildCopies
  BY <1>1 DEF FreshChildren, ChildCopies
<1> QED
  BY <1>2 DEF FreshParent, TypeOK

LEMMA IdleFacts == Idle \in Syncs /\ Idle.pc = "idle"
BY DEF Idle, Syncs, ChildCopies

-----------------------------------------------------------------------------
(* Types.                                                                   *)

LEMMA WorkerType == ASSUME TypeOK, Worker PROVE TypeOK'
<1>0. parent # None => parent \in Parents
  BY DEF TypeOK
<1>1. CASE BeginSync
  <2>1. [Idle EXCEPT !.pc = "finalizer", !.me = cParent.obj] \in Syncs
    BY DEF Idle, Syncs, ChildCopies, TypeOK
  <2>2. sync' \in Syncs /\ (sync'.pc # "idle" => sync'.me # None)
    BY <1>1, <2>1, IdleFacts DEF BeginSync, Idle
  <2> QED
    BY <1>1, <2>2 DEF BeginSync, TypeOK, store, caches, history, bounds
<1>2. CASE SyncFinalizer
  <2>0. lapsed' \subseteq Uid
    BY <1>2 DEF SyncFinalizer, TypeOK
  <2>1. CASE parent' = parent /\ cParent' = cParent /\ sync' = [sync EXCEPT !.pc = "observe"]
             /\ queued' = queued
    <3>1. sync' \in Syncs /\ sync'.me = sync.me
      BY <2>1 DEF TypeOK, Syncs
    <3>2. sync.me # None
      BY <1>2 DEF SyncFinalizer, ToObserve, TypeOK
    <3> QED
      BY <1>2, <2>0, <2>1, <3>1, <3>2 DEF SyncFinalizer, TypeOK, bounds
  <2>2. CASE /\ Accepted(sync.me)
             /\ WriteParent(Stored(WithFinalizer(parent)))
             /\ sync' = [sync EXCEPT !.pc = "observe", !.me = WithFinalizer(parent)]
             /\ queued' = queued
    <3>1. WithFinalizer(parent) \in Parents /\ WithFinalizer(parent) # None
      BY <1>0, <2>2, ParentFacts DEF Accepted, Live, WithFinalizer, TypeOK
    <3>2. sync' \in Syncs /\ sync'.me # None
      BY <2>2, <3>1 DEF TypeOK, Syncs
    <3> QED
      BY <1>2, <2>0, <2>2, <3>1, <3>2, StoredFacts, WriteParentFacts
      DEF SyncFinalizer, TypeOK, bounds
  <2>3. CASE Requeue /\ parent' = parent /\ cParent' = cParent
    BY <1>2, <2>0, <2>3, IdleFacts DEF SyncFinalizer, Requeue, TypeOK, bounds
  <2> QED
    BY <1>2, <2>1, <2>2, <2>3 DEF SyncFinalizer, ToObserve
<1>3. CASE CallHook
  <2> DEFINE me == sync.me
             seen == Observed(me)
  <2>1. me \in Parents
    BY <1>3 DEF CallHook, TypeOK, Syncs
  <2>2. ToManage(me, seen) \in Syncs /\ ToManage(me, seen).me = me
    <3>1. [c \in Child |-> IF c \in seen THEN cChildren[c] ELSE None] \in ChildCopies
      BY DEF TypeOK, ChildCopies
    <3>2. seen \subseteq Child /\ Wanted(me, seen) \subseteq Child
      BY DEF Observed, Wanted
    <3> QED
      BY <2>1, <3>1, <3>2 DEF ToManage, Syncs
  <2>3. /\ \E done \in MaySayFinalized(me, seen) :
               sync' = [ToManage(me, seen) EXCEPT !.pc = IF done THEN "finalized" ELSE @]
        /\ cleaned' = cleaned \union {me.uid} \/ cleaned' = cleaned
    BY <1>3 DEF CallHook
  <2> HIDE DEF me, seen
  <2>4. sync' \in Syncs /\ sync'.me # None
    BY <2>1, <2>2, <2>3, ParentFacts DEF Syncs
  <2>5. cleaned' \subseteq Uid
    BY <2>1, <2>3 DEF Parents, TypeOK
  <2> QED
    BY <1>3, <2>4, <2>5 DEF CallHook, TypeOK, store, caches, bounds
<1>4. CASE RemoveFinalizer
  <2>1. CASE /\ Live(sync.me)
             /\ WriteParent(Stored(Without(parent)))
             /\ sync' = [sync EXCEPT !.pc = "manage", !.me = Without(parent)]
             /\ lapsed' = lapsed \/ lapsed' = lapsed \union {parent.uid}
             /\ queued' = queued
    <3>1. Without(parent) \in Parents /\ Without(parent) # None
      BY <1>0, <2>1, ParentFacts DEF Live, Without
    <3>2. sync' \in Syncs /\ sync'.me # None
      BY <2>1, <3>1 DEF TypeOK, Syncs
    <3>3. lapsed' \subseteq Uid
      <4>1. parent.uid \in Uid
        BY <1>0, <2>1 DEF Live, Parents
      <4> QED
        BY <2>1, <4>1 DEF TypeOK
    <3> QED
      BY <1>4, <2>1, <3>1, <3>2, <3>3, StoredFacts, WriteParentFacts
      DEF RemoveFinalizer, TypeOK, bounds
  <2>2. CASE Requeue /\ parent' = parent /\ cParent' = cParent /\ lapsed' = lapsed
    BY <1>4, <2>2, IdleFacts DEF RemoveFinalizer, Requeue, TypeOK, bounds
  <2> QED
    BY <1>4, <2>1, <2>2 DEF RemoveFinalizer
<1>5. ASSUME NEW c \in Child, DeleteChild(c) PROVE TypeOK'
  <2>1. children' \in [Child -> Children \union {None}] /\ cChildren' \in ChildCopies
    <3>1. CASE CanDelete(c)
      <4>1. [children[c] EXCEPT !.deleting = TRUE] \in Children
        BY <3>1 DEF CanDelete, Children, TypeOK
      <4> QED
        BY <1>5, <3>1, <4>1, WriteChildFacts DEF DeleteChild
    <3>2. CASE ~CanDelete(c)
      BY <1>5, <3>2 DEF DeleteChild, TypeOK
    <3> QED
      BY <3>1, <3>2
  <2>2. sync' \in Syncs /\ sync'.me = sync.me /\ sync'.pc = sync.pc
    <3>1. sync \in Syncs
      BY DEF TypeOK
    <3>2. CASE sync' = [sync EXCEPT !.todel = @ \ {c}]
      BY <3>1, <3>2 DEF Syncs
    <3>3. CASE sync' = [sync EXCEPT !.todel = @ \ {c}, !.failed = TRUE]
      BY <3>1, <3>3 DEF Syncs
    <3> QED
      BY <1>5, <3>2, <3>3, Zenon DEF DeleteChild
  <2>3. UNCHANGED <<parent, cParent, hooked, queued, history, bounds>>
    BY <1>5 DEF DeleteChild
  <2> QED
    BY <2>1, <2>2, <2>3 DEF TypeOK, history, bounds
<1>6. ASSUME NEW c \in Child, CreateChild(c) PROVE TypeOK'
  <2>0. sync.me \in Parents /\ sync.me.uid \in Uid
    BY <1>6 DEF CreateChild, TypeOK, Syncs, Parents
  <2>1. children' \in [Child -> Children \union {None}] /\ cChildren' \in ChildCopies
    <3>1. [owner |-> sync.me.uid, deleting |-> FALSE] \in Children
      BY <2>0 DEF Children
    <3> QED
      BY <1>6, <3>1, WriteChildFacts DEF CreateChild, TypeOK
  <2>2. sync' \in Syncs /\ sync'.me = sync.me /\ sync'.pc = sync.pc
    <3>1. sync \in Syncs
      BY DEF TypeOK
    <3>2. CASE sync' = [sync EXCEPT !.tonew = @ \ {c}]
      BY <3>1, <3>2 DEF Syncs
    <3>3. CASE sync' = [sync EXCEPT !.tonew = @ \ {c}, !.failed = TRUE]
      BY <3>1, <3>3 DEF Syncs
    <3> QED
      BY <1>6, <3>2, <3>3, Zenon DEF CreateChild
  <2>3. acted' \subseteq Uid
    BY <1>6, <2>0 DEF CreateChild, TypeOK
  <2>4. UNCHANGED <<parent, cParent, hooked, queued, cleaned, lapsed, bounds>>
    BY <1>6 DEF CreateChild
  <2> QED
    BY <2>1, <2>2, <2>3, <2>4 DEF TypeOK, bounds
<1>7. CASE FinishSync
  <2>1. cParent' \in [obj : Parents \union {None}, lag : {"same", "changed"}]
    BY <1>7 DEF FinishSync, TypeOK
  <2>2. queued' \in BOOLEAN
    BY <1>7 DEF FinishSync
  <2> QED
    BY <1>7, <2>1, <2>2, IdleFacts DEF FinishSync, TypeOK, store, history, bounds
<1> QED
  BY <1>1, <1>2, <1>3, <1>4, <1>5, <1>6, <1>7 DEF Worker

LEMMA InformersType == ASSUME TypeOK, Informers PROVE TypeOK'
<1>1. CASE ParentEvent
  BY <1>1 DEF ParentEvent, TypeOK, store, history, bounds
<1>2. CASE ParentResync
  BY <1>2 DEF ParentResync, TypeOK, store, caches, history, bounds
<1>3. ASSUME NEW c \in Child, ChildEvent(c) PROVE TypeOK'
  <2>1. Copy(children[c]) \in Copies \union {None}
    BY CopyFacts DEF TypeOK
  <2>2. cChildren' \in ChildCopies
    BY <1>3, <2>1 DEF ChildEvent, TypeOK, ChildCopies
  <2>3. queued' \in BOOLEAN
    BY <1>3 DEF ChildEvent
  <2> QED
    BY <1>3, <2>2, <2>3 DEF ChildEvent, TypeOK, store, history, bounds
<1> QED
  BY <1>1, <1>2, <1>3 DEF Informers

LEMMA FaultsType == ASSUME TypeOK, Faults PROVE TypeOK'
<1>0. ASSUME Upset PROVE upsets' \in 0..MaxUpsets
  BY <1>0, LifecycleAssumption DEF Upset, TypeOK
<1>1. CASE Crash
  BY <1>0, <1>1, FreshFacts, IdleFacts DEF Crash, TypeOK, store, history
<1>2. CASE AbortSync
  BY <1>0, <1>2, IdleFacts DEF AbortSync, Requeue, TypeOK, store, caches, history
<1>3. ASSUME NEW c \in Child, ChildCallFails(c) PROVE TypeOK'
  <2>1. sync' \in Syncs /\ sync'.me = sync.me /\ sync'.pc = sync.pc
    BY <1>3 DEF ChildCallFails, TypeOK, Syncs
  <2> QED
    BY <1>0, <1>3, <2>1 DEF ChildCallFails, TypeOK, store, caches, history
<1> QED
  BY <1>1, <1>2, <1>3 DEF Faults

LEMMA EnvironmentType == ASSUME TypeOK, Environment PROVE TypeOK'
<1>0. parent # None => parent \in Parents
  BY DEF TypeOK
<1>1. ASSUME Upset PROVE upsets' \in 0..MaxUpsets
  BY <1>1, LifecycleAssumption DEF Upset, TypeOK
<1>2. CASE CreateParent
  <2>1. [uid |-> nextUid, ours |-> FALSE, gc |-> FALSE, deleting |-> FALSE] \in Parents
    BY <1>2 DEF CreateParent, Parents
  <2>2. nextUid' \in 1..(MaxUid + 1)
    BY <1>2, LifecycleAssumption DEF CreateParent, Uid
  <2> QED
    BY <1>2, <2>1, <2>2, WriteParentFacts DEF CreateParent, TypeOK, history
<1>3. ASSUME NEW foreground \in BOOLEAN, DeleteParent(foreground) PROVE TypeOK'
  <2>1. Stored([parent EXCEPT !.deleting = TRUE, !.gc = foreground]) \in Parents \union {None}
    BY <1>0, <1>3, ParentFacts, StoredFacts DEF DeleteParent
  <2> QED
    BY <1>1, <1>3, <2>1, WriteParentFacts DEF DeleteParent, TypeOK, history
<1>4. CASE Reconfigure
  <2>1. lapsed' \subseteq Uid
    BY <1>0, <1>4 DEF Reconfigure, StaleFinalizer, Parents
  <2>2. hooked' \in BOOLEAN /\ queued' \in BOOLEAN
    BY <1>4 DEF Reconfigure
  <2> QED
    BY <1>1, <1>4, <2>1, <2>2, FreshFacts DEF Reconfigure, TypeOK, store
<1>5. CASE CollectParent
  <2>1. Stored([parent EXCEPT !.gc = FALSE]) \in Parents \union {None}
    BY <1>0, <1>5, ParentFacts, StoredFacts DEF CollectParent
  <2> QED
    BY <1>5, <2>1, WriteParentFacts DEF CollectParent, TypeOK, history, bounds
<1>6. ASSUME NEW c \in Child, NEW object \in Children \union {None}, Others(c, object)
      PROVE  /\ children' \in [Child -> Children \union {None}]
             /\ cChildren' \in ChildCopies
             /\ sync' \in Syncs /\ sync'.me = sync.me /\ sync'.pc = sync.pc
  <2>1. Aged(sync.saw, c, object) \in ChildCopies
    BY AgedFacts DEF TypeOK, Syncs
  <2>2. sync' \in Syncs /\ sync'.me = sync.me /\ sync'.pc = sync.pc
    BY <1>6, <2>1 DEF Others, TypeOK, Syncs
  <2> QED
    BY <1>6, <2>2, WriteChildFacts DEF Others
<1>7. ASSUME NEW c \in Child, children[c] # None
      PROVE  [children[c] EXCEPT !.deleting = TRUE] \in Children
  BY <1>7 DEF TypeOK, Children
<1>8. ASSUME NEW c \in Child, DrainChild(c) PROVE TypeOK'
  BY <1>1, <1>6, <1>7, <1>8 DEF DrainChild, Others, TypeOK, history
<1>9. ASSUME NEW c \in Child, CollectChild(c) PROVE TypeOK'
  BY <1>6, <1>7, <1>9 DEF CollectChild, Dependents, Others, TypeOK, history, bounds
<1>10. ASSUME NEW c \in Child, RemoveChild(c) PROVE TypeOK'
  BY <1>6, <1>10 DEF RemoveChild, Others, TypeOK, history, bounds
<1> QED
  BY <1>2, <1>3, <1>4, <1>5, <1>8, <1>9, <1>10 DEF Environment

LEMMA TypeCorrectInit == ASSUME Init PROVE TypeOK
<1>1. nextUid \in 1..(MaxUid + 1) /\ upsets \in 0..MaxUpsets
  BY LifecycleAssumption DEF Init
<1>2. children \in [Child -> Children \union {None}] /\ cChildren \in ChildCopies
  BY DEF Init, ChildCopies
<1> QED
  BY <1>1, <1>2, IdleFacts DEF Init, TypeOK

LEMMA TypeCorrectNext == ASSUME TypeOK, [Next]_vars PROVE TypeOK'
<1>1. CASE UNCHANGED vars
  BY <1>1 DEF vars, store, caches, history, bounds, TypeOK
<1> QED
  BY <1>1, WorkerType, InformersType, FaultsType, EnvironmentType DEF Next

(* Every reachable state of a parent's life is well typed. *)
THEOREM TypeCorrect == Spec => []TypeOK
<1>1. Init => TypeOK
  BY TypeCorrectInit
<1>2. TypeOK /\ [Next]_vars => TypeOK'
  BY TypeCorrectNext
<1> QED
  BY <1>1, <1>2, PTL DEF Spec

-----------------------------------------------------------------------------
(* The finalizer is held as long as anything is owed.                       *)

(* What a copy of the parent says of the controller's finalizer still holds *)
(* until a finalize hook has finished, or the finalizer has lapsed.         *)
HoldsOn(copy) ==
  copy.ours /\ Live(copy) /\ copy.uid \notin cleaned \union lapsed => parent.ours

FinalizerHeld ==
  hooked =>
    /\ parent # None /\ parent.uid \in acted \ (cleaned \union lapsed) => parent.ours
    /\ cParent.obj # None => HoldsOn(cParent.obj)
    /\ sync.pc # "idle" => HoldsOn(sync.me)

(* After its first step a sync has the finalizer, or creates nothing, or    *)
(* went without it on the word of a hook.                                   *)
SyncMayAct ==
  hooked =>
    /\ sync.pc \in {"observe", "manage"} =>
         sync.me.ours \/ sync.me.deleting \/ sync.me.uid \in cleaned \union lapsed
    /\ sync.pc = "finalized" => sync.me.uid \in cleaned \/ ~sync.me.deleting

(* Nothing is owed without a hook, or to a parent that is yet to be created. *)
OwedToOld ==
  /\ ~hooked => acted = {}
  /\ \A u \in acted : u < nextUid
  /\ parent # None => parent.uid < nextUid
  /\ cParent.obj # None => cParent.obj.uid < nextUid
  /\ sync.pc # "idle" => sync.me.uid < nextUid

Inv == TypeOK /\ FinalizerHeld /\ SyncMayAct /\ OwedToOld

LEMMA InvInit == ASSUME Init, TypeOK PROVE Inv
BY DEF Init, Inv, FinalizerHeld, SyncMayAct, OwedToOld, Idle

(* Steps that touch neither a parent, a hook, nor the books. *)
LEMMA Elsewhere ==
  ASSUME Inv, TypeOK', UNCHANGED <<parent, hooked, acted, cleaned, lapsed, nextUid>>,
         cParent'.obj \in {cParent.obj, parent},
         sync'.pc = "idle" \/ (sync'.pc = sync.pc /\ sync'.me = sync.me)
  PROVE  Inv'
<1>1. OwedToOld'
  BY DEF Inv, OwedToOld
<1>2. FinalizerHeld'
  BY DEF Inv, FinalizerHeld, HoldsOn, Live
<1>3. SyncMayAct'
  BY DEF Inv, SyncMayAct
<1> QED
  BY <1>1, <1>2, <1>3 DEF Inv

(* Steps that write the parent and do not take the finalizer from it. *)
LEMMA Rewritten ==
  ASSUME Inv, TypeOK', UNCHANGED <<hooked, acted, cleaned, lapsed, nextUid>>,
         parent # None, NEW object \in Parents, parent' = Stored(object),
         object.uid = parent.uid, parent.ours => object.ours,
         cParent'.obj = cParent.obj,
         sync'.pc = sync.pc /\ sync'.me = sync.me
  PROVE  Inv'
<1>0. parent' # None => parent' = object
  BY StoredFacts
<1>1. OwedToOld'
  BY <1>0 DEF Inv, OwedToOld
<1>2. FinalizerHeld'
  BY <1>0 DEF Inv, FinalizerHeld, HoldsOn, Live
<1>3. SyncMayAct'
  BY DEF Inv, SyncMayAct
<1> QED
  BY <1>1, <1>2, <1>3 DEF Inv

LEMMA WorkerInv == ASSUME Inv, TypeOK', Worker PROVE Inv'
<1>0. TypeOK /\ (parent # None => parent \in Parents)
  BY DEF Inv, TypeOK
<1>1. CASE BeginSync
  <2>1. CASE cParent.obj = None
    BY <1>1, <2>1, IdleFacts, Elsewhere DEF BeginSync, store, caches, history, bounds
  <2>2. CASE cParent.obj # None
    <3>1. sync'.pc = "finalizer" /\ sync'.me = cParent.obj
      BY <1>1, <2>2 DEF BeginSync, Idle
    <3> QED
      BY <1>1, <2>2, <3>1 DEF BeginSync, store, caches, history, bounds,
         Inv, FinalizerHeld, SyncMayAct, OwedToOld, HoldsOn, Live
  <2> QED
    BY <2>1, <2>2
<1>2. CASE SyncFinalizer
  <2>0. /\ UNCHANGED <<hooked, acted, cleaned, nextUid>>
        /\ lapsed' = IF parent' # None /\ parent'.ours THEN {} ELSE lapsed
    BY <1>2 DEF SyncFinalizer, bounds
  <2>1. CASE /\ InRightState(sync.me)
             /\ sync' = [sync EXCEPT !.pc = "observe"]
             /\ UNCHANGED <<parent, cParent, queued>>
    <3>1. sync'.pc = "observe" /\ sync'.me = sync.me /\ sync.pc = "finalizer"
      BY <1>0, <1>2, <2>1 DEF SyncFinalizer, ToObserve, TypeOK, Syncs
    <3>2. SyncMayAct'
      BY <2>0, <2>1, <3>1 DEF InRightState, SyncMayAct
    <3>3. FinalizerHeld' /\ OwedToOld'
      BY <2>0, <2>1, <3>1 DEF Inv, FinalizerHeld, OwedToOld, HoldsOn, Live
    <3> QED
      BY <3>2, <3>3 DEF Inv
  <2>2. CASE /\ ~InRightState(sync.me) /\ Accepted(sync.me)
             /\ WriteParent(Stored(WithFinalizer(parent)))
             /\ sync' = [sync EXCEPT !.pc = "observe", !.me = WithFinalizer(parent)]
             /\ UNCHANGED queued
    <3>1. /\ parent \in Parents /\ WithFinalizer(parent) \in Parents
          /\ WithFinalizer(parent).uid = parent.uid
          /\ WithFinalizer(parent).ours = hooked
      BY <1>0, <2>2, ParentFacts DEF Accepted, Live, WithFinalizer, TypeOK, Parents
    <3>2. /\ sync'.pc = "observe" /\ sync'.me = WithFinalizer(parent)
          /\ parent' = Stored(WithFinalizer(parent)) /\ cParent'.obj = cParent.obj
      BY <1>0, <2>2 DEF WriteParent, TypeOK, Syncs
    <3>3. /\ Stored(WithFinalizer(parent)) # None
               => Stored(WithFinalizer(parent)) = WithFinalizer(parent)
          /\ hooked => Stored(WithFinalizer(parent)) # None
      BY <3>1, StoredFacts
    <3>4. parent # None
      BY <3>1, ParentFacts
    <3> HIDE DEF WithFinalizer
    <3> QED
      BY <2>0, <3>1, <3>2, <3>3, <3>4 DEF Inv, FinalizerHeld, SyncMayAct, OwedToOld, HoldsOn, Live
  <2>3. CASE Requeue /\ UNCHANGED <<parent, cParent>>
    BY <2>0, <2>3, IdleFacts DEF Requeue, Inv, FinalizerHeld, SyncMayAct, OwedToOld,
       HoldsOn, Live
  <2> QED
    BY <1>2, <2>1, <2>2, <2>3 DEF SyncFinalizer, ToObserve
<1>3. CASE CallHook
  <2>1. PICK done \in BOOLEAN :
          /\ sync'.me = sync.me /\ sync'.pc = IF done THEN "finalized" ELSE "manage"
          /\ cleaned' = IF done /\ Finalizing(sync.me) THEN cleaned \union {sync.me.uid} ELSE cleaned
    BY <1>3 DEF CallHook, ToManage, MaySayFinalized
  <2>2. sync.pc = "observe" /\ UNCHANGED <<parent, cParent, hooked, acted, lapsed, nextUid>>
    BY <1>3 DEF CallHook, store, caches, bounds
  <2> QED
    BY <2>1, <2>2 DEF Inv, FinalizerHeld, SyncMayAct, OwedToOld, HoldsOn, Live, Finalizing
<1>4. CASE RemoveFinalizer
  <2>1. CASE /\ Live(sync.me)
             /\ WriteParent(Stored(Without(parent)))
             /\ sync' = [sync EXCEPT !.pc = "manage", !.me = Without(parent)]
             /\ lapsed' = IF sync.me.deleting THEN lapsed ELSE lapsed \union {parent.uid}
    <3>1. /\ parent \in Parents /\ Without(parent) \in Parents
          /\ Without(parent).uid = parent.uid /\ parent.uid = sync.me.uid
      BY <1>0, <2>1, ParentFacts DEF Live, Without, Parents
    <3>2. /\ sync'.pc = "manage" /\ sync'.me = Without(parent) /\ sync.pc = "finalized"
          /\ parent' = Stored(Without(parent)) /\ cParent'.obj = cParent.obj
          /\ UNCHANGED <<hooked, acted, cleaned, nextUid>>
      BY <1>0, <1>4, <2>1 DEF RemoveFinalizer, WriteParent, TypeOK, Syncs, bounds
    <3>3. Stored(Without(parent)) # None => Stored(Without(parent)) = Without(parent)
      BY <3>1, StoredFacts
    <3>4. parent # None
      BY <3>1, ParentFacts
    <3> HIDE DEF Without
    <3> QED
      BY <2>1, <3>1, <3>2, <3>3, <3>4 DEF Inv, FinalizerHeld, SyncMayAct, OwedToOld, HoldsOn, Live
  <2>2. CASE Requeue /\ UNCHANGED <<parent, cParent, lapsed>>
    BY <1>4, <2>2, IdleFacts, Elsewhere DEF RemoveFinalizer, Requeue, bounds
  <2> QED
    BY <1>4, <2>1, <2>2 DEF RemoveFinalizer
<1>5. ASSUME NEW c \in Child, DeleteChild(c) PROVE Inv'
  <2>1. sync'.me = sync.me /\ sync'.pc = sync.pc
    <3>1. \/ sync' = [sync EXCEPT !.todel = @ \ {c}]
          \/ sync' = [sync EXCEPT !.todel = @ \ {c}, !.failed = TRUE]
      BY <1>5, Zenon DEF DeleteChild
    <3> QED
      BY <1>0, <3>1 DEF TypeOK, Syncs
  <2> QED
    BY <1>5, <2>1, Elsewhere DEF DeleteChild, history, bounds
<1>6. ASSUME NEW c \in Child, CreateChild(c) PROVE Inv'
  <2>1. sync'.me = sync.me /\ sync'.pc = sync.pc
    <3>1. \/ sync' = [sync EXCEPT !.tonew = @ \ {c}]
          \/ sync' = [sync EXCEPT !.tonew = @ \ {c}, !.failed = TRUE]
      BY <1>6, Zenon DEF CreateChild
    <3> QED
      BY <1>0, <3>1 DEF TypeOK, Syncs
  <2>2. UNCHANGED <<parent, cParent, hooked, cleaned, lapsed, nextUid>> /\ sync.pc = "manage"
    BY <1>6 DEF CreateChild, bounds
  <2>3. CASE acted' = acted
    BY <2>1, <2>2, <2>3, Elsewhere
  <2>4. CASE hooked /\ acted' = acted \union {sync.me.uid}
    <3>1. sync.me.ours \/ sync.me.uid \in cleaned \union lapsed
      BY <1>6, <2>2, <2>4 DEF Inv, SyncMayAct, CreateChild, Manages, ShouldFinalize
    <3>2. parent # None /\ parent.uid = sync.me.uid /\ parent.uid \notin cleaned \union lapsed
            => parent.ours
      BY <2>2, <2>4, <3>1 DEF Inv, FinalizerHeld, HoldsOn, Live
    <3> QED
      BY <2>1, <2>2, <2>4, <3>2 DEF Inv, FinalizerHeld, SyncMayAct, OwedToOld, HoldsOn, Live
  <2> QED
    BY <1>6, <2>3, <2>4 DEF CreateChild
<1>7. CASE FinishSync
  <2>1. cParent'.obj = cParent.obj
    BY <1>0, <1>7 DEF FinishSync, TypeOK
  <2> QED
    BY <1>7, <2>1, IdleFacts, Elsewhere DEF FinishSync, store, history, bounds
<1> QED
  BY <1>1, <1>2, <1>3, <1>4, <1>5, <1>6, <1>7 DEF Worker

LEMMA OthersInv ==
  ASSUME Inv, TypeOK', Informers \/ Faults \/ Environment
  PROVE  Inv'
<1>0. TypeOK /\ (parent # None => parent \in Parents)
  BY DEF Inv, TypeOK
<1>1. CASE Informers
  <2>1. CASE ParentEvent
    BY <2>1, Elsewhere DEF ParentEvent, store, history, bounds
  <2>2. CASE ParentResync \/ \E c \in Child : ChildEvent(c)
    BY <2>2, Elsewhere DEF ParentResync, ChildEvent, store, caches, history, bounds
  <2> QED
    BY <1>1, <2>1, <2>2 DEF Informers
<1>2. CASE Faults
  <2>1. CASE Crash
    BY <1>0, <2>1, IdleFacts, Elsewhere DEF Crash, FreshParent, store, history
  <2>2. CASE AbortSync
    BY <2>2, IdleFacts, Elsewhere DEF AbortSync, Requeue, store, caches, history
  <2>3. ASSUME NEW c \in Child, ChildCallFails(c) PROVE Inv'
    <3>1. sync'.me = sync.me /\ sync'.pc = sync.pc
      BY <1>0, <2>3 DEF ChildCallFails, TypeOK, Syncs
    <3> QED
      BY <2>3, <3>1, Elsewhere DEF ChildCallFails, store, caches, history
  <2> QED
    BY <1>2, <2>1, <2>2, <2>3 DEF Faults
<1>3. CASE CreateParent
  <2> DEFINE new == [uid |-> nextUid, ours |-> FALSE, gc |-> FALSE, deleting |-> FALSE]
  <2>1. /\ parent = None /\ parent' = new /\ cParent'.obj = cParent.obj
        /\ nextUid' = nextUid + 1 /\ nextUid \in Nat
        /\ UNCHANGED <<hooked, acted, cleaned, lapsed, sync>>
    BY <1>0, <1>3 DEF CreateParent, WriteParent, TypeOK, history
  <2>2. /\ acted \subseteq Uid
        /\ cParent.obj # None => cParent.obj.uid \in Uid
        /\ sync.pc # "idle" => sync.me.uid \in Uid
    BY <1>0 DEF TypeOK, Syncs, Parents
  <2>3. OwedToOld'
    BY <2>1, <2>2 DEF Inv, OwedToOld, Uid
  <2>4. FinalizerHeld' /\ SyncMayAct'
    <3>1. nextUid \notin acted
          /\ (cParent.obj # None => cParent.obj.uid # nextUid)
          /\ (sync.pc # "idle" => sync.me.uid # nextUid)
      BY <2>1, <2>2 DEF Inv, OwedToOld, Uid
    <3> QED
      BY <2>1, <3>1 DEF Inv, FinalizerHeld, SyncMayAct, HoldsOn, Live
  <2> QED
    BY <2>3, <2>4 DEF Inv
<1>4. ASSUME NEW foreground \in BOOLEAN, DeleteParent(foreground) PROVE Inv'
  <2> DEFINE object == [parent EXCEPT !.deleting = TRUE, !.gc = foreground]
  <2>1. /\ parent \in Parents /\ object \in Parents
        /\ object.uid = parent.uid /\ object.ours = parent.ours
    BY <1>0, <1>4, ParentFacts DEF DeleteParent, Parents
  <2>2. /\ parent # None /\ parent' = Stored(object) /\ cParent'.obj = cParent.obj
        /\ UNCHANGED <<hooked, acted, cleaned, lapsed, nextUid, sync>>
    BY <1>0, <1>4 DEF DeleteParent, WriteParent, TypeOK, history
  <2> HIDE DEF object
  <2> QED
    BY <2>1, <2>2, Rewritten
<1>5. CASE CollectParent
  <2> DEFINE object == [parent EXCEPT !.gc = FALSE]
  <2>1. /\ parent \in Parents /\ object \in Parents
        /\ object.uid = parent.uid /\ object.ours = parent.ours
    BY <1>0, <1>5, ParentFacts DEF CollectParent, Parents
  <2>2. /\ parent # None /\ parent' = Stored(object) /\ cParent'.obj = cParent.obj
        /\ UNCHANGED <<hooked, acted, cleaned, lapsed, nextUid, sync>>
    BY <1>0, <1>5 DEF CollectParent, WriteParent, TypeOK, history, bounds
  <2> HIDE DEF object
  <2> QED
    BY <2>1, <2>2, Rewritten
<1>6. CASE Reconfigure
  <2>1. /\ sync.pc = "idle" /\ acted' = {} /\ cParent'.obj \in {parent, cParent.obj}
        /\ lapsed' = IF StaleFinalizer(cParent'.obj) THEN {parent.uid} ELSE {}
        /\ UNCHANGED <<parent, sync, cleaned, nextUid>>
    BY <1>0, <1>6, FreshFacts DEF Reconfigure, store
  <2> QED
    BY <2>1 DEF Inv, FinalizerHeld, SyncMayAct, OwedToOld, HoldsOn, Live, StaleFinalizer
<1>7. ASSUME NEW c \in Child, DrainChild(c) \/ CollectChild(c) \/ RemoveChild(c) PROVE Inv'
  <2>1. PICK object : Others(c, object) /\ UNCHANGED <<parent, cParent, nextUid>>
    BY <1>7 DEF DrainChild, CollectChild, RemoveChild, bounds
  <2>2. sync'.me = sync.me /\ sync'.pc = sync.pc
    BY <1>0, <2>1 DEF Others, TypeOK, Syncs
  <2> QED
    BY <2>1, <2>2, Elsewhere DEF Others, history
<1> QED
  BY <1>1, <1>2, <1>3, <1>4, <1>5, <1>6, <1>7 DEF Environment

(* Of a parent that goes, the finalize hook has finished, or the finalizer  *)
(* has lapsed, or nothing was created for it while there was a hook.        *)
LEMMA GoesCleaned ==
  ASSUME Inv, Next, parent # None, parent' = None, parent.uid \in acted
  PROVE  parent.uid \in cleaned \union lapsed'
<1>0. parent \in Parents /\ hooked
  BY DEF Inv, TypeOK, OwedToOld
<1>1. CASE SyncFinalizer
  <2>1. WriteParent(Stored(WithFinalizer(parent)))
    BY <1>1 DEF SyncFinalizer, ToObserve
  <2>2. WithFinalizer(parent) \in Parents /\ WithFinalizer(parent).ours
    BY <1>0, ParentFacts DEF WithFinalizer, Parents
  <2> QED
    BY <2>1, <2>2, StoredFacts DEF WriteParent
<1>2. CASE RemoveFinalizer
  <2>1. /\ Live(sync.me) /\ sync.pc = "finalized"
        /\ ~sync.me.deleting => parent.uid \in lapsed'
    BY <1>2, <1>0, ParentFacts DEF RemoveFinalizer, Live
  <2> QED
    BY <1>0, <2>1 DEF Inv, SyncMayAct, Live
<1>3. ASSUME NEW foreground \in BOOLEAN, DeleteParent(foreground) PROVE parent.uid \in cleaned \union lapsed'
  <2> DEFINE object == [parent EXCEPT !.deleting = TRUE, !.gc = foreground]
  <2>1. object \in Parents /\ object.ours = parent.ours /\ parent' = Stored(object)
    BY <1>0, <1>3, ParentFacts DEF DeleteParent, WriteParent, Parents
  <2> HIDE DEF object
  <2>2. ~parent.ours
    BY <2>1, StoredFacts
  <2>3. lapsed' = lapsed
    BY <1>3 DEF DeleteParent, history
  <2> QED
    BY <1>0, <2>2, <2>3 DEF Inv, FinalizerHeld
<1>4. CASE CollectParent
  <2> DEFINE object == [parent EXCEPT !.gc = FALSE]
  <2>1. object \in Parents /\ object.ours = parent.ours /\ parent' = Stored(object)
    BY <1>0, <1>4, ParentFacts DEF CollectParent, WriteParent, Parents
  <2> HIDE DEF object
  <2>2. ~parent.ours
    BY <2>1, StoredFacts
  <2>3. lapsed' = lapsed
    BY <1>4 DEF CollectParent, history
  <2> QED
    BY <1>0, <2>2, <2>3 DEF Inv, FinalizerHeld
<1>5. CASE \/ BeginSync \/ CallHook \/ FinishSync \/ Informers \/ Faults \/ Reconfigure
           \/ \E c \in Child : DeleteChild(c) \/ CreateChild(c)
           \/ \E c \in Child : DrainChild(c) \/ CollectChild(c) \/ RemoveChild(c)
  <2>1. parent' = parent
    BY <1>5 DEF BeginSync, CallHook, FinishSync, Informers, ParentEvent, ParentResync, ChildEvent,
       Faults, Crash, AbortSync, ChildCallFails, Reconfigure, DeleteChild, CreateChild,
       DrainChild, CollectChild, RemoveChild, store
  <2> QED
    BY <2>1
<1>6. ~CreateParent
  BY DEF CreateParent
<1> QED
  BY <1>1, <1>2, <1>3, <1>4, <1>5, <1>6 DEF Next, Worker, Environment

(* The finalizer contract, for any children, any hooks, and any sequence of *)
(* edits, crashes, failures and restarts with another configuration, on     *)
(* fresh informers or on shared ones: no parent for which something was     *)
(* created goes before its finalize hook has finished, unless its finalizer *)
(* has lapsed in one of the two ways CleansUp names.                        *)
THEOREM AlwaysCleansUp == Spec => CleansUp
<1>1. Init => Inv
  BY InvInit, TypeCorrectInit
<1>2. Inv /\ [Next]_vars => Inv'
  <2> SUFFICES ASSUME Inv, [Next]_vars PROVE Inv'
    OBVIOUS
  <2>1. TypeOK'
    BY TypeCorrectNext DEF Inv
  <2>2. CASE UNCHANGED vars
    BY <2>1, <2>2, Elsewhere DEF vars, store, caches, history, bounds
  <2> QED
    BY <2>1, <2>2, WorkerInv, OthersInv DEF Next
<1>3. Inv /\ [Next]_vars =>
        [ parent # None /\ parent' = None /\ parent.uid \in acted
            => parent.uid \in cleaned \union lapsed' ]_vars
  BY GoesCleaned
<1> QED
  BY <1>1, <1>2, <1>3, PTL DEF Spec, CleansUp

-----------------------------------------------------------------------------
(* Teardown in order, and no child left behind.                             *)

(* The hook says that it has finalized when it is shown no child, and a     *)
(* sync that saw the children as they were has seen all there are.          *)
FinalizedSawNone ==
  sync.pc = "finalized" =>
    sync.todel = {} /\ (sync.current => ChildrenOf(sync.me.uid) = {})

(* What is left to delete comes last. *)
DeletesLast ==
  sync.pc = "manage" /\ sync.current /\ sync.me.deleting =>
    \A c \in sync.todel : \A d \in ChildrenOf(sync.me.uid) : d <= c

OrderInv == TypeOK /\ FinalizedSawNone /\ DeletesLast

(* The sync goes on, and no child is created.                               *)
GoesOn ==
  /\ sync'.pc = sync.pc /\ sync'.me = sync.me /\ sync'.current = sync.current
  /\ sync'.todel \subseteq sync.todel
  /\ \A c \in Child : children'[c] # None =>
       children[c] # None /\ children'[c].owner = children[c].owner

LEMMA OthersGoOn ==
  ASSUME TypeOK, NEW c \in Child, NEW object, Others(c, object),
         \/ object = None
         \/ children[c] # None /\ object = [children[c] EXCEPT !.deleting = TRUE]
  PROVE  GoesOn
<1>1. /\ sync'.pc = sync.pc /\ sync'.me = sync.me /\ sync'.current = sync.current
      /\ sync'.todel = sync.todel
  BY DEF Others, TypeOK, Syncs
<1>2. children' = [children EXCEPT ![c] = object]
  BY DEF Others, WriteChild
<1>3. children[c] # None => [children[c] EXCEPT !.deleting = TRUE].owner = children[c].owner
  BY DEF TypeOK, Children
<1> QED
  BY <1>1, <1>2, <1>3 DEF GoesOn, TypeOK

LEMMA ManageKinds ==
  ASSUME TypeOK, [Next]_vars
  PROVE  \/ sync'.pc \in {"idle", "finalizer", "observe"}
         \/ CallHook \/ RemoveFinalizer \/ GoesOn
         \/ sync.todel = {} /\ \E c \in Child : CreateChild(c)
<1>0. sync \in Syncs
  BY DEF TypeOK
<1>1. ASSUME UNCHANGED <<sync, children>> PROVE GoesOn
  BY <1>1 DEF GoesOn
<1>2. BeginSync \/ FinishSync => sync'.pc \in {"idle", "finalizer"}
  BY IdleFacts DEF BeginSync, FinishSync, Idle
<1>3. SyncFinalizer => sync'.pc \in {"idle", "observe"}
  BY <1>0, IdleFacts DEF SyncFinalizer, ToObserve, Requeue, Syncs
<1>4. ASSUME NEW c \in Child, DeleteChild(c) PROVE GoesOn
  <2>1. /\ sync'.pc = sync.pc /\ sync'.me = sync.me /\ sync'.current = sync.current
        /\ sync'.todel \subseteq sync.todel
    <3>1. CASE sync' = [sync EXCEPT !.todel = @ \ {c}]
      BY <1>0, <3>1 DEF Syncs
    <3>2. CASE sync' = [sync EXCEPT !.todel = @ \ {c}, !.failed = TRUE]
      BY <1>0, <3>2 DEF Syncs
    <3> QED
      BY <1>4, <3>1, <3>2, Zenon DEF DeleteChild
  <2>2. CASE UNCHANGED children
    BY <2>1, <2>2 DEF GoesOn
  <2>3. CASE children[c] # None /\ children' = [children EXCEPT ![c] = [@ EXCEPT !.deleting = TRUE]]
    <3>1. [children[c] EXCEPT !.deleting = TRUE].owner = children[c].owner
      BY <2>3 DEF TypeOK, Children
    <3> QED
      BY <2>1, <2>3, <3>1 DEF GoesOn, TypeOK
  <2> QED
    BY <1>4, <2>2, <2>3 DEF DeleteChild, CanDelete, WriteChild
<1>5. \A c \in Child : CreateChild(c) => sync.todel = {}
  BY DEF CreateChild
<1>6. Informers => GoesOn
  BY <1>1 DEF Informers, ParentEvent, ParentResync, ChildEvent, store
<1>7. ASSUME Faults PROVE sync'.pc = "idle" \/ GoesOn
  <2>1. Crash \/ AbortSync => sync'.pc = "idle"
    BY IdleFacts DEF Crash, AbortSync, Requeue
  <2>2. ASSUME NEW c \in Child, ChildCallFails(c) PROVE GoesOn
    BY <1>0, <2>2 DEF ChildCallFails, GoesOn, Syncs, store
  <2> QED
    BY <1>7, <2>1, <2>2 DEF Faults
<1>8. ASSUME Environment PROVE GoesOn
  <2>1. CreateParent \/ CollectParent \/ Reconfigure => GoesOn
    BY <1>1 DEF CreateParent, CollectParent, Reconfigure, store
  <2>2. ASSUME NEW foreground \in BOOLEAN, DeleteParent(foreground) PROVE GoesOn
    BY <1>1, <2>2 DEF DeleteParent
  <2>3. ASSUME NEW c \in Child, DrainChild(c) \/ CollectChild(c) \/ RemoveChild(c) PROVE GoesOn
    BY <2>3, OthersGoOn DEF DrainChild, CollectChild, RemoveChild, Dependents
  <2> QED
    BY <1>8, <2>1, <2>2, <2>3 DEF Environment
<1>9. UNCHANGED vars => GoesOn
  BY <1>1 DEF vars, store
<1> QED
  BY <1>2, <1>3, <1>4, <1>5, <1>6, <1>7, <1>8, <1>9 DEF Next, Worker

(* What the hook is shown when the cache is caught up. *)
LEMMA SeesAll ==
  ASSUME TypeOK, NEW me, cChildren = [c \in Child |-> Copy(children[c])]
  PROVE  Observed(me) = ChildrenOf(me.uid)
<1>1. ASSUME NEW c \in Child
      PROVE  /\ cChildren[c] # None <=> children[c] # None
             /\ children[c] # None => cChildren[c].obj = children[c]
  <2>1. CASE children[c] = None
    BY <2>1 DEF Copy
  <2>2. CASE children[c] # None
    <3>1. Copy(children[c]) = [obj |-> children[c], lag |-> "same"]
      BY <2>2 DEF Copy
    <3>2. Copy(children[c]) \in Copies
      BY <2>2, <3>1 DEF TypeOK, Copies
    <3> QED
      BY <2>2, <3>1, <3>2, LifecycleAssumption
  <2> QED
    BY <2>1, <2>2
<1> QED
  BY <1>1 DEF Observed, ChildrenOf

LEMMA CallHookOrder ==
  ASSUME OrderInv, CallHook
  PROVE  FinalizedSawNone' /\ DeletesLast'
<1> DEFINE me == sync.me
           seen == Observed(me)
<1>0. PICK done \in MaySayFinalized(me, seen) :
        sync' = [ToManage(me, seen) EXCEPT !.pc = IF done THEN "finalized" ELSE @]
  BY DEF CallHook
<1>1. TypeOK /\ seen \subseteq Child
  BY DEF OrderInv, Observed
<1>2. UNCHANGED <<children, cChildren, hooked>>
  BY DEF CallHook, store, caches
<1>3. /\ sync'.pc = IF done THEN "finalized" ELSE "manage"
      /\ sync'.me = me
      /\ sync'.current = (cChildren = [c \in Child |-> Copy(children[c])])
      /\ sync'.todel = {c \in seen \ Wanted(me, seen) : ~cChildren[c].obj.deleting}
  BY <1>0 DEF ToManage
<1>4. sync'.current => seen = ChildrenOf(me.uid)
  BY <1>1, <1>3, SeesAll
<1>5. done => seen = {}
  BY DEF MaySayFinalized
<1>6. ChildrenOf(sync.me.uid)' = ChildrenOf(me.uid)
  BY <1>2, <1>3 DEF ChildrenOf
<1>7. FinalizedSawNone'
  <2>1. done => sync'.todel = {}
    BY <1>3, <1>5
  <2>2. done /\ sync'.current => ChildrenOf(sync.me.uid)' = {}
    BY <1>4, <1>5, <1>6
  <2>3. sync'.pc = "finalized" => done
    BY <1>3
  <2> QED
    BY <2>1, <2>2, <2>3 DEF FinalizedSawNone
<1>8. DeletesLast'
  <2> SUFFICES ASSUME sync'.current, me.deleting,
                      NEW c \in sync'.todel, NEW d \in ChildrenOf(me.uid)
               PROVE  d <= c
    BY <1>3, <1>6 DEF DeletesLast
  <2>1. c \in seen /\ c \notin Wanted(me, seen) /\ d \in seen /\ c \in Nat /\ d \in Nat
    BY <1>1, <1>3, <1>4, LifecycleAssumption
  <2>2. ~(d > c)
    BY <1>1, <2>1 DEF Wanted
  <2> QED
    BY <2>1, <2>2
<1> QED
  BY <1>7, <1>8

LEMMA OrderStep == ASSUME OrderInv, [Next]_vars PROVE OrderInv'
<1>1. TypeOK /\ TypeOK'
  BY TypeCorrectNext DEF OrderInv
<1>2. CASE sync'.pc \in {"idle", "finalizer", "observe"}
  BY <1>1, <1>2 DEF OrderInv, FinalizedSawNone, DeletesLast
<1>3. CASE CallHook
  BY <1>1, <1>3, CallHookOrder DEF OrderInv
<1>4. CASE RemoveFinalizer
  <2>1. sync'.pc = "idle" \/ (sync'.pc = "manage" /\ sync'.todel = sync.todel)
    BY <1>1, <1>4, IdleFacts DEF RemoveFinalizer, Requeue, TypeOK, Syncs
  <2>2. sync.pc = "finalized"
    BY <1>4 DEF RemoveFinalizer
  <2> QED
    BY <1>1, <2>1, <2>2 DEF OrderInv, FinalizedSawNone, DeletesLast
<1>5. CASE GoesOn
  <2>1. \A u : ChildrenOf(u)' \subseteq ChildrenOf(u)
    BY <1>5 DEF GoesOn, ChildrenOf
  <2>2. FinalizedSawNone'
    BY <1>5, <2>1 DEF OrderInv, FinalizedSawNone, GoesOn
  <2>3. DeletesLast'
    BY <1>5, <2>1 DEF OrderInv, DeletesLast, GoesOn
  <2> QED
    BY <1>1, <2>2, <2>3 DEF OrderInv
<1>6. ASSUME NEW c \in Child, CreateChild(c), sync.todel = {} PROVE OrderInv'
  <2>1. sync'.pc = "manage" /\ sync'.todel = {}
    <3>1. sync \in Syncs
      BY <1>1 DEF TypeOK
    <3>2. \/ sync' = [sync EXCEPT !.tonew = @ \ {c}]
          \/ sync' = [sync EXCEPT !.tonew = @ \ {c}, !.failed = TRUE]
      BY <1>6, Zenon DEF CreateChild
    <3>3. sync.pc = "manage"
      BY <1>6 DEF CreateChild
    <3> QED
      BY <1>6, <3>1, <3>2, <3>3 DEF Syncs
  <2> QED
    BY <1>1, <2>1 DEF OrderInv, FinalizedSawNone, DeletesLast
<1> QED
  BY <1>1, <1>2, <1>3, <1>4, <1>5, <1>6, ManageKinds

LEMMA OrderInit == Init => OrderInv
BY TypeCorrectInit, IdleFacts DEF Init, OrderInv, FinalizedSawNone, DeletesLast

(* Ordered teardown: whatever the number of children and whatever happens   *)
(* to them, a sync that saw the children as they were deletes only the last *)
(* child of a parent that is pending deletion.                              *)
THEOREM TearsDownInOrder == Spec => TeardownOrder
<1>1. OrderInv /\ [Next]_vars => OrderInv'
  BY OrderStep
<1>2. OrderInv /\ [Next]_vars =>
        \A c \in Child :
          /\ sync.pc = "manage" /\ sync.current /\ sync.me.deleting /\ c \in sync.todel
          /\ children'[c] # children[c]
          => \A d \in ChildrenOf(sync.me.uid) : d <= c
  BY DEF OrderInv, DeletesLast
<1> QED
  BY <1>1, <1>2, OrderInit, PTL DEF Spec, TeardownOrder

(* With a hook only the removal of the finalizer lets go of a parent that   *)
(* has it.                                                                  *)
LEMMA LetsGo ==
  ASSUME TypeOK, [Next]_vars, parent # None, parent.ours, hooked,
         parent' = None \/ ~parent'.ours
  PROVE  RemoveFinalizer
<1>0. parent \in Parents
  BY DEF TypeOK
<1>1. ASSUME NEW object \in Parents, object.ours, parent' = Stored(object) PROVE FALSE
  BY <1>1, StoredFacts, ParentFacts
<1>2. ASSUME UNCHANGED parent PROVE FALSE
  BY <1>2
<1>3. ASSUME SyncFinalizer PROVE FALSE
  <2>1. parent' = Stored(WithFinalizer(parent))
    BY <1>2, <1>3 DEF SyncFinalizer, ToObserve, WriteParent
  <2>2. WithFinalizer(parent) \in Parents /\ WithFinalizer(parent).ours
    BY <1>0, ParentFacts DEF WithFinalizer, Parents
  <2> QED
    BY <1>1, <2>1, <2>2
<1>4. ASSUME NEW foreground \in BOOLEAN, DeleteParent(foreground) PROVE FALSE
  <2> DEFINE object == [parent EXCEPT !.deleting = TRUE, !.gc = foreground]
  <2>1. object \in Parents /\ object.ours = parent.ours /\ parent' = Stored(object)
    BY <1>0, <1>4, ParentFacts DEF DeleteParent, WriteParent, Parents
  <2> HIDE DEF object
  <2> QED
    BY <1>1, <2>1
<1>5. ASSUME CollectParent PROVE FALSE
  <2> DEFINE object == [parent EXCEPT !.gc = FALSE]
  <2>1. object \in Parents /\ object.ours = parent.ours /\ parent' = Stored(object)
    BY <1>0, <1>5, ParentFacts DEF CollectParent, WriteParent, Parents
  <2> HIDE DEF object
  <2> QED
    BY <1>1, <2>1
<1>6. ~CreateParent
  BY DEF CreateParent
<1>7. ASSUME \/ BeginSync \/ CallHook \/ FinishSync \/ Informers \/ Faults \/ Reconfigure
             \/ \E c \in Child : DeleteChild(c) \/ CreateChild(c)
             \/ \E c \in Child : DrainChild(c) \/ CollectChild(c) \/ RemoveChild(c)
             \/ UNCHANGED vars
      PROVE  FALSE
  BY <1>2, <1>7 DEF BeginSync, CallHook, FinishSync, Informers, ParentEvent, ParentResync,
     ChildEvent, Faults, Crash, AbortSync, ChildCallFails, Reconfigure, DeleteChild,
     CreateChild, DrainChild, CollectChild, RemoveChild, store, vars
<1> QED
  BY <1>3, <1>4, <1>5, <1>6, <1>7 DEF Next, Worker, Environment

(* A controller that saw the children as they were lets go of a parent only *)
(* when none of them exist, even if the sync hook says "finalized" too.     *)
THEOREM LeavesNoChild == Spec => LeavesNothing
<1>1. OrderInv /\ [Next]_vars => OrderInv'
  BY OrderStep
<1>2. OrderInv /\ [Next]_vars =>
        ( sync.current /\ parent # None /\ parent.ours /\ parent.deleting /\ hooked
          /\ (parent' = None \/ ~parent'.ours)
            => ChildrenOf(parent.uid) = {} )
  <2> SUFFICES ASSUME OrderInv, [Next]_vars, sync.current, parent # None, parent.ours, hooked,
                      parent' = None \/ ~parent'.ours
               PROVE  ChildrenOf(parent.uid) = {}
    OBVIOUS
  <2>1. RemoveFinalizer
    BY LetsGo DEF OrderInv
  <2>2. sync.pc = "finalized" /\ parent.uid = sync.me.uid
    BY <2>1 DEF RemoveFinalizer, Live
  <2> QED
    BY <2>2 DEF OrderInv, FinalizedSawNone
<1> QED
  BY <1>1, <1>2, OrderInit, PTL DEF Spec, LeavesNothing
=============================================================================
