----------------------------- MODULE ChildClaims -----------------------------
(***************************************************************************)
(* Which parent controls which object: the claim managers of a             *)
(* CompositeController, and the watch handlers that wake its workers.      *)
(*                                                                         *)
(* Every parent has a key of the work queue, and at most one worker at a   *)
(* time syncs it.  A sync lists the objects from the informer caches,      *)
(* keeps those it controls, releases those its selector does not match     *)
(* and adopts matching orphans, each with a live GET and a PUT that may    *)
(* conflict.  Parents and objects are deleted and created again under the  *)
(* same name while it does so.                                             *)
(***************************************************************************)
EXTENDS Naturals, FiniteSets

CONSTANTS
  Parent,    \* names of parents
  Child,     \* names of child objects
  Revision,  \* names of ControllerRevisions
  Label,     \* label sets an object may have
  Selects,   \* [Parent -> SUBSET Label], the parents' selectors
  MaxUid,    \* bound: incarnations of parents
  MaxEdits,  \* bound: steps of users
  Orphan,    \* nobody controls the object
  None       \* no such object

Object == Child \union Revision

Uid == 1..MaxUid

ParentObjects == [uid : Uid, deleting : BOOLEAN]

Objects == [label : Label, owner : Uid \union {Orphan}, deleting : BOOLEAN]

(* A copy of an object is "same" while the object has its resourceVersion,  *)
(* "changed" once it was written, "gone" once it was deleted, even if there *)
(* is a new object of its name.                                             *)
CopiesOf(objs) == [obj : objs, lag : {"same", "changed", "gone"}]

ASSUME ClaimsAssumption ==
  /\ Child \intersect Revision = {}
  /\ Selects \in [Parent -> SUBSET Label]
  /\ MaxUid \in Nat
  /\ MaxEdits \in Nat
  /\ Orphan \notin Uid
  /\ None \notin Object \union Uid \union {Orphan}
  /\ \A x \in ParentObjects \union Objects \union CopiesOf(Objects) : x # None

VARIABLES
  parents,   \* API server: [Parent -> [uid, deleting] or None]
  objects,   \* API server: [Object -> [label, owner, deleting] or None]
  cParents,  \* informer caches of the two
  cObjects,
  queued,    \* keys in the work queue
  sync,      \* [Parent -> the sync of its key]
  nextUid, edits

store == <<parents, objects>>
vars  == <<store, cParents, cObjects, queued, sync, nextUid, edits>>

Copy(object) == IF object = None THEN None ELSE [obj |-> object, lag |-> "same"]

AgeOne(copy, lag) ==
  IF copy = None \/ copy.lag = "gone" THEN copy ELSE [copy EXCEPT !.lag = lag]

Age(copies, o, lag) == [copies EXCEPT ![o] = AgeOne(@, lag)]

Alive(p) == parents[p] # None /\ ~parents[p].deleting

Idle == [pc |-> "idle", uid |-> None, deleting |-> FALSE,
         seen |-> [o \in Object |-> None], todo |-> {}, claimed |-> {},
         adopt |-> "unknown", at |-> None, got |-> None, failed |-> FALSE,
         doomed |-> FALSE, fresh |-> FALSE]

Init ==
  /\ parents = [p \in Parent |-> None]
  /\ objects = [o \in Object |-> None]
  /\ cParents = parents
  /\ cObjects = objects
  /\ queued = {}
  /\ sync = [p \in Parent |-> Idle]
  /\ nextUid = 1
  /\ edits = 0

(* A write of object o, seen by no cache and no sync yet. *)
Write(o, object, syncs) ==
  LET lag == IF object = None THEN "gone" ELSE "changed"
  IN /\ objects' = [objects EXCEPT ![o] = object]
     /\ cObjects' = Age(cObjects, o, lag)
     /\ sync' = [p \in Parent |->
                   [syncs[p] EXCEPT !.seen = Age(@, o, lag),
                                    !.got = IF syncs[p].at = o THEN AgeOne(@, lag) ELSE @]]

-----------------------------------------------------------------------------
(* The decisions of ClaimManager.Claim, on the copies a sync listed. *)
Matches(p, object) == object.label \in Selects[p]

Owns(p, o) == sync[p].seen[o] # None /\ sync[p].seen[o].obj.owner = sync[p].uid

Keeps(me, p, copy) ==
  copy # None /\ copy.obj.owner = me.uid /\ Matches(p, copy.obj)

Releases(me, p, copy) ==
  /\ copy # None /\ copy.obj.owner = me.uid
  /\ ~Matches(p, copy.obj) /\ ~me.deleting

Adopts(me, p, copy) ==
  /\ copy # None /\ copy.obj.owner = Orphan
  /\ Matches(p, copy.obj) /\ ~me.deleting /\ ~copy.obj.deleting

(* queue.Get, the parent and the objects as listed: what is kept needs no   *)
(* API call, what is left todo does.  The properties speak of syncs of a    *)
(* doomed parent, and of syncs that listed every child as it was.           *)
Begun(p, me) ==
  [pc |-> "claiming", uid |-> me.uid, deleting |-> me.deleting, seen |-> cObjects,
   todo |-> {o \in Object : Releases(me, p, cObjects[o]) \/ Adopts(me, p, cObjects[o])},
   claimed |-> {o \in Object : Keeps(me, p, cObjects[o])},
   adopt |-> "unknown", at |-> None, got |-> None, failed |-> FALSE,
   doomed |-> ~(Alive(p) /\ parents[p].uid = me.uid),
   fresh |-> \A o \in Child : cObjects[o] = Copy(objects[o])]

BeginSync(p) ==
  /\ sync[p].pc = "idle" /\ p \in queued
  /\ queued' = queued \ {p}
  /\ IF cParents[p] = None
     THEN UNCHANGED sync
     ELSE sync' = [sync EXCEPT ![p] = Begun(p, cParents[p])]
  /\ UNCHANGED <<store, cParents, cObjects, nextUid, edits>>

Adopting(p, o) == o \in sync[p].todo /\ Adopts(sync[p], p, sync[p].seen[o])

(* canAdoptFunc: a live read of the parent, once per sync.  The mutant      *)
(* trusts the cache.                                                        *)
CanAdoptCached(p) ==
  cParents[p] # None /\ cParents[p].uid = sync[p].uid /\ ~cParents[p].deleting

CanAdopt(p) == Alive(p) /\ parents[p].uid = sync[p].uid

CheckAdopt(p) ==
  /\ sync[p].pc = "claiming" /\ sync[p].adopt = "unknown" /\ sync[p].at = None
  /\ \E o \in Object : Adopting(p, o)
  /\ sync' = [sync EXCEPT ![p].adopt = IF CanAdopt(p) THEN "yes" ELSE "no"]
  /\ UNCHANGED <<store, cParents, cObjects, queued, nextUid, edits>>

Settled(me, o) == [me EXCEPT !.todo = @ \ {o}, !.at = None, !.got = None]

(* The claim of one object fails; the others are still tried. *)
RefuseAdopt(p, o) ==
  /\ sync[p].pc = "claiming" /\ sync[p].adopt = "no" /\ sync[p].at = None
  /\ Adopting(p, o)
  /\ sync' = [sync EXCEPT ![p] = [Settled(@, o) EXCEPT !.failed = TRUE]]
  /\ UNCHANGED <<store, cParents, cObjects, queued, nextUid, edits>>

(* atomicUpdate, first half: a live GET.  An object with another UID is not *)
(* the one that was listed; the error is ignored.  The mutant does not      *)
(* compare the UIDs.                                                        *)
IsSameAny(p, o) == objects[o] # None

IsSame(p, o) == objects[o] # None /\ sync[p].seen[o].lag # "gone"

Get(p, o) ==
  /\ sync[p].pc = "claiming" /\ sync[p].got = None
  /\ o \in sync[p].todo /\ sync[p].at \in {None, o}
  /\ Adopting(p, o) => sync[p].adopt = "yes"
  /\ IF IsSame(p, o)
     THEN sync' = [sync EXCEPT ![p].at = o, ![p].got = Copy(objects[o])]
     ELSE sync' = [sync EXCEPT ![p] = Settled(@, o)]
  /\ UNCHANGED <<store, cParents, cObjects, queued, nextUid, edits>>

(* addOwnerReference and removeOwnerReference, on the object just read.     *)
(* Adding a second controller is refused by the API server.  The mutants    *)
(* replace the list, and blank the UID of the entry.                        *)
Replaced(me, owner) == me.uid

RemovedBlank(me, owner) == IF owner = me.uid THEN 0 ELSE owner

Added(me, owner) == IF owner \in {Orphan, me.uid} THEN me.uid ELSE None

Removed(me, owner) == IF owner = me.uid THEN Orphan ELSE owner

NewOwner(p, o) ==
  LET owner == sync[p].got.obj.owner
  IN IF Adopting(p, o) THEN Added(sync[p], owner) ELSE Removed(sync[p], owner)

(* atomicUpdate, second half: the PUT.  The claim manager of                *)
(* ControllerRevisions has no second half: updateWithRetries changes the    *)
(* object it read and reports success.  So does the mutant for children.    *)
StoresNone(o) == FALSE

Stores(o) == o \in Child

Conclude(p, o) ==
  [Settled(sync[p], o) EXCEPT !.claimed = IF Adopting(p, o) THEN @ \union {o} ELSE @]

Put(p, o) ==
  /\ sync[p].at = o /\ sync[p].got # None
  /\ \/ /\ Stores(o) /\ sync[p].got.lag = "same" /\ NewOwner(p, o) # None
        /\ LET syncs == [sync EXCEPT ![p] = Conclude(p, o)]
           IN IF NewOwner(p, o) = sync[p].got.obj.owner
              THEN sync' = syncs /\ UNCHANGED <<objects, cObjects>>
              ELSE Write(o, [objects[o] EXCEPT !.owner = NewOwner(p, o)], syncs)
     \/ /\ ~Stores(o)
        /\ sync' = [sync EXCEPT ![p] = Conclude(p, o)]
        /\ UNCHANGED <<objects, cObjects>>
  /\ UNCHANGED <<parents, cParents, queued, nextUid, edits>>

(* The PUT is refused: a conflict is retried from the GET, until the        *)
(* retries are used up; a second controller is invalid.                     *)
PutRefused(p, o) ==
  /\ sync[p].at = o /\ sync[p].got # None /\ Stores(o)
  /\ \/ /\ sync[p].got.lag # "same"
        /\ sync' = [sync EXCEPT ![p].got = None]
     \/ /\ sync[p].got.lag = "changed" \/ NewOwner(p, o) = None
        /\ sync' = [sync EXCEPT ![p] = [Settled(@, o) EXCEPT !.failed = TRUE]]
  /\ UNCHANGED <<store, cParents, cObjects, queued, nextUid, edits>>

(* BulkClaim returns.  An error ends the sync and puts the key back;        *)
(* otherwise the sync goes on to act on what it claimed.                    *)
EndClaims(p) ==
  /\ sync[p].pc = "claiming" /\ sync[p].todo = {}
  /\ IF sync[p].failed
     THEN /\ sync' = [sync EXCEPT ![p] = Idle]
          /\ queued' = queued \union {p}
     ELSE /\ sync' = [sync EXCEPT ![p].pc = "acting"]
          /\ UNCHANGED queued
  /\ UNCHANGED <<store, cParents, cObjects, nextUid, edits>>

EndSync(p) ==
  /\ sync[p].pc = "acting"
  /\ sync' = [sync EXCEPT ![p] = Idle]
  /\ UNCHANGED <<store, cParents, cObjects, queued, nextUid, edits>>

-----------------------------------------------------------------------------
(* Watch events and their handlers. *)

(* resolveControllerRef: the cached parent with that UID, if any. *)
Resolve(owner) == {p \in Parent : cParents[p] # None /\ cParents[p].uid = owner}

(* findPotentialParents *)
Potential(object) == {p \in Parent : cParents[p] # None /\ Matches(p, object)}

OnChildDelete(object) == Resolve(object.owner)

(* onChildAdd, which onChildUpdate calls too.  The mutant leaves orphans    *)
(* to the resync.                                                           *)
OnChildAddOwned(object) == Resolve(object.owner)

OnChildAdd(object) ==
  IF object.deleting THEN OnChildDelete(object)
  ELSE IF object.owner # Orphan THEN Resolve(object.owner)
  ELSE Potential(object)

(* The cache of one object catches up.  An object that was deleted and      *)
(* created again is first removed from the cache.                           *)
ObjectEvent(o) ==
  LET old == cObjects[o]
      new == IF old # None /\ old.lag = "gone" THEN None ELSE Copy(objects[o])
      woken == IF new # None THEN OnChildAdd(new.obj)
               ELSE IF old # None THEN OnChildDelete(old.obj)
               ELSE {}
  IN /\ old # new
     /\ cObjects' = [cObjects EXCEPT ![o] = new]
     /\ queued' = IF o \in Child THEN queued \union woken ELSE queued
     /\ UNCHANGED <<store, cParents, sync, nextUid, edits>>

(* A parent that was added, updated or deleted is enqueued. *)
ParentEvent(p) ==
  /\ cParents[p] # parents[p]
  /\ cParents' = [cParents EXCEPT ![p] = parents[p]]
  /\ queued' = queued \union {p}
  /\ UNCHANGED <<store, cObjects, sync, nextUid, edits>>

(* The periodic resync enqueues every cached parent. *)
ParentResync(p) ==
  /\ cParents[p] # None /\ p \notin queued
  /\ queued' = queued \union {p}
  /\ UNCHANGED <<store, cParents, cObjects, sync, nextUid, edits>>

-----------------------------------------------------------------------------
(* Users and the garbage collector. *)
Edit == edits < MaxEdits /\ edits' = edits + 1

CreateParent(p) ==
  /\ Edit
  /\ parents[p] = None /\ nextUid \in Uid
  /\ parents' = [parents EXCEPT ![p] = [uid |-> nextUid, deleting |-> FALSE]]
  /\ nextUid' = nextUid + 1
  /\ UNCHANGED <<objects, cParents, cObjects, queued, sync>>

DeleteParent(p) ==
  /\ Edit
  /\ Alive(p)
  /\ parents' = [parents EXCEPT ![p].deleting = TRUE]
  /\ UNCHANGED <<objects, cParents, cObjects, queued, sync, nextUid>>

RemoveParent(p) ==
  /\ parents[p] # None /\ parents[p].deleting
  /\ parents' = [parents EXCEPT ![p] = None]
  /\ UNCHANGED <<objects, cParents, cObjects, queued, sync, nextUid, edits>>

(* An orphan of a user, or an object a sync creates for its parent; nobody  *)
(* else creates revisions.                                                  *)
CreateObject(o, label, owner) ==
  /\ Edit
  /\ objects[o] = None
  /\ \/ owner = Orphan /\ o \in Child
     \/ \E p \in Parent : /\ sync[p].pc = "acting" /\ sync[p].uid = owner
                          /\ label \in Selects[p]
  /\ Write(o, [label |-> label, owner |-> owner, deleting |-> FALSE], sync)
  /\ UNCHANGED <<parents, cParents, queued, nextUid>>

Relabel(o, label) ==
  /\ Edit
  /\ objects[o] # None /\ objects[o].label # label
  /\ Write(o, [objects[o] EXCEPT !.label = label], sync)
  /\ UNCHANGED <<parents, cParents, queued, nextUid>>

DeleteObject(o) ==
  /\ Edit
  /\ objects[o] # None /\ ~objects[o].deleting
  /\ Write(o, [objects[o] EXCEPT !.deleting = TRUE], sync)
  /\ UNCHANGED <<parents, cParents, queued, nextUid>>

RemoveObject(o) ==
  /\ objects[o] # None /\ objects[o].deleting
  /\ Write(o, None, sync)
  /\ UNCHANGED <<parents, cParents, queued, nextUid, edits>>

(* The dependents of a parent that is going are orphaned while it is still  *)
(* there, if its deletion asked for that, or collected once it is gone.     *)
OrphanObject(o) ==
  /\ objects[o] # None
  /\ \E p \in Parent : parents[p] # None /\ parents[p].deleting
                       /\ parents[p].uid = objects[o].owner
  /\ Write(o, [objects[o] EXCEPT !.owner = Orphan], sync)
  /\ UNCHANGED <<parents, cParents, queued, nextUid, edits>>

CollectObject(o) ==
  /\ objects[o] # None /\ objects[o].owner # Orphan
  /\ ~\E p \in Parent : parents[p] # None /\ parents[p].uid = objects[o].owner
  /\ Write(o, None, sync)
  /\ UNCHANGED <<parents, cParents, queued, nextUid, edits>>

-----------------------------------------------------------------------------
Worker(p) ==
  \/ BeginSync(p) \/ CheckAdopt(p) \/ EndClaims(p) \/ EndSync(p)
  \/ \E o \in Object : RefuseAdopt(p, o) \/ Get(p, o) \/ Put(p, o) \/ PutRefused(p, o)

Informers ==
  \/ \E o \in Object : ObjectEvent(o)
  \/ \E p \in Parent : ParentEvent(p) \/ ParentResync(p)

Environment ==
  \/ \E p \in Parent : CreateParent(p) \/ DeleteParent(p) \/ RemoveParent(p)
  \/ \E o \in Object :
       \/ \E label \in Label :
            \/ Relabel(o, label)
            \/ \E owner \in Uid \union {Orphan} : CreateObject(o, label, owner)
       \/ DeleteObject(o) \/ RemoveObject(o) \/ OrphanObject(o) \/ CollectObject(o)

Next == (\E p \in Parent : Worker(p)) \/ Informers \/ Environment

Spec == Init /\ [][Next]_vars

(* The workers go on, and so do the watches and the garbage collector: one   *)
(* of them at a time is enough.  The resync is not relied upon.             *)
Progresses ==
  \/ \E p \in Parent : ParentEvent(p)
  \/ \E o \in Object : ObjectEvent(o) \/ CollectObject(o)

Fairness == WF_vars(Progresses) /\ \A p \in Parent : WF_vars(Worker(p))

FairSpec == Spec /\ Fairness

-----------------------------------------------------------------------------
Copies == {None} \union CopiesOf(Objects)

Syncs ==
  [pc : {"idle", "claiming", "acting"}, uid : Uid \union {None}, deleting : BOOLEAN,
   seen : [Object -> Copies], todo : SUBSET Object, claimed : SUBSET Object,
   adopt : {"unknown", "yes", "no"}, at : Object \union {None}, got : Copies,
   failed : BOOLEAN, doomed : BOOLEAN, fresh : BOOLEAN]

TypeOK ==
  /\ parents \in [Parent -> ParentObjects \union {None}]
  /\ objects \in [Object -> Objects \union {None}]
  /\ cParents \in [Parent -> ParentObjects \union {None}]
  /\ cObjects \in [Object -> Copies]
  /\ queued \in SUBSET Parent
  /\ sync \in [Parent -> Syncs]
  /\ nextUid \in 1..(MaxUid + 1)
  /\ edits \in 0..MaxEdits

-----------------------------------------------------------------------------
(* Properties.                                                              *)

(* Two living parents never act at the same time on one child (the same     *)
(* incarnation of it), if what they listed was current: of two syncs that   *)
(* race to adopt an orphan one fails, and nobody takes a listed child away. *)
ActsOn(p) ==
  IF /\ sync[p].pc = "acting" /\ sync[p].fresh
     /\ Alive(p) /\ sync[p].uid = parents[p].uid
  THEN {o \in sync[p].claimed \intersect Child : sync[p].seen[o].lag # "gone"}
  ELSE {}

ExclusiveClaims ==
  \A p, q \in Parent : p # q => ActsOn(p) \intersect ActsOn(q) = {}

(* A sync of a parent that was deleted before the sync began, or replaced   *)
(* by another of its name, adopts nothing, whatever the cache still says.   *)
DoomedNeverAdopts ==
  [][ \A p \in Parent, o \in Child :
        /\ objects[o] # None /\ objects'[o] # None
        /\ objects[o].owner = Orphan /\ objects'[o].owner = sync[p].uid
        => ~sync[p].doomed ]_vars

(* A sync changes the owner of no object but the incarnation it listed.     *)
TouchesWhatItListed ==
  [][ \A p \in Parent, o \in Child :
        Put(p, o) /\ objects'[o] # objects[o] => sync[p].seen[o].lag # "gone" ]_vars

(* Ownership changes as the abstract specification says. *)
Claims == INSTANCE Ownership WITH
  Object <- Child, Absent <- None,
  owner <- [o \in Child |-> IF objects[o] = None THEN None ELSE objects[o].owner]

OwnershipHolds == Claims!Spec

(* When the users are done, every object ends with a controller whose       *)
(* selector matches it if there is one, and with none otherwise, although   *)
(* nothing but watch events wakes the workers.                              *)
Rightful(o) ==
  objects[o] # None /\ ~objects[o].deleting =>
    IF objects[o].owner = Orphan
    THEN \A p \in Parent : Alive(p) => ~Matches(p, objects[o])
    ELSE \A p \in Parent :
           Alive(p) /\ parents[p].uid = objects[o].owner => Matches(p, objects[o])

Settles == <>[](\A o \in Child : Rightful(o))

(* "ControllerRevisions are adopted based on the parent's label selector,   *)
(* the same way controllers like ReplicaSet adopt Pods."                    *)
RevisionsAdopted == <>[](\A o \in Revision : Rightful(o))
=============================================================================
