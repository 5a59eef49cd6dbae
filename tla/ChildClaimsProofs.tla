-------------------------- MODULE ChildClaimsProofs --------------------------
(***************************************************************************)
(* Proofs about ChildClaims: its states are well typed, it implements      *)
(* Ownership, and what its syncs touch is theirs.  The refinement rests on *)
(* GotIsCurrent: what a claim manager read with its live GET is still      *)
(* stored when its PUT is accepted.  The other properties rest on SafeInv, *)
(* the invariant of the last part.                                         *)
(***************************************************************************)
EXTENDS ChildClaims, TLAPS

(* Of one sync: it knows its parent's UID, and what it just read is stored *)
(* as it was read while its copy is "same".                                 *)
Current(me) ==
  /\ me.pc # "idle" => me.uid \in Uid
  /\ me.at # None => me.pc # "idle"
  /\ me.got # None => me.at # None
  /\ me.got # None /\ me.got.lag = "same" => me.got.obj = objects[me.at]

GotIsCurrent == \A p \in Parent : Current(sync[p])

Inv == TypeOK /\ GotIsCurrent

-----------------------------------------------------------------------------
(* Copies and syncs.                                                        *)

LEMMA CopyFacts ==
  /\ \A x \in Objects : x # None
  /\ \A x \in Objects \union {None} : Copy(x) \in Copies
  /\ \A x \in Objects : Copy(x).lag = "same" /\ Copy(x).obj = x /\ Copy(x) # None
  /\ Copy(None) = None
BY ClaimsAssumption DEF Copy, Copies, CopiesOf

LEMMA AgeFacts ==
  ASSUME NEW copies \in [Object -> Copies], NEW o \in Object, NEW lag \in {"changed", "gone"}
  PROVE  Age(copies, o, lag) \in [Object -> Copies]
BY ClaimsAssumption DEF Age, AgeOne, Copies, CopiesOf

LEMMA AgeOneFacts ==
  ASSUME NEW copy \in Copies, NEW lag \in {"changed", "gone"}
  PROVE  /\ AgeOne(copy, lag) \in Copies
         /\ AgeOne(copy, lag) # None => copy # None /\ AgeOne(copy, lag).lag # "same"
         /\ AgeOne(copy, lag) = None => copy = None
<1>1. CASE copy = None
  BY <1>1, ClaimsAssumption DEF AgeOne, Copies, CopiesOf
<1>2. CASE copy # None /\ copy.lag = "gone"
  BY <1>2, ClaimsAssumption DEF AgeOne, Copies, CopiesOf
<1>3. CASE copy # None /\ copy.lag # "gone"
  BY <1>3, ClaimsAssumption DEF AgeOne, Copies, CopiesOf
<1> QED
  BY <1>1, <1>2, <1>3

(* What Write does to every sync it is given. *)
Aged(me, o, lag) ==
  [me EXCEPT !.seen = Age(@, o, lag), !.got = IF me.at = o THEN AgeOne(@, lag) ELSE @]

LEMMA AgedFacts ==
  ASSUME NEW me \in Syncs, NEW o \in Object, NEW lag \in {"changed", "gone"}
  PROVE  /\ Aged(me, o, lag) \in Syncs
         /\ Aged(me, o, lag).pc = me.pc
         /\ Aged(me, o, lag).uid = me.uid
         /\ Aged(me, o, lag).at = me.at
         /\ Aged(me, o, lag).got = IF me.at = o THEN AgeOne(me.got, lag) ELSE me.got
<1>1. /\ Age(me.seen, o, lag) \in [Object -> Copies]
      /\ me.got \in Copies
  BY AgeFacts DEF Syncs
<1>2. AgeOne(me.got, lag) \in Copies
  BY <1>1, AgeOneFacts
<1> QED
  BY <1>1, <1>2 DEF Aged, Syncs

LEMMA WriteFacts ==
  ASSUME TypeOK, NEW o \in Object, NEW object \in Objects \union {None},
         NEW syncs \in [Parent -> Syncs], Write(o, object, syncs)
  PROVE  /\ objects' = [objects EXCEPT ![o] = object]
         /\ objects' \in [Object -> Objects \union {None}]
         /\ cObjects' \in [Object -> Copies]
         /\ sync' \in [Parent -> Syncs]
         /\ \E lag \in {"changed", "gone"} :
              \A p \in Parent : sync'[p] = Aged(syncs[p], o, lag)
<1> DEFINE lag == IF object = None THEN "gone" ELSE "changed"
<1>1. lag \in {"changed", "gone"}
  OBVIOUS
<1>2. sync' = [p \in Parent |-> Aged(syncs[p], o, lag)]
  BY DEF Write, Aged
<1>3. cObjects' = Age(cObjects, o, lag) /\ cObjects \in [Object -> Copies]
  BY DEF Write, TypeOK
<1> HIDE DEF lag
<1>4. cObjects' \in [Object -> Copies]
  BY <1>1, <1>3, AgeFacts
<1>5. \A p \in Parent : Aged(syncs[p], o, lag) \in Syncs
  BY <1>1, AgedFacts
<1>6. objects' = [objects EXCEPT ![o] = object]
  BY DEF Write
<1> QED
  BY <1>1, <1>2, <1>4, <1>5, <1>6 DEF TypeOK

(* A write keeps GotIsCurrent if the syncs it starts from satisfy it. *)
LEMMA WriteCurrent ==
  ASSUME TypeOK, NEW o \in Object, NEW object \in Objects \union {None},
         NEW syncs \in [Parent -> Syncs], Write(o, object, syncs), \A p \in Parent : Current(syncs[p])
  PROVE  GotIsCurrent'
<1>1. PICK lag \in {"changed", "gone"} :
        \A p \in Parent : sync'[p] = Aged(syncs[p], o, lag)
  BY WriteFacts
<1>2. objects' = [objects EXCEPT ![o] = object] /\ objects \in [Object -> Objects \union {None}]
  BY WriteFacts DEF TypeOK
<1>3. SUFFICES ASSUME NEW p \in Parent PROVE Current(sync[p])'
  BY DEF GotIsCurrent
<1>4. /\ sync'[p].pc = syncs[p].pc /\ sync'[p].uid = syncs[p].uid
      /\ sync'[p].at = syncs[p].at
      /\ sync'[p].got = IF syncs[p].at = o THEN AgeOne(syncs[p].got, lag) ELSE syncs[p].got
  BY <1>1, AgedFacts
<1>5. syncs[p].got \in Copies /\ syncs[p].at \in Object \union {None}
  BY DEF Syncs
<1>6. CASE syncs[p].at = o
  <2>1. sync'[p].got # None => syncs[p].got # None /\ sync'[p].got.lag # "same"
    BY <1>4, <1>5, <1>6, AgeOneFacts
  <2> QED
    BY <1>4, <1>6, <2>1 DEF Current, Uid
<1>7. CASE syncs[p].at # o
  BY <1>2, <1>4, <1>5, <1>7 DEF Current, Uid
<1> QED
  BY <1>6, <1>7

(* A step of one sync that writes no object. *)
LEMMA LocalStep ==
  ASSUME Inv, NEW p \in Parent, NEW me \in Syncs, Current(me),
         sync' = [sync EXCEPT ![p] = me], UNCHANGED objects
  PROVE  sync' \in [Parent -> Syncs] /\ GotIsCurrent'
<1>1. sync \in [Parent -> Syncs]
  BY DEF Inv, TypeOK
<1>2. \A q \in Parent : Current(sync'[q])
  BY <1>1 DEF Inv, GotIsCurrent
<1> QED
  BY <1>1, <1>2 DEF GotIsCurrent, Current, Uid

LEMMA IdleFacts == Idle \in Syncs /\ Current(Idle)
BY DEF Idle, Syncs, Copies, Current

(* A sync that has just begun. *)
Starting(uid, deleting, seen, todo, claimed, doomed, fresh) ==
  [pc |-> "claiming", uid |-> uid, deleting |-> deleting, seen |-> seen,
   todo |-> todo, claimed |-> claimed, adopt |-> "unknown", at |-> None,
   got |-> None, failed |-> FALSE, doomed |-> doomed, fresh |-> fresh]

LEMMA FirstSync ==
  ASSUME NEW uid \in Uid, NEW deleting \in BOOLEAN, NEW seen \in [Object -> Copies],
         NEW todo \in SUBSET Object, NEW claimed \in SUBSET Object,
         NEW doomed \in BOOLEAN, NEW fresh \in BOOLEAN
  PROVE  /\ Starting(uid, deleting, seen, todo, claimed, doomed, fresh) \in Syncs
         /\ Current(Starting(uid, deleting, seen, todo, claimed, doomed, fresh))
BY DEF Starting, Syncs, Copies, Current

(* A reference that is added or removed leaves a controller or an orphan,   *)
(* and goes from the one to the other only through an orphan.               *)
LEMMA NewOwnerFacts ==
  ASSUME Inv, NEW p \in Parent, NEW o \in Object, sync[p].at = o,
         sync[p].got # None, sync[p].got.lag = "same", NewOwner(p, o) # None
  PROVE  /\ objects[o] \in Objects
         /\ NewOwner(p, o) \in Uid \union {Orphan}
         /\ NewOwner(p, o) = objects[o].owner \/ NewOwner(p, o) = Orphan
              \/ objects[o].owner = Orphan
<1>1. /\ sync[p] \in Syncs /\ Current(sync[p])
  BY DEF Inv, TypeOK, GotIsCurrent
<1>2. sync[p].got \in CopiesOf(Objects) /\ sync[p].got.obj = objects[o]
  BY <1>1 DEF Syncs, Copies, Current
<1>3. objects[o] \in Objects /\ sync[p].uid \in Uid
  BY <1>1, <1>2, ClaimsAssumption DEF CopiesOf, Current
<1> QED
  BY <1>2, <1>3 DEF NewOwner, Added, Removed, Objects

LEMMA SettledFacts ==
  ASSUME NEW me \in Syncs, me.pc # "idle", me.uid \in Uid, NEW o \in Object
  PROVE  /\ Settled(me, o) \in Syncs
         /\ Current(Settled(me, o))
         /\ [Settled(me, o) EXCEPT !.failed = TRUE] \in Syncs
         /\ Current([Settled(me, o) EXCEPT !.failed = TRUE])
BY DEF Settled, Syncs, Copies, Current

-----------------------------------------------------------------------------
(* Every step keeps the invariant. *)

LEMMA InitInv == Init => Inv
<1> SUFFICES ASSUME Init PROVE Inv
  OBVIOUS
<1>1. sync = [p \in Parent |-> Idle] /\ sync \in [Parent -> Syncs]
  BY IdleFacts DEF Init
<1>2. GotIsCurrent
  BY <1>1, IdleFacts DEF GotIsCurrent
<1>3. 1 \in 1..(MaxUid + 1) /\ 0 \in 0..MaxEdits
  BY ClaimsAssumption
<1> QED
  BY <1>1, <1>2, <1>3 DEF Init, Inv, TypeOK, Copies

LEMMA WorkerInv ==
  ASSUME Inv, NEW p \in Parent, Worker(p)
  PROVE  Inv'
<1>0. /\ sync \in [Parent -> Syncs] /\ sync[p] \in Syncs /\ Current(sync[p])
      /\ objects \in [Object -> Objects \union {None}]
  BY DEF Inv, TypeOK, GotIsCurrent
<1>1. CASE BeginSync(p)
  <2>1. CASE cParents[p] = None
    BY <1>1, <2>1 DEF BeginSync, Inv, TypeOK, store, GotIsCurrent, Current
  <2>2. CASE cParents[p] # None
    <3> DEFINE new == Begun(p, cParents[p])
    <3>1. cParents[p] \in ParentObjects /\ cObjects \in [Object -> Copies]
      BY <2>2 DEF Inv, TypeOK
    <3>2. new \in Syncs /\ Current(new)
      <4> DEFINE me == cParents[p]
                 todo == {o \in Object : \/ Releases(me, p, cObjects[o])
                                         \/ Adopts(me, p, cObjects[o])}
                 claimed == {o \in Object : Keeps(me, p, cObjects[o])}
                 doomed == ~(Alive(p) /\ parents[p].uid = me.uid)
                 fresh == \A o \in Child : cObjects[o] = Copy(objects[o])
      <4>1. me.uid \in Uid /\ me.deleting \in BOOLEAN
        BY <3>1 DEF ParentObjects
      <4>2. /\ todo \in SUBSET Object /\ claimed \in SUBSET Object
            /\ doomed \in BOOLEAN /\ fresh \in BOOLEAN
        OBVIOUS
      <4>3. new = Starting(me.uid, me.deleting, cObjects, todo, claimed, doomed, fresh)
        BY DEF Begun, Starting
      <4> HIDE DEF new, me, todo, claimed, doomed, fresh
      <4>4. new \in Syncs
        BY <3>1, <4>1, <4>2, <4>3, FirstSync
      <4>5. Current(new)
        BY <3>1, <4>1, <4>2, <4>3, FirstSync
      <4> QED
        BY <4>4, <4>5
    <3>3. sync' = [sync EXCEPT ![p] = new]
      BY <1>1, <2>2 DEF BeginSync
    <3> HIDE DEF new
    <3> QED
      BY <1>1, <3>2, <3>3, LocalStep DEF BeginSync, Inv, TypeOK, store
  <2> QED
    BY <2>1, <2>2
<1>2. CASE CheckAdopt(p)
  <2> DEFINE new == [sync[p] EXCEPT !.adopt = IF CanAdopt(p) THEN "yes" ELSE "no"]
  <2>1. new \in Syncs /\ Current(new)
    BY <1>0 DEF Syncs, Current
  <2>2. sync' = [sync EXCEPT ![p] = new]
    BY <1>0, <1>2 DEF CheckAdopt
  <2> HIDE DEF new
  <2> QED
    BY <1>2, <2>1, <2>2, LocalStep DEF CheckAdopt, Inv, TypeOK, store
<1>3. CASE EndClaims(p)
  <2>1. CASE sync[p].failed
    BY <1>3, <2>1, IdleFacts, LocalStep DEF EndClaims, Inv, TypeOK, store
  <2>2. CASE ~sync[p].failed
    <3> DEFINE new == [sync[p] EXCEPT !.pc = "acting"]
    <3>1. new \in Syncs /\ Current(new)
      BY <1>0, <1>3 DEF Syncs, Current, EndClaims
    <3>2. sync' = [sync EXCEPT ![p] = new]
      BY <1>0, <1>3, <2>2 DEF EndClaims
    <3> HIDE DEF new
    <3> QED
      BY <1>3, <2>2, <3>1, <3>2, LocalStep DEF EndClaims, Inv, TypeOK, store
  <2> QED
    BY <2>1, <2>2
<1>4. CASE EndSync(p)
  BY <1>4, IdleFacts, LocalStep DEF EndSync, Inv, TypeOK, store
<1>5. ASSUME NEW o \in Object, RefuseAdopt(p, o) PROVE Inv'
  <2> DEFINE new == [Settled(sync[p], o) EXCEPT !.failed = TRUE]
  <2>1. new \in Syncs /\ Current(new)
    BY <1>0, <1>5, SettledFacts DEF RefuseAdopt, Current
  <2>2. sync' = [sync EXCEPT ![p] = new]
    BY <1>5 DEF RefuseAdopt
  <2> HIDE DEF new
  <2> QED
    BY <1>5, <2>1, <2>2, LocalStep DEF RefuseAdopt, Inv, TypeOK, store
<1>6. ASSUME NEW o \in Object, Get(p, o) PROVE Inv'
  <2>0. sync[p].pc # "idle" /\ sync[p].uid \in Uid
    BY <1>0, <1>6 DEF Get, Current
  <2>1. CASE IsSame(p, o)
    <3> DEFINE new == [sync[p] EXCEPT !.at = o, !.got = Copy(objects[o])]
    <3>1. objects[o] \in Objects /\ Copy(objects[o]) \in Copies
          /\ Copy(objects[o]).obj = objects[o]
      BY <1>0, <2>1, CopyFacts DEF IsSame
    <3>2. new \in Syncs /\ Current(new)
      BY <1>0, <2>0, <3>1, ClaimsAssumption DEF Syncs, Current
    <3>3. sync' = [sync EXCEPT ![p] = new]
      BY <1>0, <1>6, <2>1 DEF Get
    <3> HIDE DEF new
    <3> QED
      BY <1>6, <3>2, <3>3, LocalStep DEF Get, Inv, TypeOK, store
  <2>2. CASE ~IsSame(p, o)
    <3>1. Settled(sync[p], o) \in Syncs /\ Current(Settled(sync[p], o))
      BY <1>0, <2>0, SettledFacts
    <3>2. sync' = [sync EXCEPT ![p] = Settled(sync[p], o)]
      BY <1>6, <2>2 DEF Get
    <3> QED
      BY <1>6, <3>1, <3>2, LocalStep DEF Get, Inv, TypeOK, store
  <2> QED
    BY <2>1, <2>2
<1>7. ASSUME NEW o \in Object, Put(p, o) PROVE Inv'
  <2>0. /\ sync[p].pc # "idle" /\ sync[p].uid \in Uid
        /\ sync[p].at = o /\ sync[p].got # None /\ sync[p].got \in CopiesOf(Objects)
    BY <1>0, <1>7, ClaimsAssumption DEF Put, Current, Syncs, Copies
  <2>1. Conclude(p, o) \in Syncs /\ Current(Conclude(p, o))
    <3>1. Settled(sync[p], o) \in Syncs /\ Current(Settled(sync[p], o))
      BY <1>0, <2>0, SettledFacts
    <3> QED
      BY <3>1 DEF Conclude, Syncs, Current
  <2>2. CASE sync' = [sync EXCEPT ![p] = Conclude(p, o)] /\ UNCHANGED <<objects, cObjects>>
    BY <1>7, <2>1, <2>2, LocalStep DEF Put, Inv, TypeOK
  <2>3. CASE /\ sync[p].got.lag = "same" /\ NewOwner(p, o) # None
             /\ Write(o, [objects[o] EXCEPT !.owner = NewOwner(p, o)],
                      [sync EXCEPT ![p] = Conclude(p, o)])
    <3> DEFINE syncs == [sync EXCEPT ![p] = Conclude(p, o)]
               object == [objects[o] EXCEPT !.owner = NewOwner(p, o)]
    <3>1. syncs \in [Parent -> Syncs] /\ \A q \in Parent : Current(syncs[q])
      BY <1>0, <2>1 DEF Inv, GotIsCurrent
    <3>2. object \in Objects
      BY <1>0, <2>0, <2>3, NewOwnerFacts DEF Inv, Objects
    <3>3. Write(o, object, syncs)
      BY <2>3
    <3> HIDE DEF syncs, object
    <3> QED
      BY <1>7, <3>1, <3>2, <3>3, WriteFacts, WriteCurrent DEF Put, Inv, TypeOK
  <2> QED
    BY <1>7, <2>0, <2>2, <2>3 DEF Put
<1>8. ASSUME NEW o \in Object, PutRefused(p, o) PROVE Inv'
  <2>0. sync[p].pc # "idle" /\ sync[p].uid \in Uid
    BY <1>0, <1>8, ClaimsAssumption DEF PutRefused, Current
  <2>1. CASE sync' = [sync EXCEPT ![p].got = None]
    <3> DEFINE new == [sync[p] EXCEPT !.got = None]
    <3>1. new \in Syncs /\ Current(new)
      BY <1>0 DEF Syncs, Current, Copies
    <3>2. sync' = [sync EXCEPT ![p] = new]
      BY <1>0, <2>1
    <3> HIDE DEF new
    <3> QED
      BY <1>8, <3>1, <3>2, LocalStep DEF PutRefused, Inv, TypeOK, store
  <2>2. CASE sync' = [sync EXCEPT ![p] = [Settled(@, o) EXCEPT !.failed = TRUE]]
    <3> DEFINE new == [Settled(sync[p], o) EXCEPT !.failed = TRUE]
    <3>1. new \in Syncs /\ Current(new)
      BY <1>0, <2>0, SettledFacts
    <3>2. sync' = [sync EXCEPT ![p] = new]
      BY <2>2
    <3> HIDE DEF new
    <3> QED
      BY <1>8, <3>1, <3>2, LocalStep DEF PutRefused, Inv, TypeOK, store
  <2> QED
    BY <1>8, <2>1, <2>2 DEF PutRefused
<1> QED
  BY <1>1, <1>2, <1>3, <1>4, <1>5, <1>6, <1>7, <1>8 DEF Worker

LEMMA ObjectWriteInv ==
  ASSUME Inv, NEW o \in Object, NEW object \in Objects \union {None},
         Write(o, object, sync), UNCHANGED <<parents, cParents, queued, nextUid>>,
         edits' \in 0..MaxEdits
  PROVE  Inv'
BY WriteFacts, WriteCurrent DEF Inv, TypeOK, GotIsCurrent

LEMMA OthersInv ==
  ASSUME Inv, Informers \/ Environment
  PROVE  Inv'
<1>0. /\ objects \in [Object -> Objects \union {None}] /\ edits \in 0..MaxEdits
      /\ cObjects \in [Object -> Copies] /\ MaxEdits \in Nat /\ MaxUid \in Nat
  BY ClaimsAssumption DEF Inv, TypeOK
<1>a. Edit => edits' \in 0..MaxEdits
  BY <1>0 DEF Edit
<1>1. ASSUME NEW o \in Object, ObjectEvent(o) PROVE Inv'
  <2>1. Copy(objects[o]) \in Copies /\ None \in Copies
    BY <1>0, CopyFacts DEF Copies
  <2>2. cObjects' \in [Object -> Copies]
    BY <1>0, <1>1, <2>1 DEF ObjectEvent
  <2>3. queued' \in SUBSET Parent
    <3>1. \A x : OnChildAdd(x) \in SUBSET Parent /\ OnChildDelete(x) \in SUBSET Parent
      BY DEF OnChildAdd, OnChildDelete, Resolve, Potential
    <3> QED
      BY <1>1, <3>1 DEF ObjectEvent, Inv, TypeOK
  <2> QED
    BY <1>1, <2>2, <2>3 DEF ObjectEvent, Inv, TypeOK, store, GotIsCurrent, Current
<1>2. ASSUME NEW p \in Parent, ParentEvent(p) \/ ParentResync(p) PROVE Inv'
  BY <1>2 DEF ParentEvent, ParentResync, Inv, TypeOK, store, GotIsCurrent, Current
<1>3. ASSUME NEW p \in Parent, CreateParent(p) \/ DeleteParent(p) \/ RemoveParent(p)
      PROVE  Inv'
  <2>1. parents' \in [Parent -> ParentObjects \union {None}]
    <3>0. parents \in [Parent -> ParentObjects \union {None}] /\ nextUid \in Nat
      BY <1>0 DEF Inv, TypeOK
    <3>1. CASE CreateParent(p)
      BY <3>0, <3>1 DEF CreateParent, ParentObjects
    <3>2. CASE DeleteParent(p)
      <4>1. parents[p] \in ParentObjects
        BY <3>0, <3>2 DEF DeleteParent, Alive
      <4> QED
        BY <3>0, <3>2, <4>1 DEF DeleteParent, ParentObjects
    <3>3. CASE RemoveParent(p)
      BY <3>0, <3>3 DEF RemoveParent
    <3> QED
      BY <1>3, <3>1, <3>2, <3>3
  <2>2. nextUid' \in 1..(MaxUid + 1) /\ edits' \in 0..MaxEdits
    BY <1>0, <1>3, <1>a DEF CreateParent, DeleteParent, RemoveParent, Inv, TypeOK, Uid
  <2> QED
    BY <1>3, <2>1, <2>2 DEF CreateParent, DeleteParent, RemoveParent, Inv, TypeOK,
       GotIsCurrent, Current
<1>4. ASSUME NEW o \in Object, NEW label \in Label, NEW owner \in Uid \union {Orphan},
             CreateObject(o, label, owner)
      PROVE  Inv'
  BY <1>4, <1>a, ObjectWriteInv DEF CreateObject, Objects
<1>5. ASSUME NEW o \in Object, NEW label \in Label, Relabel(o, label) PROVE Inv'
  BY <1>0, <1>5, <1>a, ObjectWriteInv DEF Relabel, Objects
<1>6. ASSUME NEW o \in Object, DeleteObject(o) PROVE Inv'
  BY <1>0, <1>6, <1>a, ObjectWriteInv DEF DeleteObject, Objects
<1>7. ASSUME NEW o \in Object, RemoveObject(o) \/ CollectObject(o) PROVE Inv'
  BY <1>0, <1>7, ObjectWriteInv DEF RemoveObject, CollectObject
<1>8. ASSUME NEW o \in Object, OrphanObject(o) PROVE Inv'
  BY <1>0, <1>8, ObjectWriteInv DEF OrphanObject, Objects
<1> QED
  BY <1>1, <1>2, <1>3, <1>4, <1>5, <1>6, <1>7, <1>8 DEF Informers, Environment

LEMMA NextInv == Inv /\ [Next]_vars => Inv'
<1> SUFFICES ASSUME Inv, [Next]_vars PROVE Inv'
  OBVIOUS
<1>1. CASE UNCHANGED vars
  BY <1>1 DEF vars, store, Inv, TypeOK, GotIsCurrent, Current
<1>2. CASE Next
  BY <1>2, WorkerInv, OthersInv DEF Next
<1> QED
  BY <1>1, <1>2

-----------------------------------------------------------------------------
(* Ownership.                                                               *)

owners == [o \in Child |-> IF objects[o] = None THEN None ELSE objects[o].owner]

LEMMA OwnersStep ==
  ASSUME Inv, NEW o \in Object, NEW object \in Objects \union {None},
         objects' = [objects EXCEPT ![o] = object],
         \/ objects[o] = None \/ object = None
         \/ object.owner = objects[o].owner
         \/ object.owner = Orphan \/ objects[o].owner = Orphan
  PROVE  [Claims!Next]_owners
<1>0. /\ objects \in [Object -> Objects \union {None}]
      /\ \A c \in Child : c \in Object
      /\ \A x \in Objects : x # None /\ x.owner \in Uid \union {Orphan} /\ x.owner # None
  BY ClaimsAssumption DEF Inv, TypeOK, Object, Objects
<1>1. CASE o \notin Child
  <2>1. owners' = owners
    BY <1>0, <1>1 DEF owners
  <2> QED
    BY <2>1
<1>2. CASE o \in Child
  <2> DEFINE old == IF objects[o] = None THEN None ELSE objects[o].owner
             new == IF object = None THEN None ELSE object.owner
  <2>1. owners' = [owners EXCEPT ![o] = new] /\ owners[o] = old
    BY <1>0, <1>2 DEF owners
  <2>2. /\ old \in Uid \union {Orphan, None} /\ new \in Uid \union {Orphan, None}
        /\ old = new \/ old = None \/ new = None \/ old = Orphan \/ new = Orphan
    BY <1>0
  <2>3. Claims!Becomes(o, new)
    BY <2>1 DEF Claims!Becomes, owners
  <2>4. CASE old = new
    BY <2>1, <2>4 DEF owners
  <2>5. CASE old # new /\ old = None
    BY <1>2, <2>1, <2>2, <2>3, <2>5 DEF Claims!Next, Claims!Appear, owners
  <2>6. CASE old # new /\ new = None
    BY <1>2, <2>1, <2>2, <2>3, <2>6 DEF Claims!Next, Claims!Vanish, owners
  <2>7. CASE old = Orphan /\ new \in Uid
    BY <1>2, <2>1, <2>2, <2>3, <2>7 DEF Claims!Next, Claims!Adopt, owners
  <2>8. CASE new = Orphan /\ old \in Uid
    BY <1>2, <2>1, <2>2, <2>3, <2>8 DEF Claims!Next, Claims!Release, owners
  <2> QED
    BY <2>2, <2>4, <2>5, <2>6, <2>7, <2>8
<1> QED
  BY <1>1, <1>2

LEMMA OwnersInit == Init => Claims!Init
BY DEF Init, Claims!Init, Object

LEMMA OwnersNext ==
  ASSUME Inv, [Next]_vars
  PROVE  [Claims!Next]_owners
<1>0. objects \in [Object -> Objects \union {None}] /\ \A x \in Objects : x # None
  BY ClaimsAssumption DEF Inv, TypeOK
<1>a. objects' = objects => [Claims!Next]_owners
  BY DEF owners
<1>1. CASE UNCHANGED vars
  <2>1. UNCHANGED objects
    BY <1>1, Zenon DEF vars, store
  <2> QED
    BY <1>a, <2>1
<1>2. ASSUME NEW p \in Parent, NEW o \in Object, Put(p, o)
      PROVE  [Claims!Next]_owners
  <2>1. CASE UNCHANGED objects
    BY <1>a, <2>1
  <2>2. CASE /\ sync[p].got.lag = "same" /\ NewOwner(p, o) # None
             /\ objects' = [objects EXCEPT ![o] = [objects[o] EXCEPT !.owner = NewOwner(p, o)]]
    <3> DEFINE object == [objects[o] EXCEPT !.owner = NewOwner(p, o)]
    <3>1. /\ objects[o] \in Objects /\ NewOwner(p, o) \in Uid \union {Orphan}
          /\ \/ NewOwner(p, o) = objects[o].owner \/ NewOwner(p, o) = Orphan
             \/ objects[o].owner = Orphan
      BY <1>2, <2>2, NewOwnerFacts DEF Put
    <3>2. object \in Objects /\ object.owner = NewOwner(p, o)
      BY <3>1 DEF Objects
    <3> HIDE DEF object
    <3>3. objects' = [objects EXCEPT ![o] = object]
      BY <2>2 DEF object
    <3> QED
      BY <3>1, <3>2, <3>3, OwnersStep
  <2> QED
    BY <1>2, <2>1, <2>2 DEF Put, Write
<1>3. ASSUME NEW p \in Parent, Worker(p) PROVE [Claims!Next]_owners
  BY <1>2, <1>3, <1>a DEF Worker, BeginSync, CheckAdopt, EndClaims, EndSync, RefuseAdopt,
     Get, PutRefused, store
<1>4. CASE Informers
  BY <1>4, <1>a DEF Informers, ObjectEvent, ParentEvent, ParentResync, store
<1>5. ASSUME NEW p \in Parent, CreateParent(p) \/ DeleteParent(p) \/ RemoveParent(p)
      PROVE  [Claims!Next]_owners
  BY <1>5, <1>a DEF CreateParent, DeleteParent, RemoveParent
<1>6. ASSUME NEW o \in Object, NEW label \in Label, NEW owner \in Uid \union {Orphan},
             CreateObject(o, label, owner)
      PROVE  [Claims!Next]_owners
  BY <1>6, OwnersStep DEF CreateObject, Write, Objects
<1>7. ASSUME NEW o \in Object, NEW label \in Label, Relabel(o, label)
      PROVE  [Claims!Next]_owners
  BY <1>0, <1>7, OwnersStep DEF Relabel, Write, Objects
<1>8. ASSUME NEW o \in Object, DeleteObject(o) PROVE [Claims!Next]_owners
  BY <1>0, <1>8, OwnersStep DEF DeleteObject, Write, Objects
<1>9. ASSUME NEW o \in Object, RemoveObject(o) \/ CollectObject(o) PROVE [Claims!Next]_owners
  BY <1>0, <1>9, OwnersStep DEF RemoveObject, CollectObject, Write
<1>10. ASSUME NEW o \in Object, OrphanObject(o) PROVE [Claims!Next]_owners
  BY <1>0, <1>10, OwnersStep DEF OrphanObject, Write, Objects
<1> QED
  BY <1>1, <1>3, <1>4, <1>5, <1>6, <1>7, <1>8, <1>9, <1>10 DEF Next, Environment

(* Every reachable state is well typed. *)
THEOREM TypeCorrect == Spec => []TypeOK
<1>1. Inv => TypeOK
  BY DEF Inv
<1> QED
  BY <1>1, InitInv, NextInv, PTL DEF Spec

(* The claim managers keep what controller references promise: whatever the *)
(* number of parents, children and users' edits, a child passes from one    *)
(* controller to another only through an orphan, although a PUT may be      *)
(* decided on a stale list and race with every other writer.                *)
THEOREM ImplementsOwnership == Spec => OwnershipHolds
<1>1. Inv /\ [Next]_vars => [Claims!Next]_owners
  BY OwnersNext
<1> QED
  BY <1>1, InitInv, NextInv, OwnersInit, PTL DEF Spec, OwnershipHolds, Claims!Spec, owners

-----------------------------------------------------------------------------
(* What a sync may touch.  The three properties of the claim managers share *)
(* one invariant: names never share a UID, a sync does what it listed and   *)
(* was allowed, and what it claimed is its parent's while that lives.       *)

UidsOf(p) ==
  {u \in Uid : \/ parents[p] # None /\ parents[p].uid = u
               \/ cParents[p] # None /\ cParents[p].uid = u
               \/ sync[p].uid = u}

UidsApart ==
  /\ \A p \in Parent, u \in Uid : u \in UidsOf(p) => u < nextUid
  /\ \A p, q \in Parent, u \in Uid : u \in UidsOf(p) /\ u \in UidsOf(q) => p = q

(* Of one sync: it works on objects it listed, either claims or still has   *)
(* to settle them, reads an object only while it is the one it listed, and  *)
(* is about to adopt only if a live read of its parent allowed that.        *)
Heeds(me, p) ==
  /\ \A o \in me.todo \union me.claimed : me.seen[o] # None
  /\ me.todo \intersect me.claimed = {}
  /\ me.at # None => me.at \in me.todo
  /\ me.got # None /\ me.got.lag = "same" => me.seen[me.at].lag # "gone"
  /\ me.got # None /\ Adopts(me, p, me.seen[me.at]) => me.adopt = "yes"
  /\ me.adopt = "yes" => ~me.doomed

SyncsHeed == \A p \in Parent : Heeds(sync[p], p)

(* The parent a sync knows is alive. *)
Lives(me, p) == Alive(p) /\ parents[p].uid = me.uid

DoomedForGood == \A p \in Parent : sync[p].doomed => ~Lives(sync[p], p)

(* What a sync claimed from a current list is controlled by its parent,     *)
(* unless one of the two is gone.                                           *)
Holds(me, p, o) ==
  me.fresh /\ Lives(me, p) /\ me.seen[o].lag # "gone"
    => objects[o] # None /\ objects[o].owner = me.uid

ClaimsHold == \A p \in Parent : \A o \in sync[p].claimed \intersect Child : Holds(sync[p], p, o)

SafeInv == Inv /\ UidsApart /\ SyncsHeed /\ DoomedForGood /\ ClaimsHold

LEMMA SameSafe ==
  ASSUME SafeInv, Inv', UNCHANGED <<store, cParents, sync, nextUid>>
  PROVE  SafeInv'
BY DEF SafeInv, UidsApart, UidsOf, SyncsHeed, Heeds, Adopts, Matches, DoomedForGood, Lives,
   Alive, ClaimsHold, Holds, store

LEMMA AgedKeeps ==
  ASSUME NEW me \in Syncs, NEW o \in Object, NEW lag \in {"changed", "gone"}, NEW x \in Object
  PROVE  LET new == Aged(me, o, lag)
         IN /\ new.todo = me.todo /\ new.claimed = me.claimed
            /\ new.deleting = me.deleting /\ new.adopt = me.adopt
            /\ new.doomed = me.doomed /\ new.fresh = me.fresh
            /\ new.seen[x] = IF x = o THEN AgeOne(me.seen[x], lag) ELSE me.seen[x]
            /\ me.seen[x] \in Copies
<1>1. me.seen \in [Object -> Copies]
  BY DEF Syncs
<1>2. Age(me.seen, o, lag)[x] = IF x = o THEN AgeOne(me.seen[x], lag) ELSE me.seen[x]
  BY <1>1 DEF Age
<1> QED
  BY <1>1, <1>2 DEF Aged, Syncs

LEMMA AgeOneKeeps ==
  ASSUME NEW copy \in Copies, NEW lag \in {"changed", "gone"}
  PROVE  /\ AgeOne(copy, lag) = None <=> copy = None
         /\ copy # None => /\ AgeOne(copy, lag).obj = copy.obj
                           /\ copy.lag = "gone" \/ lag = "gone" => AgeOne(copy, lag).lag = "gone"
<1>1. CASE copy = None \/ copy.lag = "gone"
  BY <1>1 DEF AgeOne
<1>2. CASE copy # None /\ copy.lag # "gone"
  <2>1. copy \in CopiesOf(Objects)
    BY <1>2 DEF Copies
  <2>2. AgeOne(copy, lag) = [obj |-> copy.obj, lag |-> lag] /\ AgeOne(copy, lag) \in CopiesOf(Objects)
    BY <1>2, <2>1 DEF AgeOne, CopiesOf
  <2> QED
    BY <1>2, <2>1, <2>2, ClaimsAssumption
<1> QED
  BY <1>1, <1>2

(* Other writers change nothing a sync heeds. *)
LEMMA AgedHeeds ==
  ASSUME NEW p \in Parent, NEW me \in Syncs, Heeds(me, p), me.got # None => me.at # None,
         NEW o \in Object, NEW lag \in {"changed", "gone"}
  PROVE  Heeds(Aged(me, o, lag), p)
<1> DEFINE new == Aged(me, o, lag)
<1>1. /\ new.todo = me.todo /\ new.claimed = me.claimed /\ new.deleting = me.deleting
      /\ new.adopt = me.adopt /\ new.doomed = me.doomed
      /\ new.at = me.at /\ new.got = IF me.at = o THEN AgeOne(me.got, lag) ELSE me.got
  BY AgedKeeps, AgedFacts
<1>2. ASSUME NEW x \in Object
      PROVE  /\ new.seen[x] = None <=> me.seen[x] = None
             /\ x # o => new.seen[x] = me.seen[x]
             /\ me.seen[x] # None => new.seen[x].obj = me.seen[x].obj
  BY AgedKeeps, AgeOneKeeps
<1>3. /\ me.todo \subseteq Object /\ me.claimed \subseteq Object
      /\ me.got \in Copies /\ me.at \in Object \union {None}
  BY DEF Syncs
<1>4. me.at = o => (new.got = None <=> me.got = None) /\ (new.got # None => new.got.lag # "same")
  BY <1>1, <1>3, AgeOneFacts, AgeOneKeeps
<1> HIDE DEF new
<1>5. \A x \in new.todo \union new.claimed : new.seen[x] # None
  BY <1>1, <1>2, <1>3 DEF Heeds
<1>6. new.got # None /\ new.got.lag = "same" => new.seen[new.at].lag # "gone"
  <2>1. CASE me.at = o
    BY <1>1, <1>4, <2>1
  <2>2. CASE me.at # o /\ me.at = None
    BY <1>1, <2>2
  <2>3. CASE me.at # o /\ me.at # None
    BY <1>1, <1>2, <1>3, <2>3 DEF Heeds
  <2> QED
    BY <2>1, <2>2, <2>3
<1>7. new.got # None /\ Adopts(new, p, new.seen[new.at]) => new.adopt = "yes"
  <2> SUFFICES ASSUME new.got # None, Adopts(new, p, new.seen[new.at]) PROVE new.adopt = "yes"
    OBVIOUS
  <2>1. me.at \in Object /\ new.at = me.at /\ me.got # None
    BY <1>1, <1>3, <1>4
  <2>2. Adopts(me, p, me.seen[me.at])
    BY <1>1, <1>2, <2>1 DEF Adopts, Matches
  <2> QED
    BY <1>1, <2>1, <2>2 DEF Heeds
<1> QED
  BY <1>1, <1>5, <1>6, <1>7 DEF Heeds, new

(* Nothing but the API server gives a name a new UID. *)
LEMMA UidsStayApart ==
  ASSUME UidsApart, \A q \in Parent : UidsOf(q)' \subseteq UidsOf(q), nextUid' = nextUid
  PROVE  UidsApart'
<1>1. \A q \in Parent : UidsOf(q)' \subseteq Uid
  BY DEF UidsOf, Uid
<1> QED
  BY <1>1 DEF UidsApart, Uid

LEMMA WriteAges ==
  ASSUME NEW o \in Object, NEW object, NEW syncs \in [Parent -> Syncs], Write(o, object, syncs)
  PROVE  \A p \in Parent :
           sync'[p] = Aged(syncs[p], o, IF object = None THEN "gone" ELSE "changed")
BY DEF Write, Aged

(* A write is safe if the syncs it starts from are, and if it leaves a      *)
(* claimed object to the parent that claimed it.                            *)
LEMMA WriteSafe ==
  ASSUME SafeInv, Inv', UNCHANGED <<parents, cParents, nextUid>>,
         NEW o \in Object, NEW object \in Objects \union {None},
         NEW syncs \in [Parent -> Syncs], Write(o, object, syncs),
         \A p \in Parent :
           /\ Current(syncs[p]) /\ Heeds(syncs[p], p) /\ syncs[p].uid = sync[p].uid
           /\ syncs[p].doomed = sync[p].doomed
           /\ \A x \in syncs[p].claimed \intersect Child :
                /\ x # o => Holds(syncs[p], p, x)
                /\ x = o /\ object # None /\ syncs[p].fresh /\ Lives(syncs[p], p)
                     /\ syncs[p].seen[x].lag # "gone"
                     => object.owner = syncs[p].uid
  PROVE  SafeInv'
<1> DEFINE lag == IF object = None THEN "gone" ELSE "changed"
<1>0. lag \in {"changed", "gone"} /\ (object = None => lag = "gone")
  OBVIOUS
<1>1. ASSUME NEW p \in Parent
      PROVE  sync'[p] = Aged(syncs[p], o, lag) /\ syncs[p] \in Syncs
  BY WriteAges
<1> HIDE DEF lag
<1>2. ASSUME NEW p \in Parent
      PROVE  /\ sync'[p].uid = sync[p].uid /\ sync'[p].doomed = sync[p].doomed
             /\ sync'[p].claimed = syncs[p].claimed /\ sync'[p].fresh = syncs[p].fresh
  BY <1>0, <1>1, AgedFacts, AgedKeeps
<1>3. SyncsHeed'
  <2>1. ASSUME NEW p \in Parent PROVE Heeds(sync'[p], p)
    <3>1. syncs[p].got # None => syncs[p].at # None
      BY DEF Current
    <3> QED
      BY <1>0, <1>1, <3>1, AgedHeeds
  <2> QED
    BY <2>1 DEF SyncsHeed, Heeds, Adopts, Matches
<1>4. UidsApart'
  <2>1. \A p \in Parent : UidsOf(p)' \subseteq UidsOf(p)
    BY <1>2 DEF UidsOf, Uid
  <2> QED
    BY <2>1, UidsStayApart DEF SafeInv
<1>5. DoomedForGood'
  BY <1>2 DEF SafeInv, DoomedForGood, Lives, Alive
<1>6. ASSUME NEW p \in Parent, NEW x \in sync'[p].claimed \intersect Child
      PROVE  Holds(sync[p], p, x)'
  <2>0. x \in syncs[p].claimed \intersect Child /\ x \in Object
    BY <1>2 DEF Object
  <2>1. /\ objects' = [objects EXCEPT ![o] = object]
        /\ objects \in [Object -> Objects \union {None}]
    BY DEF Write, SafeInv, Inv, TypeOK
  <2>2. SUFFICES ASSUME sync'[p].fresh, Lives(sync[p], p)', sync'[p].seen[x].lag # "gone"
                 PROVE  objects'[x] # None /\ objects'[x].owner = sync'[p].uid
    BY DEF Holds
  <2>3. syncs[p].fresh /\ Lives(syncs[p], p) /\ syncs[p].uid = sync'[p].uid
    BY <1>2, <2>2 DEF Lives, Alive
  <2>4. syncs[p].seen[x] # None
    BY <2>0 DEF Heeds
  <2>5. /\ sync'[p].seen[x] = IF x = o THEN AgeOne(syncs[p].seen[x], lag) ELSE syncs[p].seen[x]
        /\ syncs[p].seen[x] \in Copies
    BY <1>0, <1>1, <2>0, AgedKeeps
  <2>6. CASE x = o
    <3>1. syncs[p].seen[x].lag # "gone" /\ lag # "gone"
      BY <1>0, <2>2, <2>4, <2>5, <2>6, AgeOneKeeps
    <3>2. object # None /\ object.owner = syncs[p].uid
      BY <1>0, <2>0, <2>3, <2>6, <3>1
    <3> QED
      BY <2>1, <2>3, <2>6, <3>2
  <2>7. CASE x # o
    <3>1. Holds(syncs[p], p, x)
      BY <2>0, <2>7
    <3>2. objects[x] # None /\ objects[x].owner = syncs[p].uid
      BY <2>2, <2>3, <2>5, <2>7, <3>1 DEF Holds
    <3> QED
      BY <2>0, <2>1, <2>3, <2>7, <3>2
  <2> QED
    BY <2>6, <2>7
<1> QED
  BY <1>3, <1>4, <1>5, <1>6 DEF SafeInv, ClaimsHold

(* A step of one sync that writes no object is safe if its new state is.    *)
LEMMA LocalSafe ==
  ASSUME SafeInv, Inv', UNCHANGED <<store, cParents, nextUid>>,
         NEW p \in Parent, NEW me \in Syncs, sync' = [sync EXCEPT ![p] = me],
         Heeds(me, p), me.uid = sync[p].uid \/ me.uid \notin Uid
           \/ (cParents[p] # None /\ me.uid = cParents[p].uid),
         me.doomed => ~Lives(me, p),
         \A x \in me.claimed \intersect Child : Holds(me, p, x)
  PROVE  SafeInv'
<1>0. sync \in [Parent -> Syncs]
  BY DEF SafeInv, Inv, TypeOK
<1>1. sync'[p] = me /\ \A q \in Parent : q # p => sync'[q] = sync[q]
  BY <1>0
<1>2. UidsApart'
  <2>1. ASSUME NEW q \in Parent PROVE UidsOf(q)' \subseteq UidsOf(q)
    <3>1. CASE q = p
      BY <1>1, <3>1 DEF UidsOf, Uid, store
    <3>2. CASE q # p
      BY <1>1, <3>2 DEF UidsOf, Uid, store
    <3> QED
      BY <3>1, <3>2
  <2> QED
    BY <2>1, UidsStayApart DEF SafeInv
<1>3. SyncsHeed'
  <2>1. \A q \in Parent : Heeds(sync'[q], q)
    BY <1>1 DEF SafeInv, SyncsHeed
  <2> QED
    BY <2>1 DEF SyncsHeed, Heeds, Adopts, Matches
<1>4. DoomedForGood'
  <2>1. \A q \in Parent : sync'[q].doomed => ~Lives(sync'[q], q)
    BY <1>1 DEF SafeInv, DoomedForGood
  <2> QED
    BY <2>1 DEF DoomedForGood, Lives, Alive, store
<1>5. ClaimsHold'
  <2>1. \A q \in Parent : \A x \in sync'[q].claimed \intersect Child : Holds(sync'[q], q, x)
    BY <1>1 DEF SafeInv, ClaimsHold
  <2> QED
    BY <2>1 DEF ClaimsHold, Holds, Lives, Alive, store
<1> QED
  BY <1>2, <1>3, <1>4, <1>5 DEF SafeInv

LEMMA BeginSafe ==
  ASSUME SafeInv, Inv', NEW p \in Parent, BeginSync(p)
  PROVE  SafeInv'
<1>1. CASE cParents[p] = None
  BY <1>1, SameSafe DEF BeginSync
<1>2. CASE cParents[p] # None
  <2> DEFINE me == cParents[p]
             new == Begun(p, me)
  <2>1. /\ sync' = [sync EXCEPT ![p] = new]
        /\ UNCHANGED <<store, cParents, cObjects, nextUid>>
    BY <1>2 DEF BeginSync
  <2>2. /\ me.uid \in Uid /\ new.uid = me.uid /\ new.seen = cObjects
        /\ new.at = None /\ new.got = None /\ new.adopt = "unknown"
        /\ new.doomed = ~Lives(new, p)
        /\ new.fresh = \A o \in Child : cObjects[o] = Copy(objects[o])
        /\ new.todo = {o \in Object : \/ Releases(me, p, cObjects[o])
                                      \/ Adopts(me, p, cObjects[o])}
        /\ new.claimed = {o \in Object : Keeps(me, p, cObjects[o])}
    BY <1>2 DEF Begun, Lives, SafeInv, Inv, TypeOK, ParentObjects
  <2>3. sync'[p] = new /\ new \in Syncs
    BY <2>1 DEF SafeInv, Inv, TypeOK
  <2> HIDE DEF new, me
  <2>4. Heeds(new, p)
    <3>1. \A o \in new.todo \union new.claimed : new.seen[o] # None
      BY <2>2 DEF Releases, Adopts, Keeps
    <3>2. \A o \in new.todo : o \notin new.claimed
      BY <2>2, ClaimsAssumption DEF Releases, Adopts, Keeps
    <3> QED
      BY <2>2, <3>1, <3>2 DEF Heeds
  <2>5. ASSUME NEW o \in new.claimed \intersect Child PROVE Holds(new, p, o)
    <3>1. cObjects[o] # None /\ cObjects[o].obj.owner = new.uid
      BY <2>2, <2>5 DEF Keeps
    <3>2. ASSUME new.fresh PROVE objects[o] # None /\ cObjects[o].obj = objects[o]
      <4>1. cObjects[o] = Copy(objects[o])
        BY <2>2, <3>2
      <4> QED
        BY <3>1, <4>1 DEF Copy
    <3> QED
      BY <3>1, <3>2 DEF Holds
  <2> QED
    BY <1>2, <2>1, <2>2, <2>3, <2>4, <2>5, LocalSafe DEF me
<1> QED
  BY <1>1, <1>2

LEMMA SyncFacts ==
  ASSUME SafeInv, NEW p \in Parent
  PROVE  /\ sync \in [Parent -> Syncs] /\ sync[p] \in Syncs
         /\ Current(sync[p]) /\ Heeds(sync[p], p)
         /\ sync[p].doomed => ~Lives(sync[p], p)
         /\ \A o \in sync[p].claimed \intersect Child : Holds(sync[p], p, o)
         /\ CanAdopt(p) = Lives(sync[p], p)
BY DEF SafeInv, Inv, TypeOK, GotIsCurrent, SyncsHeed, DoomedForGood, ClaimsHold, CanAdopt, Lives

(* What settling an object leaves of a sync. *)
LEMMA SettledKeeps ==
  ASSUME NEW p \in Parent, NEW me \in Syncs, NEW o, Heeds(me, p),
         NEW new, new \in {Settled(me, o), [Settled(me, o) EXCEPT !.failed = TRUE]}
  PROVE  /\ Heeds(new, p)
         /\ new.uid = me.uid /\ new.doomed = me.doomed /\ new.fresh = me.fresh
         /\ new.claimed = me.claimed /\ new.seen = me.seen
<1>1. /\ new.uid = me.uid /\ new.doomed = me.doomed /\ new.fresh = me.fresh
      /\ new.claimed = me.claimed /\ new.seen = me.seen /\ new.adopt = me.adopt
      /\ new.todo = me.todo \ {o} /\ new.at = None /\ new.got = None
  BY DEF Settled, Syncs
<1> QED
  BY <1>1 DEF Heeds

LEMMA LocalWorkerSafe ==
  ASSUME SafeInv, Inv', NEW p \in Parent,
         \/ CheckAdopt(p) \/ EndClaims(p) \/ EndSync(p)
         \/ \E o \in Object : RefuseAdopt(p, o) \/ Get(p, o) \/ PutRefused(p, o)
  PROVE  SafeInv'
<1>0. /\ sync[p] \in Syncs /\ Current(sync[p]) /\ Heeds(sync[p], p)
      /\ sync[p].doomed => ~Lives(sync[p], p)
      /\ \A o \in sync[p].claimed \intersect Child : Holds(sync[p], p, o)
      /\ sync \in [Parent -> Syncs] /\ sync' \in [Parent -> Syncs]
  BY SyncFacts DEF Inv, TypeOK
<1>a. UNCHANGED <<store, cParents, nextUid>>
  BY DEF CheckAdopt, EndClaims, EndSync, RefuseAdopt, Get, PutRefused
<1>b. ASSUME NEW me, sync' = [sync EXCEPT ![p] = me], Heeds(me, p),
             me.uid = sync[p].uid, me.doomed = sync[p].doomed, me.fresh = sync[p].fresh,
             me.claimed = sync[p].claimed, me.seen = sync[p].seen
      PROVE  SafeInv'
  <2>1. me \in Syncs
    BY <1>0, <1>b
  <2>2. /\ me.doomed => ~Lives(me, p)
        /\ \A o \in me.claimed \intersect Child : Holds(me, p, o)
    BY <1>0, <1>b DEF Lives, Holds
  <2> QED
    BY <1>a, <1>b, <2>1, <2>2, LocalSafe
<1>c. ASSUME sync' = [sync EXCEPT ![p] = Idle] PROVE SafeInv'
  <2>1. /\ Idle \in Syncs /\ Heeds(Idle, p) /\ Idle.uid \notin Uid /\ ~Idle.doomed
        /\ Idle.claimed = {}
    BY IdleFacts, ClaimsAssumption DEF Idle, Heeds
  <2> QED
    BY <1>a, <1>c, <2>1, LocalSafe
<1>d. ASSUME NEW o \in Object,
             NEW me \in {Settled(sync[p], o), [Settled(sync[p], o) EXCEPT !.failed = TRUE]},
             sync' = [sync EXCEPT ![p] = me]
      PROVE  SafeInv'
  <2>1. /\ Heeds(me, p)
        /\ me.uid = sync[p].uid /\ me.doomed = sync[p].doomed /\ me.fresh = sync[p].fresh
        /\ me.claimed = sync[p].claimed /\ me.seen = sync[p].seen
    BY <1>0, SettledKeeps
  <2> QED
    BY <1>b, <1>d, <2>1
<1>1. CASE CheckAdopt(p)
  <2> DEFINE me == [sync[p] EXCEPT !.adopt = IF CanAdopt(p) THEN "yes" ELSE "no"]
  <2>1. /\ me.adopt = "yes" => CanAdopt(p)
        /\ me.at = None /\ me.got = None
        /\ me.uid = sync[p].uid /\ me.doomed = sync[p].doomed /\ me.fresh = sync[p].fresh
        /\ me.claimed = sync[p].claimed /\ me.seen = sync[p].seen /\ me.todo = sync[p].todo
    BY <1>0, <1>1 DEF CheckAdopt, Current, Syncs
  <2>2. sync' = [sync EXCEPT ![p] = me]
    BY <1>0, <1>1 DEF CheckAdopt
  <2> HIDE DEF me
  <2>3. Heeds(me, p)
    BY <1>0, <2>1, SyncFacts DEF Heeds
  <2> QED
    BY <1>b, <2>1, <2>2, <2>3
<1>2. CASE EndClaims(p)
  <2>1. CASE sync[p].failed
    BY <1>2, <1>c, <2>1 DEF EndClaims
  <2>2. CASE ~sync[p].failed
    <3> DEFINE me == [sync[p] EXCEPT !.pc = "acting"]
    <3>1. sync' = [sync EXCEPT ![p] = me]
      BY <1>0, <1>2, <2>2 DEF EndClaims
    <3>2. /\ me.uid = sync[p].uid /\ me.doomed = sync[p].doomed /\ me.fresh = sync[p].fresh
          /\ me.claimed = sync[p].claimed /\ me.seen = sync[p].seen /\ me.todo = sync[p].todo
          /\ me.at = sync[p].at /\ me.got = sync[p].got /\ me.adopt = sync[p].adopt
          /\ me.deleting = sync[p].deleting
      BY <1>0 DEF Syncs
    <3> HIDE DEF me
    <3>3. Heeds(me, p)
      BY <1>0, <3>2 DEF Heeds, Adopts
    <3> QED
      BY <1>b, <3>1, <3>2, <3>3
  <2> QED
    BY <2>1, <2>2
<1>3. CASE EndSync(p)
  BY <1>3, <1>c DEF EndSync
<1>4. ASSUME NEW o \in Object, RefuseAdopt(p, o) PROVE SafeInv'
  <2>1. sync' = [sync EXCEPT ![p] = [Settled(sync[p], o) EXCEPT !.failed = TRUE]]
    BY <1>4 DEF RefuseAdopt
  <2> QED
    BY <1>d, <2>1
<1>5. ASSUME NEW o \in Object, Get(p, o) PROVE SafeInv'
  <2>1. CASE ~IsSame(p, o)
    <3>1. sync' = [sync EXCEPT ![p] = Settled(sync[p], o)]
      BY <1>5, <2>1 DEF Get
    <3> QED
      BY <1>d, <3>1
  <2>2. CASE IsSame(p, o)
    <3> DEFINE me == [sync[p] EXCEPT !.at = o, !.got = Copy(objects[o])]
    <3>1. sync' = [sync EXCEPT ![p] = me]
      BY <1>0, <1>5, <2>2 DEF Get
    <3>2. /\ me.uid = sync[p].uid /\ me.doomed = sync[p].doomed /\ me.fresh = sync[p].fresh
          /\ me.claimed = sync[p].claimed /\ me.seen = sync[p].seen /\ me.todo = sync[p].todo
          /\ me.at = o /\ me.adopt = sync[p].adopt /\ me.deleting = sync[p].deleting
      BY <1>0 DEF Syncs
    <3>3. /\ o \in sync[p].todo /\ sync[p].seen[o].lag # "gone"
          /\ Adopts(sync[p], p, sync[p].seen[o]) => sync[p].adopt = "yes"
      BY <1>5, <2>2 DEF Get, IsSame, Adopting
    <3> HIDE DEF me
    <3>4. Adopts(me, p, me.seen[o]) = Adopts(sync[p], p, sync[p].seen[o])
      BY <3>2 DEF Adopts
    <3>5. Heeds(me, p)
      BY <1>0, <3>2, <3>3, <3>4 DEF Heeds
    <3> QED
      BY <1>b, <3>1, <3>2, <3>5
  <2> QED
    BY <2>1, <2>2
<1>6. ASSUME NEW o \in Object, PutRefused(p, o) PROVE SafeInv'
  <2>1. CASE sync' = [sync EXCEPT ![p].got = None]
    <3> DEFINE me == [sync[p] EXCEPT !.got = None]
    <3>1. sync' = [sync EXCEPT ![p] = me]
      BY <1>0, <2>1
    <3>2. /\ me.uid = sync[p].uid /\ me.doomed = sync[p].doomed /\ me.fresh = sync[p].fresh
          /\ me.claimed = sync[p].claimed /\ me.seen = sync[p].seen /\ me.todo = sync[p].todo
          /\ me.at = sync[p].at /\ me.got = None /\ me.adopt = sync[p].adopt
      BY <1>0 DEF Syncs
    <3> HIDE DEF me
    <3>3. Heeds(me, p)
      BY <1>0, <3>2 DEF Heeds
    <3> QED
      BY <1>b, <3>1, <3>2, <3>3
  <2>2. CASE sync' = [sync EXCEPT ![p] = [Settled(@, o) EXCEPT !.failed = TRUE]]
    <3>1. sync' = [sync EXCEPT ![p] = [Settled(sync[p], o) EXCEPT !.failed = TRUE]]
      BY <2>2
    <3> QED
      BY <1>d, <3>1
  <2> QED
    BY <1>6, <2>1, <2>2 DEF PutRefused
<1> QED
  BY <1>1, <1>2, <1>3, <1>4, <1>5, <1>6

(* What an accepted PUT makes of the sync and of the object's controller.   *)
LEMMA PutFacts ==
  ASSUME SafeInv, NEW p \in Parent, NEW o \in Object, Put(p, o)
  PROVE  LET new == Conclude(p, o)
         IN /\ sync[p].uid \in Uid /\ o \in sync[p].todo /\ o \notin sync[p].claimed
            /\ sync[p].seen[o] # None
            /\ new \in Syncs /\ Current(new) /\ Heeds(new, p)
            /\ new.uid = sync[p].uid /\ new.doomed = sync[p].doomed
            /\ new.fresh = sync[p].fresh /\ new.seen = sync[p].seen
            /\ new.claimed = IF Adopting(p, o) THEN sync[p].claimed \union {o}
                                               ELSE sync[p].claimed
<1>1. /\ sync[p] \in Syncs /\ Current(sync[p]) /\ Heeds(sync[p], p)
      /\ sync[p].at = o /\ sync[p].got # None
  BY SyncFacts DEF Put
<1>2. o # None /\ sync[p].pc # "idle" /\ sync[p].uid \in Uid
  BY <1>1, ClaimsAssumption DEF Current
<1>3. o \in sync[p].todo /\ o \notin sync[p].claimed /\ sync[p].seen[o] # None
  BY <1>1, <1>2 DEF Heeds
<1> DEFINE mid == Settled(sync[p], o)
           new == Conclude(p, o)
<1>4. /\ mid \in Syncs /\ Current(mid) /\ Heeds(mid, p) /\ mid.uid = sync[p].uid
      /\ mid.doomed = sync[p].doomed /\ mid.fresh = sync[p].fresh
      /\ mid.claimed = sync[p].claimed /\ mid.seen = sync[p].seen
  <2>1. mid \in Syncs /\ Current(mid)
    BY <1>1, <1>2, SettledFacts
  <2>2. mid \in {Settled(sync[p], o), [Settled(sync[p], o) EXCEPT !.failed = TRUE]}
    OBVIOUS
  <2> HIDE DEF mid
  <2>3. /\ Heeds(mid, p) /\ mid.uid = sync[p].uid
        /\ mid.doomed = sync[p].doomed /\ mid.fresh = sync[p].fresh
        /\ mid.claimed = sync[p].claimed /\ mid.seen = sync[p].seen
    BY <1>1, <2>2, SettledKeeps
  <2> QED
    BY <2>1, <2>3
<1>5. /\ mid.todo = sync[p].todo \ {o} /\ mid.at = None /\ mid.got = None
  BY <1>1 DEF Settled, Syncs
<1>6. new = [mid EXCEPT !.claimed = IF Adopting(p, o) THEN @ \union {o} ELSE @]
  BY DEF Conclude
<1> HIDE DEF mid, new
<1>7. /\ new \in Syncs /\ new.uid = mid.uid /\ new.doomed = mid.doomed
      /\ new.fresh = mid.fresh /\ new.seen = mid.seen /\ new.todo = mid.todo
      /\ new.at = mid.at /\ new.got = mid.got /\ new.pc = mid.pc /\ new.adopt = mid.adopt
      /\ new.claimed = IF Adopting(p, o) THEN mid.claimed \union {o} ELSE mid.claimed
  BY <1>4, <1>6 DEF Syncs
<1>8. Current(new)
  BY <1>2, <1>4, <1>5, <1>7 DEF Current
<1>9. Heeds(new, p)
  BY <1>3, <1>4, <1>5, <1>7 DEF Heeds
<1> QED
  BY <1>2, <1>3, <1>4, <1>7, <1>8, <1>9 DEF new

LEMMA PutSafe ==
  ASSUME SafeInv, Inv', NEW p \in Parent, NEW o \in Object, Put(p, o)
  PROVE  SafeInv'
<1> DEFINE new == Conclude(p, o)
<1>0. /\ sync[p].uid \in Uid /\ o \in sync[p].todo /\ o \notin sync[p].claimed
      /\ new \in Syncs /\ Current(new) /\ Heeds(new, p)
      /\ new.uid = sync[p].uid /\ new.doomed = sync[p].doomed
      /\ new.fresh = sync[p].fresh /\ new.seen = sync[p].seen
      /\ new.claimed = IF Adopting(p, o) THEN sync[p].claimed \union {o}
                                         ELSE sync[p].claimed
  BY PutFacts
<1>a. /\ UNCHANGED <<parents, cParents, nextUid>> /\ sync[p].at = o /\ sync[p].got # None
      /\ objects \in [Object -> Objects \union {None}]
  BY DEF Put, SafeInv, Inv, TypeOK
<1>b. sync[p].got.lag = "same" /\ NewOwner(p, o) # None =>
        /\ objects[o] \in Objects /\ NewOwner(p, o) \in Uid \union {Orphan}
        /\ sync[p].got.obj = objects[o]
        /\ NewOwner(p, o) = IF Adopting(p, o) THEN Added(sync[p], objects[o].owner)
                                              ELSE Removed(sync[p], objects[o].owner)
  BY <1>a, SyncFacts, NewOwnerFacts DEF Current, NewOwner, SafeInv
<1>c. ASSUME NEW q \in Parent, NEW x \in sync[q].claimed \intersect Child
      PROVE  Holds(sync[q], q, x)
  BY <1>c, SyncFacts
<1> HIDE DEF new
<1>1. CASE sync' = [sync EXCEPT ![p] = new] /\ UNCHANGED <<objects, cObjects>>
           /\ (Stores(o) => /\ sync[p].got.lag = "same" /\ NewOwner(p, o) # None
                            /\ NewOwner(p, o) = sync[p].got.obj.owner)
  <2>1. ASSUME NEW x \in new.claimed \intersect Child PROVE Holds(new, p, x)
    <3>1. CASE x \in sync[p].claimed
      BY <1>0, <1>c, <2>1, <3>1 DEF Holds, Lives
    <3>2. CASE x \notin sync[p].claimed
      <4>1. x = o /\ Adopting(p, o) /\ Stores(o)
        BY <1>0, <2>1, <3>2 DEF Stores
      <4>2. objects[o] \in Objects /\ objects[o].owner = sync[p].uid
        BY <1>1, <1>b, <4>1 DEF Added
      <4> QED
        BY <1>0, <4>1, <4>2, ClaimsAssumption DEF Holds
    <3> QED
      BY <3>1, <3>2
  <2>2. new.doomed => ~Lives(new, p)
    BY <1>0, SyncFacts DEF Lives
  <2> QED
    BY <1>0, <1>1, <1>a, <2>1, <2>2, LocalSafe DEF store
<1>2. CASE /\ sync[p].got.lag = "same" /\ NewOwner(p, o) # None
           /\ Write(o, [objects[o] EXCEPT !.owner = NewOwner(p, o)], [sync EXCEPT ![p] = new])
  <2> DEFINE object == [objects[o] EXCEPT !.owner = NewOwner(p, o)]
             syncs == [sync EXCEPT ![p] = new]
  <2>1. object \in Objects /\ object.owner = NewOwner(p, o)
    BY <1>2, <1>b DEF Objects
  <2>2. /\ syncs \in [Parent -> Syncs] /\ syncs[p] = new
        /\ \A q \in Parent : q # p => syncs[q] = sync[q]
    BY <1>0, SyncFacts
  <2>3. Write(o, object, syncs)
    BY <1>2
  <2> HIDE DEF object, syncs
  <2>4. ASSUME NEW q \in Parent
        PROVE  /\ Current(syncs[q]) /\ Heeds(syncs[q], q) /\ syncs[q].uid = sync[q].uid
               /\ syncs[q].doomed = sync[q].doomed
    BY <1>0, <2>2, SyncFacts
  <2>5. ASSUME NEW q \in Parent, NEW x \in syncs[q].claimed \intersect Child, x # o
        PROVE  Holds(syncs[q], q, x)
    <3>1. x \in sync[q].claimed \intersect Child
      BY <1>0, <2>2, <2>5
    <3>2. Holds(sync[q], q, x)
      BY <1>c, <3>1
    <3>3. syncs[q].uid = sync[q].uid /\ syncs[q].fresh = sync[q].fresh /\ syncs[q].seen = sync[q].seen
      BY <1>0, <2>2
    <3> QED
      BY <3>2, <3>3 DEF Holds, Lives
  <2>6. ASSUME NEW q \in Parent, o \in syncs[q].claimed \intersect Child, syncs[q].fresh,
               Lives(syncs[q], q), syncs[q].seen[o].lag # "gone"
        PROVE  object.owner = syncs[q].uid
    <3>1. CASE q = p
      <4>1. Adopting(p, o)
        BY <1>0, <2>2, <2>6, <3>1
      <4> QED
        BY <1>0, <1>2, <1>b, <2>1, <2>2, <3>1, <4>1 DEF Added
    <3>2. CASE q # p
      <4>1. Holds(sync[q], q, o) /\ syncs[q] = sync[q]
        BY <1>c, <2>2, <2>6, <3>2
      <4>2. objects[o].owner = sync[q].uid /\ sync[q].uid \in Uid
        BY <2>6, <4>1 DEF Holds, Lives, Alive, SafeInv, Inv, TypeOK, ParentObjects
      <4>3. sync[q].uid # sync[p].uid
        BY <1>0, <3>2, <4>2 DEF SafeInv, UidsApart, UidsOf
      <4> QED
        BY <1>2, <1>b, <2>1, <4>1, <4>2, <4>3, ClaimsAssumption DEF Added, Removed
    <3> QED
      BY <3>1, <3>2
  <2> QED
    BY <1>a, <2>1, <2>2, <2>3, <2>4, <2>5, <2>6, WriteSafe
<1> QED
  BY <1>1, <1>2, <1>a DEF Put, new

(* The other writers: users and the garbage collector. *)
LEMMA EnvironmentWriteSafe ==
  ASSUME SafeInv, Inv', UNCHANGED <<parents, cParents, nextUid>>,
         NEW o \in Object, NEW object \in Objects \union {None}, Write(o, object, sync),
         \/ objects[o] = None \/ object = None \/ object.owner = objects[o].owner
         \/ \A q \in Parent : Lives(sync[q], q) => objects[o].owner # sync[q].uid
  PROVE  SafeInv'
<1>1. ASSUME NEW q \in Parent
      PROVE  /\ Current(sync[q]) /\ Heeds(sync[q], q)
             /\ \A x \in sync[q].claimed \intersect Child :
                  /\ Holds(sync[q], q, x)
                  /\ x = o /\ object # None /\ sync[q].fresh /\ Lives(sync[q], q)
                       /\ sync[q].seen[x].lag # "gone"
                       => object.owner = sync[q].uid
  <2>1. /\ Current(sync[q]) /\ Heeds(sync[q], q)
        /\ \A x \in sync[q].claimed \intersect Child : Holds(sync[q], q, x)
    BY SyncFacts
  <2> QED
    BY <2>1 DEF Holds
<1>2. sync \in [Parent -> Syncs]
  BY DEF SafeInv, Inv, TypeOK
<1> QED
  BY <1>1, <1>2, WriteSafe

LEMMA ParentsSafe ==
  ASSUME SafeInv, Inv', UNCHANGED <<objects, sync>>, UidsApart',
         \A p \in Parent : Lives(sync[p], p)' => Lives(sync[p], p)
  PROVE  SafeInv'
<1>1. SyncsHeed'
  BY DEF SafeInv, SyncsHeed, Heeds, Adopts, Matches
<1>2. DoomedForGood'
  BY DEF SafeInv, DoomedForGood
<1>3. ClaimsHold'
  BY DEF SafeInv, ClaimsHold, Holds
<1> QED
  BY <1>1, <1>2, <1>3 DEF SafeInv

LEMMA CreateParentSafe ==
  ASSUME SafeInv, Inv', NEW p \in Parent, CreateParent(p)
  PROVE  SafeInv'
<1>0. /\ nextUid \in Uid /\ parents[p] = None /\ nextUid' = nextUid + 1
      /\ parents' = [parents EXCEPT ![p] = [uid |-> nextUid, deleting |-> FALSE]]
      /\ parents \in [Parent -> ParentObjects \union {None}]
      /\ UNCHANGED <<objects, cParents, sync>>
  BY DEF CreateParent, SafeInv, Inv, TypeOK
<1>1. ASSUME NEW q \in Parent, NEW u \in Uid, u \in UidsOf(q)'
      PROVE  u \in UidsOf(q) \/ (q = p /\ u = nextUid)
  BY <1>0, <1>1 DEF UidsOf, Uid
<1>2. \A q \in Parent, u \in Uid : u \in UidsOf(q) => u < nextUid
  BY DEF SafeInv, UidsApart
<1>3. UidsApart'
  <2>1. \A q \in Parent, u \in Uid : u \in UidsOf(q)' => u < nextUid + 1
    BY <1>0, <1>1, <1>2 DEF Uid
  <2>2. \A q, r \in Parent, u \in Uid : u \in UidsOf(q)' /\ u \in UidsOf(r)' => q = r
    <3>1. \A q \in Parent : nextUid \notin UidsOf(q)
      BY <1>0, <1>2 DEF Uid
    <3> QED
      BY <1>0, <1>1, <3>1 DEF SafeInv, UidsApart
  <2> QED
    BY <1>0, <2>1, <2>2 DEF UidsApart, Uid
<1>4. ASSUME NEW q \in Parent, Lives(sync[q], q)' PROVE Lives(sync[q], q)
  <2>1. CASE q = p
    <3>1. sync[p].uid = nextUid
      BY <1>0, <1>4, <2>1 DEF Lives
    <3>2. nextUid \in UidsOf(p)
      BY <1>0, <3>1 DEF UidsOf
    <3> QED
      BY <1>0, <1>2, <3>2 DEF Uid
  <2>2. CASE q # p
    BY <1>0, <1>4, <2>2 DEF Lives, Alive
  <2> QED
    BY <2>1, <2>2
<1> QED
  BY <1>0, <1>3, <1>4, ParentsSafe

LEMMA OthersSafe ==
  ASSUME SafeInv, Inv', Informers \/ Environment
  PROVE  SafeInv'
<1>0. /\ objects \in [Object -> Objects \union {None}]
      /\ parents \in [Parent -> ParentObjects \union {None}]
      /\ \A x \in Objects : x # None
  BY ClaimsAssumption DEF SafeInv, Inv, TypeOK
<1>1. ASSUME NEW o \in Object, ObjectEvent(o) PROVE SafeInv'
  BY <1>1, SameSafe DEF ObjectEvent
<1>2. ASSUME NEW p \in Parent, ParentResync(p) PROVE SafeInv'
  BY <1>2, SameSafe DEF ParentResync
<1>3. ASSUME NEW p \in Parent, ParentEvent(p) PROVE SafeInv'
  <2>1. /\ cParents' = [cParents EXCEPT ![p] = parents[p]]
        /\ UNCHANGED <<parents, objects, sync, nextUid>>
        /\ cParents \in [Parent -> ParentObjects \union {None}]
    BY <1>3 DEF ParentEvent, store, SafeInv, Inv, TypeOK
  <2>2. \A q \in Parent : UidsOf(q)' \subseteq UidsOf(q)
    BY <2>1 DEF UidsOf, Uid
  <2>3. UidsApart'
    BY <2>1, <2>2, UidsStayApart DEF SafeInv
  <2> QED
    BY <2>1, <2>3, ParentsSafe DEF Lives, Alive
<1>4. ASSUME NEW p \in Parent, DeleteParent(p) PROVE SafeInv'
  <2>1. /\ parents' = [parents EXCEPT ![p].deleting = TRUE]
        /\ UNCHANGED <<objects, cParents, sync, nextUid>>
        /\ parents[p] \in ParentObjects /\ parents[p] # None
    BY <1>0, <1>4 DEF DeleteParent, Alive
  <2>2. parents'[p].uid = parents[p].uid /\ parents'[p].deleting
    BY <1>0, <2>1 DEF ParentObjects
  <2>3. \A q \in Parent : UidsOf(q)' \subseteq UidsOf(q)
    BY <1>0, <2>1, <2>2 DEF UidsOf, Uid
  <2>4. UidsApart'
    BY <2>1, <2>3, UidsStayApart DEF SafeInv
  <2>5. ASSUME NEW q \in Parent, Lives(sync[q], q)' PROVE Lives(sync[q], q)
    BY <1>0, <2>1, <2>2, <2>5 DEF Lives, Alive
  <2> QED
    BY <2>1, <2>4, <2>5, ParentsSafe
<1>5. ASSUME NEW p \in Parent, RemoveParent(p) PROVE SafeInv'
  <2>1. /\ parents' = [parents EXCEPT ![p] = None]
        /\ UNCHANGED <<objects, cParents, sync, nextUid>>
    BY <1>5 DEF RemoveParent
  <2>2. \A q \in Parent : UidsOf(q)' \subseteq UidsOf(q)
    BY <1>0, <2>1 DEF UidsOf, Uid
  <2>3. UidsApart'
    BY <2>1, <2>2, UidsStayApart DEF SafeInv
  <2> QED
    BY <1>0, <2>1, <2>3, ParentsSafe DEF Lives, Alive
<1>6. ASSUME NEW o \in Object, NEW label \in Label, NEW owner \in Uid \union {Orphan},
             CreateObject(o, label, owner)
      PROVE  SafeInv'
  BY <1>6, EnvironmentWriteSafe DEF CreateObject, Objects
<1>7. ASSUME NEW o \in Object, NEW label \in Label, Relabel(o, label) PROVE SafeInv'
  <2> DEFINE object == [objects[o] EXCEPT !.label = label]
  <2>1. object \in Objects /\ object.owner = objects[o].owner
    BY <1>0, <1>7 DEF Relabel, Objects
  <2>2. Write(o, object, sync) /\ UNCHANGED <<parents, cParents, nextUid>>
    BY <1>7 DEF Relabel
  <2> HIDE DEF object
  <2> QED
    BY <2>1, <2>2, EnvironmentWriteSafe
<1>8. ASSUME NEW o \in Object, DeleteObject(o) PROVE SafeInv'
  <2> DEFINE object == [objects[o] EXCEPT !.deleting = TRUE]
  <2>1. object \in Objects /\ object.owner = objects[o].owner
    BY <1>0, <1>8 DEF DeleteObject, Objects
  <2>2. Write(o, object, sync) /\ UNCHANGED <<parents, cParents, nextUid>>
    BY <1>8 DEF DeleteObject
  <2> HIDE DEF object
  <2> QED
    BY <2>1, <2>2, EnvironmentWriteSafe
<1>9. ASSUME NEW o \in Object, RemoveObject(o) \/ CollectObject(o) PROVE SafeInv'
  BY <1>9, EnvironmentWriteSafe DEF RemoveObject, CollectObject
<1>10. ASSUME NEW o \in Object, OrphanObject(o) PROVE SafeInv'
  <2> DEFINE object == [objects[o] EXCEPT !.owner = Orphan]
  <2>1. object \in Objects
    BY <1>0, <1>10 DEF OrphanObject, Objects
  <2>2. Write(o, object, sync) /\ UNCHANGED <<parents, cParents, nextUid>>
    BY <1>10 DEF OrphanObject
  <2>3. PICK p \in Parent : /\ parents[p] # None /\ parents[p].deleting
                            /\ parents[p].uid = objects[o].owner
    BY <1>10 DEF OrphanObject
  <2>4. ASSUME NEW q \in Parent, Lives(sync[q], q) PROVE objects[o].owner # sync[q].uid
    <3>1. SUFFICES ASSUME parents[q].uid = parents[p].uid PROVE FALSE
      BY <2>3, <2>4 DEF Lives
    <3>2. parents[p].uid \in Uid /\ parents[p].uid \in UidsOf(p)
      BY <1>0, <2>3 DEF UidsOf, ParentObjects
    <3>3. parents[p].uid \in UidsOf(q)
      BY <2>4, <3>1, <3>2 DEF UidsOf, Lives, Alive
    <3>4. p = q
      BY <3>2, <3>3 DEF SafeInv, UidsApart
    <3> QED
      BY <2>3, <2>4, <3>4 DEF Lives, Alive
  <2> HIDE DEF object
  <2> QED
    BY <2>1, <2>2, <2>4, EnvironmentWriteSafe
<1> QED
  BY <1>1, <1>2, <1>3, <1>4, <1>5, <1>6, <1>7, <1>8, <1>9, <1>10, CreateParentSafe
  DEF Informers, Environment

LEMMA SafeInit == Init => SafeInv
<1> SUFFICES ASSUME Init PROVE SafeInv
  OBVIOUS
<1>1. \A p \in Parent : sync[p] = Idle /\ parents[p] = None /\ cParents[p] = None
  BY DEF Init
<1>2. /\ Idle.uid \notin Uid /\ Idle.todo = {} /\ Idle.claimed = {} /\ Idle.at = None
      /\ Idle.got = None /\ Idle.adopt = "unknown" /\ ~Idle.doomed
  BY ClaimsAssumption DEF Idle
<1>3. UidsApart
  BY <1>1, <1>2 DEF UidsApart, UidsOf
<1>4. SyncsHeed /\ DoomedForGood /\ ClaimsHold
  BY <1>1, <1>2 DEF SyncsHeed, Heeds, DoomedForGood, ClaimsHold
<1> QED
  BY <1>3, <1>4, InitInv DEF SafeInv

LEMMA SafeNext == SafeInv /\ [Next]_vars => SafeInv'
<1> SUFFICES ASSUME SafeInv, [Next]_vars PROVE SafeInv'
  OBVIOUS
<1>1. Inv'
  BY NextInv DEF SafeInv
<1>2. CASE UNCHANGED vars
  BY <1>1, <1>2, SameSafe DEF vars
<1>3. ASSUME NEW p \in Parent, Worker(p) PROVE SafeInv'
  BY <1>1, <1>3, BeginSafe, LocalWorkerSafe, PutSafe DEF Worker
<1> QED
  BY <1>1, <1>2, <1>3, OthersSafe DEF Next

(* An orphan gets a controller only by a PUT of a claim manager that adopts *)
(* it: nobody else writes the owner of an object that is there.             *)
LEMMA AdoptionIsAPut ==
  ASSUME SafeInv, Next, NEW o \in Child, objects[o] # None, objects'[o] # None,
         objects[o].owner = Orphan, objects'[o].owner # Orphan
  PROVE  \E q \in Parent : Put(q, o)
<1>0. /\ objects \in [Object -> Objects \union {None}] /\ o \in Object
      /\ objects'[o] # objects[o]
  BY DEF SafeInv, Inv, TypeOK, Object
<1>1. ASSUME NEW p \in Parent, Worker(p) PROVE \E q \in Parent : Put(q, o)
  <2>1. ASSUME NEW x \in Object, Put(p, x), x # o PROVE objects'[o] = objects[o]
    BY <1>0, <2>1 DEF Put, Write
  <2> QED
    BY <1>0, <1>1, <2>1 DEF Worker, BeginSync, CheckAdopt, EndClaims, EndSync, RefuseAdopt,
       Get, PutRefused, store
<1>2. ~Informers
  BY <1>0 DEF Informers, ObjectEvent, ParentEvent, ParentResync, store
<1>3. ~Environment
  <2>1. ASSUME NEW p \in Parent, CreateParent(p) \/ DeleteParent(p) \/ RemoveParent(p)
        PROVE  FALSE
    BY <1>0, <2>1 DEF CreateParent, DeleteParent, RemoveParent
  <2>a. ASSUME NEW x \in Object, NEW object \in Objects,
               objects' = [objects EXCEPT ![x] = object],
               x = o => object.owner = objects[o].owner \/ object.owner = Orphan
        PROVE  FALSE
    BY <1>0, <2>a
  <2>2. ASSUME NEW x \in Object, NEW label \in Label, Relabel(x, label) PROVE FALSE
    <3>1. [objects[x] EXCEPT !.label = label] \in Objects
          /\ [objects[x] EXCEPT !.label = label].owner = objects[x].owner
      BY <1>0, <2>2 DEF Relabel, Objects
    <3> QED
      BY <2>2, <2>a, <3>1 DEF Relabel, Write
  <2>5. ASSUME NEW x \in Object, DeleteObject(x) PROVE FALSE
    <3>1. [objects[x] EXCEPT !.deleting = TRUE] \in Objects
          /\ [objects[x] EXCEPT !.deleting = TRUE].owner = objects[x].owner
      BY <1>0, <2>5 DEF DeleteObject, Objects
    <3> QED
      BY <2>5, <2>a, <3>1 DEF DeleteObject, Write
  <2>6. ASSUME NEW x \in Object, OrphanObject(x) PROVE FALSE
    <3>1. [objects[x] EXCEPT !.owner = Orphan] \in Objects
          /\ [objects[x] EXCEPT !.owner = Orphan].owner = Orphan
      BY <1>0, <2>6 DEF OrphanObject, Objects
    <3> QED
      BY <2>6, <2>a, <3>1 DEF OrphanObject, Write
  <2>3. ASSUME NEW x \in Object, RemoveObject(x) \/ CollectObject(x)
        PROVE  FALSE
    BY <1>0, <2>3 DEF RemoveObject, CollectObject, Write
  <2>4. ASSUME NEW x \in Object, NEW label \in Label, NEW owner \in Uid \union {Orphan},
               CreateObject(x, label, owner)
        PROVE  FALSE
    BY <1>0, <2>4 DEF CreateObject, Write
  <2> QED
    BY <2>1, <2>2, <2>3, <2>4, <2>5, <2>6 DEF Environment
<1> QED
  BY <1>1, <1>2, <1>3 DEF Next

LEMMA AdoptingPut ==
  ASSUME SafeInv, NEW q \in Parent, NEW o \in Child, Put(q, o),
         objects[o].owner = Orphan, objects'[o].owner # Orphan
  PROVE  Adopting(q, o) /\ sync[q].adopt = "yes" /\ objects'[o].owner = sync[q].uid
<1>0. o \in Object /\ objects \in [Object -> Objects \union {None}]
  BY DEF Object, SafeInv, Inv, TypeOK
<1>1. /\ sync[q].at = o /\ sync[q].got # None /\ sync[q].got.lag = "same"
      /\ NewOwner(q, o) # None
      /\ objects' = [objects EXCEPT ![o] = [objects[o] EXCEPT !.owner = NewOwner(q, o)]]
  BY <1>0 DEF Put, Write
<1>2. objects[o] \in Objects /\ sync[q].got.obj = objects[o]
  BY <1>0, <1>1, SyncFacts, NewOwnerFacts DEF Current, SafeInv
<1>3. objects'[o].owner = NewOwner(q, o)
  BY <1>0, <1>1, <1>2 DEF Objects
<1>4. Adopting(q, o)
  BY <1>2, <1>3 DEF NewOwner, Removed
<1>5. NewOwner(q, o) = sync[q].uid
  BY <1>1, <1>2, <1>4 DEF NewOwner, Added
<1> QED
  BY <1>1, <1>3, <1>4, <1>5, SyncFacts DEF Heeds, Adopting

(* Two living parents never act on one child at the same time, if what they *)
(* listed was current: of two syncs that race to adopt an orphan one fails. *)
THEOREM NeverShared == Spec => []ExclusiveClaims
<1>1. SafeInv => ExclusiveClaims
  <2> SUFFICES ASSUME SafeInv, NEW p \in Parent, NEW q \in Parent,
                      NEW o \in ActsOn(p) \intersect ActsOn(q)
               PROVE  p = q
    BY DEF ExclusiveClaims
  <2>1. ASSUME NEW r \in Parent, o \in ActsOn(r)
        PROVE  objects[o].owner \in Uid /\ objects[o].owner \in UidsOf(r)
    <3>1. /\ sync[r].fresh /\ Lives(sync[r], r)
          /\ o \in sync[r].claimed \intersect Child /\ sync[r].seen[o].lag # "gone"
      BY <2>1 DEF ActsOn, Lives
    <3>2. objects[o].owner = sync[r].uid
      BY <3>1, SyncFacts DEF Holds
    <3>3. sync[r].uid \in Uid
      BY <3>1 DEF Lives, Alive, SafeInv, Inv, TypeOK, ParentObjects
    <3> QED
      BY <3>2, <3>3 DEF UidsOf
  <2> QED
    BY <2>1 DEF SafeInv, UidsApart
<1> QED
  BY <1>1, SafeInit, SafeNext, PTL DEF Spec

(* A PUT that changes a controller reference changes it on the incarnation  *)
(* of the object that the sync listed.                                      *)
THEOREM TouchesOnlyListed == Spec => TouchesWhatItListed
<1> DEFINE Listed(p, o) == Put(p, o) /\ objects'[o] # objects[o] => sync[p].seen[o].lag # "gone"
<1>1. ASSUME SafeInv, NEW p \in Parent, NEW o \in Child, Put(p, o), objects'[o] # objects[o]
      PROVE  sync[p].seen[o].lag # "gone"
  <2>1. sync[p].got # None /\ sync[p].at = o /\ sync[p].got.lag = "same"
    BY <1>1 DEF Put
  <2> QED
    BY <1>1, <2>1, SyncFacts DEF Heeds
<1>2. SafeInv /\ [Next]_vars => [\A p \in Parent, o \in Child : Listed(p, o)]_vars
  BY <1>1
<1> QED
  BY <1>2, SafeInit, SafeNext, PTL DEF Spec, TouchesWhatItListed

(* A sync whose parent was deleted or replaced before it began adopts       *)
(* nothing for it: canAdoptFunc reads the parent live.                      *)
THEOREM AdoptsForTheLiving == Spec => DoomedNeverAdopts
<1> DEFINE Adopted(p, o) == /\ objects[o] # None /\ objects'[o] # None
                            /\ objects[o].owner = Orphan /\ objects'[o].owner = sync[p].uid
<1>1. ASSUME SafeInv, Next, NEW p \in Parent, NEW o \in Child, Adopted(p, o)
      PROVE  ~sync[p].doomed
  <2>0. objects'[o].owner # Orphan
    <3>1. sync[p].uid \in Uid \union {None}
      BY <1>1, SyncFacts DEF Syncs
    <3> QED
      BY <1>1, <3>1, ClaimsAssumption
  <2>1. PICK q \in Parent : Put(q, o)
    BY <1>1, <2>0, AdoptionIsAPut
  <2>2. sync[q].adopt = "yes" /\ objects'[o].owner = sync[q].uid
    BY <1>1, <2>0, <2>1, AdoptingPut
  <2>3. sync[q].uid \in Uid
    BY <1>1, <2>1, PutFacts DEF Object
  <2>4. ~sync[q].doomed
    BY <1>1, <2>2, SyncFacts DEF Heeds
  <2>5. p = q
    BY <1>1, <2>2, <2>3 DEF SafeInv, UidsApart, UidsOf
  <2> QED
    BY <2>4, <2>5
<1>2. SafeInv /\ [Next]_vars
        => [\A p \in Parent, o \in Child : Adopted(p, o) => ~sync[p].doomed]_vars
  BY <1>1
<1> QED
  BY <1>2, SafeInit, SafeNext, PTL DEF Spec, DoomedNeverAdopts
=============================================================================
