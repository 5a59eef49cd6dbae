------------------------ MODULE MetacontrollersProofs ------------------------
(***************************************************************************)
(* Proofs about Metacontrollers: its states are well typed, the factory    *)
(* counts the subscriptions, and a removed handler is not called.  None of *)
(* the three is inductive alone: the steps on an informer are defined only *)
(* while it runs, which it does because its subscriptions are counted, and *)
(* they are counted right because a controller subscribes to what it wants *)
(* in order and closes what it subscribed to.                              *)
(***************************************************************************)
EXTENDS Metacontrollers, FiniteSetTheorems, TLAPS

Ctls ==
  [stage : Stages, spec : CRSpec \union {None}, subs : SUBSET Slot, hand : SUBSET Slot,
   works : BOOLEAN]

(* Of one controller: it has handlers only where it subscribed, all that it *)
(* wants once it starts, and a prefix of it while it subscribes.            *)
InOrder(ctl) ==
  /\ ctl.stage = "none" => ctl = Absent
  /\ ctl.stage # "none" => ctl.spec \in CRSpec /\ ctl.subs \subseteq DOMAIN Wants[ctl.spec]
  /\ ctl.stage = "subscribes" => \E k \in 0..(Len(Wants[ctl.spec]) - 1) : ctl.subs = 1..k
  /\ ctl.stage = "starts" => ctl.subs = DOMAIN Wants[ctl.spec]
  /\ ctl.stage \in {"subscribes", "fails"} => ctl.hand = {}
  /\ ctl.hand \subseteq ctl.subs

AllInOrder == \A n \in Name : InOrder(ctls[n])

Counted(r) ==
  /\ IsFiniteSet(Subscriptions(r))
  /\ refCount[r] = Cardinality(Subscriptions(r))
  /\ informers[r] # None <=> Subscriptions(r) # {}

AllCounted == \A r \in Resource : Counted(r)

(* The lock of the handlers: nobody is called while one is being removed.   *)
Exclusive(informer) == informer.writer # None => informer.calls = {}

Locked == \A r \in Resource : informers[r] # None => Exclusive(informers[r])

(* Well typed but for controllers and informers.                            *)
RestOK ==
  /\ crs \in [Name -> CRSpec \union {None}]
  /\ known \subseteq Resource
  /\ objects \in [Resource -> BOOLEAN]
  /\ metas \in [Meta -> [does : {"works", "drains", "closes", "done"},
                         at : Name \union {None}, cr : CRSpec \union {None}]]
  /\ metaQueue \subseteq Name
  /\ dirty \subseteq Name
  /\ seen \in [Name -> [Slot -> BOOLEAN]]
  /\ ticker \in [Name -> {"off", "waits", "fires"}]
  /\ changes \in 0..MaxChanges

MetaInv == TypeOK /\ AllInOrder /\ AllCounted /\ Locked /\ SilentOnceRemoved

-----------------------------------------------------------------------------
(* Constants and controllers.                                               *)

LEMMA WantsFacts ==
  ASSUME NEW s \in CRSpec
  PROVE  /\ Wants[s] \in Seq(Resource) /\ Len(Wants[s]) \in Nat \ {0}
         /\ DOMAIN Wants[s] = 1..Len(Wants[s])
         /\ \A i \in DOMAIN Wants[s] : i \in Slot /\ Wants[s][i] \in Resource
         /\ Heard[s] \subseteq DOMAIN Wants[s] /\ 1 \in Heard[s]
<1>1. Wants[s] \in Seq(Resource) /\ Heard[s] \subseteq DOMAIN Wants[s] /\ 1 \in Heard[s]
  BY MetacontrollersAssumption
<1>2. \A i \in DOMAIN Wants[s] : i \in Slot
  BY DEF Slot
<1> QED
  BY <1>1, <1>2

LEMMA CtlFacts ==
  ASSUME MetaInv, NEW n \in Name
  PROVE  /\ ctls \in [Name -> Ctls] /\ ctls[n] \in Ctls /\ InOrder(ctls[n])
         /\ \A i \in ctls[n].subs : i \in Slot /\ Res(n, i) \in Resource
                                    /\ i \in DOMAIN Wants[ctls[n].spec]
         /\ ctls[n].hand \subseteq ctls[n].subs
         /\ Owner[n] \in Meta
<1>1. ctls \in [Name -> Ctls] /\ InOrder(ctls[n])
  BY DEF MetaInv, TypeOK, AllInOrder, Ctls
<1>2. CASE ctls[n].stage = "none"
  BY <1>1, <1>2, MetacontrollersAssumption DEF InOrder, Absent
<1>3. CASE ctls[n].stage # "none"
  BY <1>1, <1>3, WantsFacts, MetacontrollersAssumption DEF InOrder, Res
<1> QED
  BY <1>1, <1>2, <1>3

LEMMA AbsentFacts ==
  /\ Absent \in Ctls /\ InOrder(Absent) /\ Absent.subs = {} /\ Absent.hand = {}
  /\ Absent.stage = "none" /\ Absent.spec = None
BY DEF Absent, Ctls, InOrder, Stages

(* A subscription belongs to the resource that is wanted at its position.   *)
LEMMA SubscriptionFacts ==
  ASSUME MetaInv, NEW n \in Name, NEW i \in ctls[n].subs
  PROVE  <<n, i>> \in Subscriptions(Res(n, i)) /\ informers[Res(n, i)] \in Informer
         /\ informers[Res(n, i)] # None /\ Res(n, i) \in Resource
<1>1. i \in Slot /\ Res(n, i) \in Resource
  BY CtlFacts
<1>2. <<n, i>> \in Subscriptions(Res(n, i))
  BY <1>1 DEF Subscriptions, Handler
<1>3. informers[Res(n, i)] # None
  BY <1>1, <1>2 DEF MetaInv, AllCounted, Counted
<1> QED
  BY <1>1, <1>2, <1>3 DEF MetaInv, TypeOK

-----------------------------------------------------------------------------
(* The ways a step changes controllers and informers.                       *)

(* One controller changes; its subscriptions stay and no handler goes.      *)
LEMMA CtlStep ==
  ASSUME MetaInv, NEW n \in Name, NEW new \in Ctls, InOrder(new),
         ctls' = [ctls EXCEPT ![n] = new], UNCHANGED shared,
         new.subs = ctls[n].subs, ctls[n].hand \subseteq new.hand,
         new.spec = ctls[n].spec \/ ctls[n].subs = {},
         \A m \in Name : ticker'[m] # "off" => ticker[m] # "off" \/ (m = n /\ 1 \in new.hand)
  PROVE  /\ ctls' \in [Name -> Ctls]
         /\ AllInOrder' /\ AllCounted' /\ Locked' /\ SilentOnceRemoved'
<1>0. /\ ctls \in [Name -> Ctls] /\ ctls'[n] = new
      /\ \A m \in Name : m # n => ctls'[m] = ctls[m]
      /\ ctls[n].hand \subseteq ctls[n].subs
      /\ UNCHANGED <<informers, refCount>>
  BY CtlFacts DEF shared
<1>1. AllInOrder'
  BY <1>0 DEF MetaInv, AllInOrder, InOrder
<1>2. ASSUME NEW r \in Resource
      PROVE  /\ Subscriptions(r)' = Subscriptions(r)
             /\ HandlersOf(r) \subseteq HandlersOf(r)'
  BY <1>0 DEF Subscriptions, HandlersOf, Res, Handler
<1>3. AllCounted'
  BY <1>0, <1>2 DEF MetaInv, AllCounted, Counted
<1>4. SilentOnceRemoved'
  <2>1. \A r \in Resource : informers'[r] # None => informers'[r].calls \subseteq HandlersOf(r)'
    BY <1>0, <1>2 DEF MetaInv, SilentOnceRemoved
  <2>2. \A m \in Name : ticker'[m] # "off" => 1 \in ctls'[m].hand
    BY <1>0 DEF MetaInv, SilentOnceRemoved
  <2> QED
    BY <2>1, <2>2 DEF SilentOnceRemoved
<1>5. Locked'
  BY <1>0 DEF MetaInv, Locked, Exclusive
<1> QED
  BY <1>0, <1>1, <1>3, <1>4, <1>5

(* Controllers and informers stay as they are. *)
LEMMA FrameStep ==
  ASSUME MetaInv, UNCHANGED <<ctls, shared>>,
         \A n \in Name : ticker'[n] # "off" => ticker[n] # "off"
  PROVE  AllInOrder' /\ AllCounted' /\ Locked' /\ SilentOnceRemoved'
<1>1. \A r \in Resource : /\ Subscriptions(r)' = Subscriptions(r)
                          /\ HandlersOf(r)' = HandlersOf(r)
  BY DEF Subscriptions, HandlersOf, Res
<1>2. AllInOrder'
  BY DEF MetaInv, AllInOrder
<1>3. AllCounted' /\ Locked'
  BY <1>1 DEF MetaInv, AllCounted, Counted, Locked, Exclusive, shared
<1>4. SilentOnceRemoved'
  BY <1>1 DEF MetaInv, SilentOnceRemoved, shared
<1> QED
  BY <1>2, <1>3, <1>4

(* One running informer changes. *)
LEMMA InformerStep ==
  ASSUME MetaInv, NEW r \in Resource, informers[r] # None, NEW new \in Informer,
         informers' = [informers EXCEPT ![r] = new], UNCHANGED <<ctls, refCount, ticker>>,
         new.calls \subseteq HandlersOf(r), Exclusive(new)
  PROVE  /\ informers' \in [Resource -> Informer \union {None}]
         /\ AllInOrder' /\ AllCounted' /\ Locked' /\ SilentOnceRemoved'
<1>0. /\ informers \in [Resource -> Informer \union {None}]
      /\ informers'[r] = new /\ \A q \in Resource : q # r => informers'[q] = informers[q]
  BY DEF MetaInv, TypeOK
<1>1. \A q \in Resource : /\ Subscriptions(q)' = Subscriptions(q)
                          /\ HandlersOf(q)' = HandlersOf(q)
  BY DEF Subscriptions, HandlersOf, Res
<1>2. AllInOrder'
  BY DEF MetaInv, AllInOrder, InOrder
<1>3. new # None
  BY MetacontrollersAssumption
<1>4. AllCounted'
  BY <1>0, <1>1, <1>3 DEF MetaInv, AllCounted, Counted
<1>5. Locked'
  BY <1>0 DEF MetaInv, Locked, Exclusive
<1>6. SilentOnceRemoved'
  BY <1>0, <1>1 DEF MetaInv, SilentOnceRemoved
<1> QED
  BY <1>0, <1>2, <1>4, <1>5, <1>6

LEMMA Assemble ==
  ASSUME RestOK', ctls' \in [Name -> Ctls], informers' \in [Resource -> Informer \union {None}],
         refCount' \in [Resource -> Nat],
         AllInOrder', AllCounted', Locked', SilentOnceRemoved'
  PROVE  MetaInv'
BY DEF MetaInv, TypeOK, RestOK, Ctls

LEMMA Typed ==
  ASSUME MetaInv
  PROVE  /\ RestOK /\ ctls \in [Name -> Ctls]
         /\ informers \in [Resource -> Informer \union {None}] /\ refCount \in [Resource -> Nat]
BY DEF MetaInv, TypeOK, RestOK, Ctls

LEMMA InitInv == Init => MetaInv
<1> SUFFICES ASSUME Init PROVE MetaInv
  OBVIOUS
<1>1. TypeOK
  <2>1. ctls \in [Name -> Ctls]
    BY AbsentFacts DEF Init
  <2>2. seen \in [Name -> [Slot -> BOOLEAN]]
    BY DEF Init, Blind
  <2>3. /\ metas \in [Meta -> [does : {"works", "drains", "closes", "done"},
                              at : Name \union {None}, cr : CRSpec \union {None}]]
        /\ metaQueue \subseteq Name
    BY DEF Init
  <2>4. /\ informers \in [Resource -> Informer \union {None}]
        /\ refCount \in [Resource -> Nat]
    BY DEF Init
  <2>5. crs \in [Name -> CRSpec \union {None}] /\ changes \in 0..MaxChanges
    BY MetacontrollersAssumption DEF Init
  <2>6. /\ known \subseteq Resource /\ objects \in [Resource -> BOOLEAN]
        /\ dirty \subseteq Name /\ ticker \in [Name -> {"off", "waits", "fires"}]
    BY DEF Init
  <2> QED
    BY <2>1, <2>2, <2>3, <2>4, <2>5, <2>6 DEF TypeOK, Ctls
<1>2. \A n \in Name : ctls[n] = Absent
  BY DEF Init
<1>3. AllInOrder
  BY <1>2, AbsentFacts DEF AllInOrder
<1>4. \A r \in Resource : Subscriptions(r) = {}
  BY <1>2, AbsentFacts DEF Subscriptions, Handler
<1>5. AllCounted
  <2>1. IsFiniteSet({}) /\ Cardinality({}) = 0
    BY FS_EmptySet
  <2>2. \A r \in Resource : refCount[r] = 0 /\ informers[r] = None
    BY DEF Init
  <2> QED
    BY <1>4, <2>1, <2>2 DEF AllCounted, Counted
<1>6. Locked /\ SilentOnceRemoved
  BY DEF Locked, SilentOnceRemoved, Init
<1> QED
  BY <1>1, <1>3, <1>5, <1>6 DEF MetaInv

-----------------------------------------------------------------------------
(* Metacontrollers and the world. *)

LEMMA QueueTypes ==
  ASSUME MetaInv, NEW n \in Name
  PROVE  /\ Done(Owner[n]) => metas' \in [Meta -> [does : {"works", "drains", "closes", "done"},
                                 at : Name \union {None}, cr : CRSpec \union {None}]]
         /\ Enqueue(n) => metaQueue' \subseteq Name
<1>1. Done(Owner[n]) => metas' \in [Meta -> [does : {"works", "drains", "closes", "done"},
                                 at : Name \union {None}, cr : CRSpec \union {None}]]
  <2> SUFFICES ASSUME Done(Owner[n])
               PROVE  metas' \in [Meta -> [does : {"works", "drains", "closes", "done"},
                                 at : Name \union {None}, cr : CRSpec \union {None}]]
    OBVIOUS
  <2> DEFINE old == metas[Owner[n]]
             new == [old EXCEPT !.at = None, !.cr = None]
             Record == [does : {"works", "drains", "closes", "done"},
                        at : Name \union {None}, cr : CRSpec \union {None}]
  <2>1. metas \in [Meta -> Record] /\ Owner[n] \in Meta
    BY Typed, CtlFacts DEF RestOK
  <2>2. new \in Record
    BY <2>1
  <2>3. metas' = [metas EXCEPT ![Owner[n]] = new]
    BY <2>1 DEF Done
  <2> HIDE DEF new, old, Record
  <2>4. metas' \in [Meta -> Record]
    BY <2>1, <2>2, <2>3
  <2> QED
    BY <2>4 DEF Record
<1>2. Enqueue(n) => metaQueue' \subseteq Name
  BY Typed DEF Enqueue, RestOK
<1> QED
  BY <1>1, <1>2

(* Nothing happens but to metacontrollers, or in the world.                 *)
LEMMA QuietSteps ==
  ASSUME MetaInv, UNCHANGED <<ctls, shared>>,
         \A n \in Name : ticker'[n] # "off" => ticker[n] # "off", RestOK'
  PROVE  MetaInv'
<1>1. AllInOrder' /\ AllCounted' /\ Locked' /\ SilentOnceRemoved'
  BY FrameStep
<1>2. /\ ctls' \in [Name -> Ctls] /\ refCount' \in [Resource -> Nat]
      /\ informers' \in [Resource -> Informer \union {None}]
  BY Typed DEF shared
<1> QED
  BY <1>1, <1>2, Assemble

LEMMA KeySteps ==
  ASSUME MetaInv, NEW n \in Name, TakeKey(n) \/ NothingToDo(n)
  PROVE  MetaInv'
<1>1. CASE TakeKey(n)
  <2>1. /\ metas' \in [Meta -> [does : {"works", "drains", "closes", "done"},
                               at : Name \union {None}, cr : CRSpec \union {None}]]
        /\ metaQueue' \subseteq Name
    BY <1>1, Typed, CtlFacts DEF TakeKey, RestOK
  <2>2. UNCHANGED <<world, shared, ctlVars, changes>>
    BY <1>1 DEF TakeKey
  <2>3. RestOK'
    BY <2>1, <2>2, Typed DEF RestOK, world, ctlVars
  <2> QED
    BY <2>2, <2>3, QuietSteps DEF ctlVars
<1>2. CASE NothingToDo(n)
  <2>1. UNCHANGED <<world, metaQueue, shared, ctlVars, changes>> /\ Done(Owner[n])
    BY <1>2 DEF NothingToDo
  <2>2. RestOK'
    BY <2>1, Typed, QueueTypes DEF RestOK, world, ctlVars
  <2> QED
    BY <2>1, <2>2, QuietSteps DEF ctlVars
<1> QED
  BY <1>1, <1>2

LEMMA TurnSteps ==
  ASSUME MetaInv, NEW m \in Meta, StopMeta(m) \/ MetaStep(m)
  PROVE  MetaInv'
<1>1. \/ Turns(m, "works", "drains") \/ Turns(m, "drains", "closes")
      \/ Turns(m, "closes", "done")
  BY DEF StopMeta, MetaStep, Drained, MetaStopped
<1>2. metas' \in [Meta -> [does : {"works", "drains", "closes", "done"},
                          at : Name \union {None}, cr : CRSpec \union {None}]]
  <2>1. ASSUME NEW to \in {"works", "drains", "closes", "done"},
               metas' = [metas EXCEPT ![m].does = to]
        PROVE  metas' \in [Meta -> [does : {"works", "drains", "closes", "done"},
                                   at : Name \union {None}, cr : CRSpec \union {None}]]
    BY <2>1, Typed DEF RestOK
  <2> QED
    BY <1>1, <2>1 DEF Turns
<1>3. UNCHANGED <<world, metaQueue, shared, ctlVars, changes>>
  BY <1>1 DEF Turns
<1>4. RestOK'
  BY <1>2, <1>3, Typed DEF RestOK, world, ctlVars
<1> QED
  BY <1>3, <1>4, QuietSteps DEF ctlVars

LEMMA WorldSteps ==
  ASSUME MetaInv, World
  PROVE  MetaInv'
<1>1. ASSUME NEW n \in Name, NEW s \in Versions[n] \union {None}, EditCR(n, s)
      PROVE  MetaInv'
  <2>1. crs' \in [Name -> CRSpec \union {None}]
    BY <1>1, Typed, MetacontrollersAssumption DEF EditCR, RestOK
  <2>2. changes' \in 0..MaxChanges
    BY <1>1, Typed, MetacontrollersAssumption DEF EditCR, RestOK, Changes
  <2>3. Enqueue(n) /\ UNCHANGED <<known, objects, metas, shared, ctlVars>>
    BY <1>1 DEF EditCR
  <2>4. RestOK'
    BY <2>1, <2>2, <2>3, Typed, QueueTypes DEF RestOK, ctlVars
  <2> QED
    BY <2>3, <2>4, QuietSteps DEF ctlVars
<1>2. ASSUME NEW rs \in SUBSET Resource, Discover(rs)
      PROVE  MetaInv'
  <2>1. changes' \in 0..MaxChanges /\ known' = rs
    BY <1>2, Typed, MetacontrollersAssumption DEF Discover, RestOK, Changes
  <2>2. UNCHANGED <<crs, objects, metaVars, shared, ctlVars>>
    BY <1>2 DEF Discover
  <2>3. RestOK'
    BY <2>1, <2>2, Typed DEF RestOK, ctlVars, metaVars
  <2> QED
    BY <2>2, <2>3, QuietSteps DEF ctlVars
<1>3. ASSUME NEW r \in Resource, ObjectChanges(r)
      PROVE  MetaInv'
  <2>1. changes' \in 0..MaxChanges /\ objects' \in [Resource -> BOOLEAN]
    BY <1>3, Typed, MetacontrollersAssumption DEF ObjectChanges, RestOK, Changes
  <2>2. UNCHANGED <<crs, known, metaVars, shared, ctlVars>>
    BY <1>3 DEF ObjectChanges
  <2>3. RestOK'
    BY <2>1, <2>2, Typed DEF RestOK, ctlVars, metaVars
  <2> QED
    BY <2>2, <2>3, QuietSteps DEF ctlVars
<1> QED
  BY <1>1, <1>2, <1>3 DEF World

-----------------------------------------------------------------------------
(* One controller, whose subscriptions stay.                                *)

(* What a controller is when it has gone on to another stage.               *)
After(ctl, new) ==
  /\ new \in Ctls
  /\ new.stage \in {"fails", "runs", "halts", "releases"}
  /\ new.stage = "fails" => ctl.hand = {}
  /\ new.spec = ctl.spec /\ new.subs = ctl.subs /\ new.hand = ctl.hand

LEMMA AfterInOrder ==
  ASSUME NEW ctl \in Ctls, InOrder(ctl), ctl.stage # "none", NEW new, After(ctl, new)
  PROVE  InOrder(new)
BY DEF After, InOrder

LEMMA OneCtl ==
  ASSUME MetaInv, NEW n \in Name, NEW new \in Ctls, InOrder(new),
         ctls' = [ctls EXCEPT ![n] = new], UNCHANGED shared, RestOK',
         new.subs = ctls[n].subs, ctls[n].hand \subseteq new.hand,
         new.spec = ctls[n].spec \/ ctls[n].subs = {},
         \A m \in Name : ticker'[m] # "off" => ticker[m] # "off" \/ (m = n /\ 1 \in new.hand)
  PROVE  MetaInv'
<1>1. ctls' \in [Name -> Ctls] /\ AllInOrder' /\ AllCounted' /\ Locked' /\ SilentOnceRemoved'
  BY CtlStep
<1>2. refCount' \in [Resource -> Nat] /\ informers' \in [Resource -> Informer \union {None}]
  BY Typed DEF shared
<1> QED
  BY <1>1, <1>2, Assemble

(* It goes on to a later stage, and otherwise stays as it is.               *)
LEMMA GoesOn ==
  ASSUME MetaInv, NEW n \in Name, ctls[n].stage # "none", NEW new, After(ctls[n], new),
         ctls' = [ctls EXCEPT ![n] = new], UNCHANGED <<shared, ticker>>, RestOK'
  PROVE  MetaInv'
<1>1. ctls[n] \in Ctls /\ InOrder(ctls[n])
  BY CtlFacts
<1>2. new \in Ctls /\ InOrder(new)
  BY <1>1, AfterInOrder DEF After
<1> QED
  BY <1>2, OneCtl DEF After

(* The old controller is gone, and has left no subscription.                *)
LEMMA Vanishes ==
  ASSUME MetaInv, NEW n \in Name, ctls[n].subs = {},
         ctls' = [ctls EXCEPT ![n] = Absent], UNCHANGED <<shared, ticker>>, RestOK'
  PROVE  MetaInv'
<1>1. ctls[n].hand = {}
  BY CtlFacts
<1>2. /\ Absent \in Ctls /\ InOrder(Absent)
      /\ Absent.subs = ctls[n].subs /\ ctls[n].hand \subseteq Absent.hand
  BY <1>1, AbsentFacts
<1> QED
  BY <1>2, OneCtl

LEMMA StageSteps ==
  ASSUME MetaInv, NEW n \in Name,
         Halt(n) \/ Started(n) \/ StartWorkers(n) \/ Halted(n) \/ Undone(n) \/ Stopped(n)
  PROVE  MetaInv'
<1>0. ctls \in [Name -> Ctls] /\ ctls[n] \in Ctls
  BY CtlFacts
<1>1. CASE Halt(n)
  <2> DEFINE new == [ctls[n] EXCEPT !.stage = "halts"]
  <2>0. ctls' = [ctls EXCEPT ![n] = new] /\ ctls[n].stage # "none"
    BY <1>0, <1>1 DEF Halt
  <2>1. After(ctls[n], new)
    BY <1>0, <1>1 DEF Halt, After, Ctls, Stages
  <2>2. UNCHANGED <<world, metaVars, shared, dirty, seen, ticker, changes>>
    BY <1>1 DEF Halt
  <2>3. RestOK'
    BY <2>2, Typed DEF RestOK, world, metaVars
  <2> HIDE DEF new
  <2> QED
    BY <2>0, <2>1, <2>2, <2>3, GoesOn
<1>2. CASE Started(n)
  <2> DEFINE new == [ctls[n] EXCEPT !.stage = "runs"]
  <2>0. ctls' = [ctls EXCEPT ![n] = new] /\ ctls[n].stage # "none"
    BY <1>0, <1>2 DEF Started
  <2>1. After(ctls[n], new)
    BY <1>0, <1>2 DEF Started, After, Ctls, Stages
  <2>2. Done(Owner[n]) /\ UNCHANGED <<world, metaQueue, shared, dirty, seen, ticker, changes>>
    BY <1>2 DEF Started
  <2>3. RestOK'
    BY <2>2, Typed, QueueTypes DEF RestOK, world
  <2> HIDE DEF new
  <2> QED
    BY <2>0, <2>1, <2>2, <2>3, GoesOn
<1>3. CASE StartWorkers(n)
  <2> DEFINE new == [ctls[n] EXCEPT !.works = TRUE]
  <2>0. ctls' = [ctls EXCEPT ![n] = new] /\ ctls[n].stage # "none"
    BY <1>0, <1>3 DEF StartWorkers
  <2>1. After(ctls[n], new)
    BY <1>0, <1>3 DEF StartWorkers, After, Ctls, Stages
  <2>2. UNCHANGED <<world, metaVars, shared, dirty, seen, ticker, changes>>
    BY <1>3 DEF StartWorkers
  <2>3. RestOK'
    BY <2>2, Typed DEF RestOK, world, metaVars
  <2> HIDE DEF new
  <2> QED
    BY <2>0, <2>1, <2>2, <2>3, GoesOn
<1>4. CASE Halted(n)
  <2> DEFINE new == [ctls[n] EXCEPT !.stage = "releases", !.works = FALSE]
  <2>0. ctls' = [ctls EXCEPT ![n] = new] /\ ctls[n].stage # "none"
    BY <1>0, <1>4 DEF Halted
  <2>1. After(ctls[n], new)
    BY <1>0, <1>4 DEF Halted, After, Ctls, Stages
  <2>2. /\ UNCHANGED <<world, metaVars, shared, seen, ticker, changes>>
        /\ dirty' = dirty \ {n}
    BY <1>4 DEF Halted
  <2>3. RestOK'
    BY <2>2, Typed DEF RestOK, world, metaVars
  <2> HIDE DEF new
  <2> QED
    BY <2>0, <2>1, <2>2, <2>3, GoesOn
<1>5. CASE Undone(n)
  <2>1. /\ ctls[n].subs = {} /\ ctls' = [ctls EXCEPT ![n] = Absent]
        /\ UNCHANGED <<world, shared, dirty, seen, ticker, changes>>
        /\ Done(Owner[n]) /\ Enqueue(n)
    BY <1>5 DEF Undone, Retry
  <2>2. RestOK'
    BY <2>1, Typed, QueueTypes DEF RestOK, world
  <2> QED
    BY <2>1, <2>2, Vanishes
<1>6. CASE Stopped(n)
  <2>1. /\ ctls[n].subs = {} /\ ctls' = [ctls EXCEPT ![n] = Absent]
        /\ UNCHANGED <<world, metaVars, shared, dirty, ticker, changes>>
        /\ seen' = [seen EXCEPT ![n] = Blind]
    BY <1>6 DEF Stopped
  <2>2. RestOK'
    BY <2>1, Typed DEF RestOK, world, metaVars, Blind
  <2> QED
    BY <2>1, <2>2, Vanishes
<1> QED
  BY <1>1, <1>2, <1>3, <1>4, <1>5, <1>6

(* A new controller starts without subscriptions: with the first none of    *)
(* those it wants.                                                          *)
LEMMA ConstructStep ==
  ASSUME MetaInv, NEW n \in Name, Construct(n)
  PROVE  MetaInv'
<1>0. /\ ctls \in [Name -> Ctls] /\ ctls[n] = Absent /\ Owner[n] \in Meta
      /\ UNCHANGED <<world, shared, dirty, seen, ticker, changes>>
  BY CtlFacts DEF Construct, InOrder
<1>1. CASE /\ ctls' = [ctls EXCEPT ![n].stage = "subscribes", ![n].spec = Listed(n)]
           /\ UNCHANGED metaVars
  <2> DEFINE new == [Absent EXCEPT !.stage = "subscribes", !.spec = Listed(n)]
  <2>1. Listed(n) \in CRSpec
    BY <1>0, Typed DEF Construct, Listed, RestOK
  <2>2. new \in Ctls
    BY <2>1 DEF Absent, Ctls, Stages
  <2>3. /\ new.stage = "subscribes" /\ new.spec = Listed(n) /\ new.subs = {} /\ new.hand = {}
        /\ Absent.subs = {} /\ Absent.hand = {}
    BY DEF Absent
  <2>4. ctls' = [ctls EXCEPT ![n] = new]
    BY <1>0, <1>1 DEF Absent
  <2> HIDE DEF new
  <2>5. InOrder(new)
    <3>1. Len(Wants[new.spec]) \in Nat \ {0} /\ {} = 1..0
      BY <2>1, <2>3, WantsFacts
    <3>2. 0 \in 0..(Len(Wants[new.spec]) - 1) /\ new.subs = 1..0
      BY <2>3, <3>1
    <3> QED
      BY <2>1, <2>3, <3>2 DEF InOrder
  <2>6. RestOK'
    BY <1>0, <1>1, Typed DEF RestOK, world, metaVars
  <2> QED
    BY <1>0, <2>2, <2>3, <2>4, <2>5, <2>6, OneCtl
<1>2. CASE Retry(n) /\ UNCHANGED ctls
  <2>1. RestOK'
    BY <1>0, <1>2, Typed, QueueTypes DEF Retry, RestOK, world
  <2> QED
    BY <1>0, <1>2, <2>1, QuietSteps
<1> QED
  BY <1>1, <1>2 DEF Construct

(* A handler is added where there is a subscription.                        *)
LEMMA WakeTypes ==
  ASSUME MetaInv, NEW n \in Name
  PROVE  /\ Wake(n) => dirty' \subseteq Name
         /\ ParentResync(n) => dirty' \subseteq Name
<1>1. Wake(n) => dirty' \subseteq Name
  BY Typed DEF RestOK, Wake
<1>2. UNCHANGED dirty => dirty' \subseteq Name
  BY Typed DEF RestOK
<1> QED
  BY <1>1, <1>2 DEF ParentResync

LEMMA AddHandlerStep ==
  ASSUME MetaInv, NEW n \in Name, NEW i \in Slot, AddHandler(n, i)
  PROVE  MetaInv'
<1>0. /\ ctls \in [Name -> Ctls] /\ ctls[n] \in Ctls /\ InOrder(ctls[n])
      /\ ctls[n].stage = "starts" /\ UNCHANGED <<world, metaVars, shared, seen, changes>>
      /\ i \in Heard[ctls[n].spec]
  BY CtlFacts DEF AddHandler
<1>1. i \in ctls[n].subs
  BY <1>0, WantsFacts DEF InOrder
<1> DEFINE new == [ctls[n] EXCEPT !.hand = @ \union {i}]
<1>2. /\ new \in Ctls /\ new.stage = ctls[n].stage /\ new.subs = ctls[n].subs
      /\ new.spec = ctls[n].spec /\ new.hand = ctls[n].hand \union {i}
      /\ ctls' = [ctls EXCEPT ![n] = new]
  BY <1>0 DEF Ctls, AddHandler
<1> HIDE DEF new
<1>3. InOrder(new)
  BY <1>0, <1>1, <1>2 DEF InOrder
<1>4. dirty' \subseteq Name
  <2>1. UNCHANGED dirty => dirty' \subseteq Name
    BY Typed DEF RestOK
  <2> QED
    BY <2>1, WakeTypes DEF AddHandler, FirstResync
<1>5. CASE i = 1 /\ ctls[n].spec \in Ticking
  <2>1. ticker' = [ticker EXCEPT ![n] = "waits"]
    BY <1>5 DEF AddHandler
  <2>2. RestOK'
    BY <1>0, <1>4, <2>1, Typed DEF RestOK, world, metaVars
  <2>3. \A m \in Name : ticker'[m] # "off" => ticker[m] # "off" \/ (m = n /\ 1 \in new.hand)
    BY <1>2, <1>5, <2>1
  <2> QED
    BY <1>0, <1>2, <1>3, <2>2, <2>3, OneCtl
<1>6. CASE ~(i = 1 /\ ctls[n].spec \in Ticking)
  <2>1. UNCHANGED ticker
    BY <1>6 DEF AddHandler
  <2>2. RestOK'
    BY <1>0, <1>4, <2>1, Typed DEF RestOK, world, metaVars
  <2> QED
    BY <1>0, <1>2, <1>3, <2>1, <2>2, OneCtl
<1> QED
  BY <1>5, <1>6

-----------------------------------------------------------------------------
(* Subscriptions come and go, and the factory counts.                       *)

(* All but one informer, and what belongs to it, stay as they are.          *)
LEMMA SubsStep ==
  ASSUME MetaInv, NEW n \in Name, NEW r \in Resource, NEW new \in Ctls, InOrder(new),
         ctls' = [ctls EXCEPT ![n] = new], new.spec = ctls[n].spec,
         new.hand = ctls[n].hand, RestOK', UNCHANGED ticker,
         \A j \in Slot : Res(n, j) # r => (j \in new.subs <=> j \in ctls[n].subs),
         NEW count \in Nat, NEW informer \in Informer \union {None},
         refCount' = [refCount EXCEPT ![r] = count],
         informers' = [informers EXCEPT ![r] = informer],
         informer # None => informer = informers[r] \/ informer = NewInformer,
         Counted(r)'
  PROVE  MetaInv'
<1>0. /\ ctls \in [Name -> Ctls] /\ ctls'[n] = new
      /\ \A m \in Name : m # n => ctls'[m] = ctls[m]
      /\ informers \in [Resource -> Informer \union {None}] /\ refCount \in [Resource -> Nat]
      /\ informers'[r] = informer
      /\ \A q \in Resource : q # r => informers'[q] = informers[q] /\ refCount'[q] = refCount[q]
  BY Typed
<1>1. AllInOrder'
  BY <1>0 DEF MetaInv, AllInOrder
<1>2. \A q \in Resource : HandlersOf(q)' = HandlersOf(q)
  BY <1>0 DEF HandlersOf, Res, Handler
<1>3. \A q \in Resource : q # r => Subscriptions(q)' = Subscriptions(q)
  BY <1>0 DEF Subscriptions, Res, Handler
<1>4. AllCounted'
  BY <1>0, <1>3 DEF MetaInv, AllCounted, Counted
<1>5. NewInformer.calls = {}
  BY DEF NewInformer
<1>6. Locked'
  <2>1. \A q \in Resource : q # r => (informers'[q] # None => Exclusive(informers'[q]))
    BY <1>0 DEF MetaInv, Locked
  <2>2. informer # None => Exclusive(informer)
    BY <1>5 DEF MetaInv, Locked, Exclusive
  <2> QED
    BY <1>0, <2>1, <2>2 DEF Locked, Exclusive
<1>7. SilentOnceRemoved'
  <2>1. \A q \in Resource : q # r =>
          (informers'[q] # None => informers'[q].calls \subseteq HandlersOf(q)')
    BY <1>0, <1>2 DEF MetaInv, SilentOnceRemoved
  <2>2. informer # None => informer.calls \subseteq HandlersOf(r)'
    BY <1>2, <1>5 DEF MetaInv, SilentOnceRemoved
  <2>3. \A m \in Name : ticker'[m] # "off" => 1 \in ctls'[m].hand
    BY <1>0 DEF MetaInv, SilentOnceRemoved
  <2> QED
    BY <1>0, <2>1, <2>2, <2>3 DEF SilentOnceRemoved
<1>8. /\ ctls' \in [Name -> Ctls] /\ refCount' \in [Resource -> Nat]
      /\ informers' \in [Resource -> Informer \union {None}]
  BY <1>0
<1> QED
  BY <1>1, <1>4, <1>6, <1>7, <1>8, Assemble

LEMMA Subscribed ==
  ASSUME MetaInv, NEW n \in Name, NEW r \in Resource, NEW i \in Slot,
         i \notin ctls[n].subs, Res(n, i) = r, NEW new \in Ctls,
         ctls' = [ctls EXCEPT ![n] = new], new.spec = ctls[n].spec,
         new.subs = ctls[n].subs \union {i},
         refCount' = [refCount EXCEPT ![r] = @ + 1], informers'[r] # None
  PROVE  Counted(r)'
<1>0. /\ ctls \in [Name -> Ctls] /\ refCount[r] \in Nat
      /\ refCount'[r] = refCount[r] + 1
      /\ ctls'[n] = new /\ \A m \in Name : m # n => ctls'[m] = ctls[m]
  BY Typed
<1>1. Subscriptions(r)' = Subscriptions(r) \union {<<n, i>>}
  BY <1>0 DEF Subscriptions, Res, Handler
<1>2. <<n, i>> \notin Subscriptions(r)
  BY DEF Subscriptions
<1>3. IsFiniteSet(Subscriptions(r)) /\ refCount[r] = Cardinality(Subscriptions(r))
  BY DEF MetaInv, AllCounted, Counted
<1>4. /\ IsFiniteSet(Subscriptions(r) \union {<<n, i>>})
      /\ Cardinality(Subscriptions(r) \union {<<n, i>>}) = Cardinality(Subscriptions(r)) + 1
  BY <1>2, <1>3, FS_AddElement
<1>5. IsFiniteSet(Subscriptions(r)') /\ refCount'[r] = Cardinality(Subscriptions(r)')
  BY <1>0, <1>1, <1>3, <1>4
<1> QED
  BY <1>1, <1>5 DEF Counted

LEMMA SubscribeStep ==
  ASSUME MetaInv, NEW n \in Name, Subscribe(n)
  PROVE  MetaInv'
<1> DEFINE wanted == Len(Wants[ctls[n].spec])
<1>0. /\ ctls \in [Name -> Ctls] /\ ctls[n] \in Ctls /\ InOrder(ctls[n])
      /\ ctls[n].stage = "subscribes" /\ ctls[n].spec \in CRSpec /\ ctls[n].hand = {}
      /\ UNCHANGED <<world, metaVars, dirty, seen, ticker, changes>>
  BY CtlFacts DEF Subscribe, InOrder
<1>1. wanted \in Nat \ {0} /\ DOMAIN Wants[ctls[n].spec] = 1..wanted
  BY <1>0, WantsFacts
<1>2. PICK k \in 0..(wanted - 1) : ctls[n].subs = 1..k
  BY <1>0 DEF InOrder
<1> DEFINE i == k + 1
<1>3. Cardinality(ctls[n].subs) + 1 = i
  <2>1. Cardinality(1..k) = k
    BY <1>1, <1>2, FS_Interval
  <2> QED
    BY <1>2, <2>1
<1>4. RestOK'
  BY <1>0, Typed DEF RestOK, world, metaVars
<1> HIDE DEF i, wanted
<1>5. /\ i \in 1..wanted /\ i \in Slot /\ i \notin ctls[n].subs
      /\ ctls[n].subs \union {i} = 1..(k + 1)
  BY <1>0, <1>1, <1>2, WantsFacts DEF i
<1>6. PICK r \in Resource : r = Res(n, i)
  BY <1>0, <1>1, <1>5, WantsFacts DEF Res
<1>7. CASE CanGet(r)
  <2> DEFINE new == [ctls[n] EXCEPT !.subs = @ \union {i},
                                    !.stage = IF i = wanted THEN "starts" ELSE @]
             informer == IF informers[r] = None THEN NewInformer ELSE informers[r]
             count == refCount[r] + 1
  <2>1. /\ GetOrCreate(r)
        /\ ctls' = [ctls EXCEPT ![n].subs = @ \union {i},
                                ![n].stage = IF i = wanted THEN "starts" ELSE @]
    BY <1>3, <1>6, <1>7 DEF Subscribe, wanted
  <2>2. ctls' = [ctls EXCEPT ![n] = new]
    BY <1>0, <2>1 DEF Ctls
  <2>3. /\ new \in Ctls /\ new.spec = ctls[n].spec /\ new.hand = ctls[n].hand
        /\ new.subs = ctls[n].subs \union {i}
        /\ new.stage = IF i = wanted THEN "starts" ELSE ctls[n].stage
    BY <1>0, <1>5 DEF Ctls, Stages
  <2> HIDE DEF new
  <2>4. InOrder(new)
    <3>1. new.subs \subseteq DOMAIN Wants[new.spec] /\ new.hand = {}
      BY <1>0, <1>1, <1>2, <1>5, <2>3
    <3>2. CASE i = wanted
      <4>1. new.subs = DOMAIN Wants[new.spec] /\ new.stage = "starts"
        BY <1>1, <1>5, <2>3, <3>2 DEF i
      <4> QED
        BY <1>0, <2>3, <3>1, <4>1 DEF InOrder
    <3>3. CASE i # wanted
      <4>1. new.stage = "subscribes"
        BY <1>0, <2>3, <3>3
      <4>2. k + 1 \in 0..(Len(Wants[new.spec]) - 1) /\ new.subs = 1..(k + 1)
        BY <1>1, <1>2, <1>5, <2>3, <3>3 DEF wanted, i
      <4> QED
        BY <1>0, <2>3, <3>1, <4>1, <4>2 DEF InOrder
    <3> QED
      BY <3>2, <3>3
  <2>5. /\ informers \in [Resource -> Informer \union {None}] /\ refCount \in [Resource -> Nat]
    BY Typed
  <2>6. informer \in Informer /\ informer # None
    BY <1>6, <2>5, MetacontrollersAssumption DEF NewInformer, Informer
  <2>7. informer = informers[r] \/ informer = NewInformer
    OBVIOUS
  <2>8. /\ refCount' = [refCount EXCEPT ![r] = count] /\ count \in Nat
        /\ informers' = [informers EXCEPT ![r] = informer]
    BY <1>6, <2>1, <2>5 DEF GetOrCreate
  <2> HIDE DEF informer
  <2>9. Counted(r)'
    <3>1. informers'[r] # None
      BY <2>5, <2>6, <2>8
    <3>2. refCount' = [refCount EXCEPT ![r] = @ + 1]
      BY <2>1 DEF GetOrCreate
    <3> QED
      BY <1>5, <1>6, <2>2, <2>3, <3>1, <3>2, Subscribed
  <2>10. \A j \in Slot : Res(n, j) # r => (j \in new.subs <=> j \in ctls[n].subs)
    BY <1>6, <2>3
  <2> HIDE DEF count
  <2> QED
    BY <1>0, <1>4, <2>2, <2>3, <2>4, <2>6, <2>7, <2>8, <2>9, <2>10, SubsStep
<1>8. CASE ~CanGet(r)
  <2> DEFINE new == [ctls[n] EXCEPT !.stage = "fails"]
  <2>1. ctls' = [ctls EXCEPT ![n] = new] /\ UNCHANGED shared
    BY <1>0, <1>3, <1>6, <1>8 DEF Subscribe
  <2>2. After(ctls[n], new)
    BY <1>0 DEF After, Ctls, Stages
  <2> HIDE DEF new
  <2> QED
    BY <1>0, <1>4, <2>1, <2>2, GoesOn
<1> QED
  BY <1>7, <1>8

(* What closing a subscription leaves of the informer and its count.        *)
Left(r) ==
  /\ \E count \in Nat : refCount' = [refCount EXCEPT ![r] = count]
  /\ \E informer \in {informers[r], None} :
       informers' = [informers EXCEPT ![r] = informer]

LEMMA Closed ==
  ASSUME MetaInv, NEW n \in Name, NEW r \in Resource, NEW i \in ctls[n].subs, Res(n, i) = r,
         NEW new \in Ctls, ctls' = [ctls EXCEPT ![n] = new], new.spec = ctls[n].spec,
         new.subs = ctls[n].subs \ {i}, Close(r)
  PROVE  Counted(r)' /\ Left(r)
<1>0. /\ ctls \in [Name -> Ctls] /\ refCount \in [Resource -> Nat]
      /\ informers \in [Resource -> Informer \union {None}]
      /\ ctls'[n] = new /\ \A m \in Name : m # n => ctls'[m] = ctls[m]
      /\ i \in Slot
  BY Typed, CtlFacts
<1> DEFINE old == Subscriptions(r)
           rest == Subscriptions(r) \ {<<n, i>>}
<1>1. Subscriptions(r)' = rest
  BY <1>0 DEF Subscriptions, Res, Handler
<1>2. <<n, i>> \in old
  BY <1>0 DEF Subscriptions, Handler
<1>3. /\ IsFiniteSet(old) /\ refCount[r] = Cardinality(old)
      /\ informers[r] # None <=> old # {}
  BY DEF MetaInv, AllCounted, Counted
<1> HIDE DEF old
<1>4. IsFiniteSet(rest) /\ Cardinality(rest) = Cardinality(old) - 1
  BY <1>2, <1>3, FS_RemoveElement DEF old
<1>5. Cardinality(rest) \in Nat /\ (Cardinality(rest) = 0 <=> rest = {})
  BY <1>4, FS_CardinalityType, FS_EmptySet
<1> HIDE DEF rest
<1>6. CASE refCount[r] > 1
  <2>1. refCount' = [refCount EXCEPT ![r] = refCount[r] - 1] /\ UNCHANGED informers
    BY <1>6 DEF Close
  <2>2. refCount[r] - 1 \in Nat
    BY <1>0, <1>6
  <2>3. informers' = [informers EXCEPT ![r] = informers[r]]
    BY <1>0, <2>1
  <2>4. refCount'[r] = Cardinality(rest) /\ rest # {} /\ informers'[r] # None
    BY <1>0, <1>2, <1>3, <1>4, <1>5, <1>6, <2>1
  <2>5. Counted(r)'
    BY <1>1, <1>4, <2>4 DEF Counted
  <2> QED
    BY <2>1, <2>2, <2>3, <2>5 DEF Left
<1>7. CASE ~(refCount[r] > 1)
  <2>1. /\ refCount' = [refCount EXCEPT ![r] = 0]
        /\ informers' = [informers EXCEPT ![r] = None]
    BY <1>7 DEF Close, StopInformer
  <2>2. Cardinality(rest) = 0
    BY <1>0, <1>3, <1>4, <1>5, <1>7
  <2>3. refCount'[r] = 0 /\ informers'[r] = None
    BY <1>0, <2>1
  <2>4. Counted(r)'
    BY <1>1, <1>4, <1>5, <2>2, <2>3 DEF Counted
  <2> QED
    BY <2>1, <2>4 DEF Left
<1> QED
  BY <1>6, <1>7

LEMMA CloseSteps ==
  ASSUME MetaInv, NEW n \in Name, NEW i \in Slot, Undo(n, i) \/ CloseInformer(n, i)
  PROVE  MetaInv'
<1>0. /\ ctls \in [Name -> Ctls] /\ ctls[n] \in Ctls /\ InOrder(ctls[n])
      /\ CloseSub(n, i) /\ i \in ctls[n].subs /\ i \notin ctls[n].hand
      /\ ctls[n].stage \in {"fails", "releases"}
  BY CtlFacts DEF Undo, CloseInformer, IsNextToClose, InOrder
<1>1. PICK r \in Resource : r = Res(n, i)
  BY <1>0, CtlFacts
<1> DEFINE new == [ctls[n] EXCEPT !.subs = @ \ {i}]
<1>2. /\ Close(r) /\ ctls' = [ctls EXCEPT ![n] = new]
      /\ UNCHANGED <<world, metaVars, dirty, seen, ticker, changes>>
  BY <1>0, <1>1 DEF CloseSub
<1>3. /\ new \in Ctls /\ new.spec = ctls[n].spec /\ new.hand = ctls[n].hand
      /\ new.subs = ctls[n].subs \ {i} /\ new.stage = ctls[n].stage
  BY <1>0 DEF Ctls
<1> HIDE DEF new
<1>4. InOrder(new)
  BY <1>0, <1>3 DEF InOrder
<1>5. RestOK'
  BY <1>2, Typed DEF RestOK, world, metaVars
<1>6. Counted(r)' /\ Left(r)
  BY <1>0, <1>1, <1>2, <1>3, Closed
<1>7. PICK count \in Nat : refCount' = [refCount EXCEPT ![r] = count]
  BY <1>6 DEF Left
<1>8. PICK informer \in {informers[r], None} : informers' = [informers EXCEPT ![r] = informer]
  BY <1>6 DEF Left
<1>9. informer \in Informer \union {None} /\ (informer # None => informer = informers[r])
  BY Typed
<1>10. \A j \in Slot : Res(n, j) # r => (j \in new.subs <=> j \in ctls[n].subs)
  BY <1>1, <1>3
<1> QED
  BY <1>2, <1>3, <1>4, <1>5, <1>6, <1>7, <1>8, <1>9, <1>10, SubsStep

-----------------------------------------------------------------------------
(* A running informer, its lock and the calls of its handlers.              *)

LEMMA OneInformer ==
  ASSUME MetaInv, NEW r \in Resource, informers[r] # None, NEW new \in Informer,
         informers' = [informers EXCEPT ![r] = new], UNCHANGED <<ctls, refCount, ticker>>,
         new.calls \subseteq HandlersOf(r), Exclusive(new), RestOK'
  PROVE  MetaInv'
<1>1. /\ informers' \in [Resource -> Informer \union {None}]
      /\ AllInOrder' /\ AllCounted' /\ Locked' /\ SilentOnceRemoved'
  BY InformerStep
<1>2. ctls' \in [Name -> Ctls] /\ refCount' \in [Resource -> Nat]
  BY Typed
<1> QED
  BY <1>1, <1>2, Assemble

LEMMA RunningFacts ==
  ASSUME MetaInv, NEW r \in Resource, informers[r] # None
  PROVE  /\ informers[r] \in Informer /\ informers[r].calls \subseteq HandlersOf(r)
         /\ HandlersOf(r) \subseteq Handler /\ Exclusive(informers[r])
         /\ objects[r] \in BOOLEAN
<1>1. informers[r] \in Informer /\ objects[r] \in BOOLEAN
  BY Typed DEF RestOK
<1>2. informers[r].calls \subseteq HandlersOf(r) /\ Exclusive(informers[r])
  BY DEF MetaInv, SilentOnceRemoved, Locked
<1>3. HandlersOf(r) \subseteq Handler
  BY DEF HandlersOf
<1> QED
  BY <1>1, <1>2, <1>3

LEMMA ReflectSteps ==
  ASSUME MetaInv, NEW r \in Resource, Reflect(r)
  PROVE  MetaInv'
<1>0. informers[r] # None /\ UNCHANGED <<world, metaVars, refCount, ctlVars, changes>>
  BY DEF Reflect, List, WatchEvent
<1>1. RestOK'
  BY <1>0, Typed DEF RestOK, world, metaVars, ctlVars
<1>2. informers \in [Resource -> Informer \union {None}] /\ informers[r] \in Informer
  BY <1>0, Typed
<1>3. ASSUME NEW new \in Informer, informers' = [informers EXCEPT ![r] = new],
             new.calls = informers[r].calls, new.writer = informers[r].writer
      PROVE  MetaInv'
  <2>1. new.calls \subseteq HandlersOf(r) /\ Exclusive(new)
    BY <1>0, <1>3, RunningFacts DEF Exclusive
  <2> QED
    BY <1>0, <1>1, <1>3, <2>1, OneInformer DEF ctlVars
<1>4. CASE List(r)
  <2> DEFINE new == [informers[r] EXCEPT !.listed = TRUE, !.cache = objects[r],
                                         !.pending = objects[r]]
  <2>1. /\ new \in Informer /\ new.calls = informers[r].calls
        /\ new.writer = informers[r].writer
    BY <1>0, <1>2, RunningFacts DEF Informer
  <2>2. informers' = [informers EXCEPT ![r] = new]
    BY <1>2, <1>4 DEF List, Informer
  <2> HIDE DEF new
  <2> QED
    BY <1>3, <2>1, <2>2
<1>5. CASE WatchEvent(r)
  <2> DEFINE new == [informers[r] EXCEPT !.cache = objects[r], !.pending = TRUE]
  <2>1. /\ new \in Informer /\ new.calls = informers[r].calls
        /\ new.writer = informers[r].writer
    BY <1>0, <1>2, RunningFacts DEF Informer
  <2>2. informers' = [informers EXCEPT ![r] = new]
    BY <1>2, <1>5 DEF WatchEvent, Informer
  <2> HIDE DEF new
  <2> QED
    BY <1>3, <2>1, <2>2
<1> QED
  BY <1>4, <1>5 DEF Reflect

(* The read lock is taken for a broadcast only if nobody removes a handler, *)
(* and the write lock for a removal only if nobody is called.               *)
LEMMA DispatchSteps ==
  ASSUME MetaInv, NEW r \in Resource, Dispatch(r)
  PROVE  MetaInv'
<1>0. informers[r] # None /\ UNCHANGED <<world, metaVars, refCount, ctls, seen, ticker, changes>>
  BY DEF Dispatch, BeginDispatch, CallHandler, ctlVars
<1>1. informers \in [Resource -> Informer \union {None}] /\ informers[r] \in Informer
  BY <1>0, Typed
<1>2. CASE BeginDispatch(r)
  <2> DEFINE new == [informers[r] EXCEPT !.pending = FALSE, !.calls = HandlersOf(r)]
  <2>1. /\ new \in Informer /\ new.calls = HandlersOf(r)
        /\ new.writer = informers[r].writer
    BY <1>0, <1>1, RunningFacts DEF Informer
  <2>2. informers' = [informers EXCEPT ![r] = new]
    BY <1>1, <1>2 DEF BeginDispatch, Informer
  <2> HIDE DEF new
  <2>3. Exclusive(new)
    BY <1>2, <2>1 DEF BeginDispatch, Unlocked, Exclusive
  <2>4. UNCHANGED dirty
    BY <1>2 DEF BeginDispatch, ctlVars
  <2>5. RestOK'
    BY <1>0, <2>4, Typed DEF RestOK, world, metaVars
  <2> QED
    BY <1>0, <2>1, <2>2, <2>3, <2>5, OneInformer
<1>3. ASSUME NEW h \in Handler, CallHandler(r, h)
      PROVE  MetaInv'
  <2> DEFINE new == [informers[r] EXCEPT !.calls = @ \ {h}]
  <2>1. /\ new \in Informer /\ new.calls = informers[r].calls \ {h}
        /\ new.writer = informers[r].writer
    BY <1>1 DEF Informer
  <2>2. informers' = [informers EXCEPT ![r] = new]
    BY <1>1, <1>3 DEF CallHandler
  <2> HIDE DEF new
  <2>3. Exclusive(new) /\ new.calls \subseteq HandlersOf(r)
    BY <1>0, <2>1, RunningFacts DEF Exclusive
  <2>4. (Wake(h[1]) \/ UNCHANGED dirty) /\ h[1] \in Name
    BY <1>3 DEF CallHandler, Handler
  <2>5. dirty' \subseteq Name
    BY <2>4, WakeTypes, Typed DEF RestOK
  <2>6. RestOK'
    BY <1>0, <2>5, Typed DEF RestOK, world, metaVars
  <2> QED
    BY <1>0, <2>1, <2>2, <2>3, <2>6, OneInformer
<1> QED
  BY <1>2, <1>3 DEF Dispatch

LEMMA RemoveHandlerStep ==
  ASSUME MetaInv, NEW n \in Name, NEW i \in Slot, RemoveHandler(n, i)
  PROVE  MetaInv'
<1>0. i \in ctls[n].subs /\ UNCHANGED <<world, metaVars, refCount, ctlVars, changes>>
  BY DEF RemoveHandler, IsNextToClose
<1>1. PICK r \in Resource : r = Res(n, i)
  BY <1>0, CtlFacts
<1>2. informers \in [Resource -> Informer \union {None}] /\ informers[r] \in Informer
      /\ informers[r] # None
  BY <1>0, <1>1, SubscriptionFacts, Typed
<1>3. informers[r].calls = {}
  BY <1>1 DEF RemoveHandler, LockHandlers, Unlocked
<1> DEFINE new == [informers[r] EXCEPT !.writer = <<n, i>>]
<1>4. new \in Informer /\ new.calls = {}
  BY <1>2, <1>3 DEF Informer, Handler
<1>5. informers' = [informers EXCEPT ![r] = new]
  BY <1>1, <1>2 DEF RemoveHandler
<1> HIDE DEF new
<1>6. RestOK'
  BY <1>0, Typed DEF RestOK, world, metaVars, ctlVars
<1>7. new.calls \subseteq HandlersOf(r) /\ Exclusive(new)
  BY <1>4 DEF Exclusive
<1> QED
  BY <1>0, <1>2, <1>4, <1>5, <1>6, <1>7, OneInformer DEF ctlVars

(* A handler goes while nobody is called; its ticker has ended.             *)
LEMMA HandlerRemovedStep ==
  ASSUME MetaInv, NEW n \in Name, NEW i \in Slot, HandlerRemoved(n, i)
  PROVE  MetaInv'
<1>0. /\ ctls \in [Name -> Ctls] /\ ctls[n] \in Ctls /\ InOrder(ctls[n])
      /\ i \in ctls[n].hand /\ i \in ctls[n].subs
      /\ UNCHANGED <<world, metaVars, refCount, dirty, seen, ticker, changes>>
  BY CtlFacts DEF HandlerRemoved
<1>1. PICK r \in Resource : r = Res(n, i)
  BY <1>0, CtlFacts
<1>2. /\ informers \in [Resource -> Informer \union {None}] /\ informers[r] \in Informer
      /\ informers[r] # None /\ informers[r].writer = <<n, i>> /\ Exclusive(informers[r])
  BY <1>0, <1>1, SubscriptionFacts, RunningFacts, Typed DEF HandlerRemoved
<1>3. informers[r].calls = {}
  <2>1. <<n, i>> # None
    BY MetacontrollersAssumption DEF Handler
  <2> QED
    BY <1>2, <2>1 DEF Exclusive
<1> DEFINE new == [ctls[n] EXCEPT !.hand = @ \ {i}]
           informer == [informers[r] EXCEPT !.writer = None]
<1>4. /\ new \in Ctls /\ new.spec = ctls[n].spec /\ new.subs = ctls[n].subs
      /\ new.hand = ctls[n].hand \ {i} /\ new.stage = ctls[n].stage
      /\ ctls' = [ctls EXCEPT ![n] = new]
  BY <1>0 DEF Ctls, HandlerRemoved
<1>5. /\ informer \in Informer /\ informer.calls = {} /\ informer.writer = None
      /\ informer # None
  BY <1>2, <1>3, MetacontrollersAssumption DEF Informer
<1>6. informers' = [informers EXCEPT ![r] = informer]
  BY <1>1, <1>2 DEF HandlerRemoved
<1> HIDE DEF new, informer
<1>7. InOrder(new)
  <2>1. ctls[n].stage # "none"
    BY <1>0, AbsentFacts DEF InOrder
  <2> QED
    BY <1>0, <1>4, <2>1 DEF InOrder
<1>8. /\ ctls'[n] = new /\ \A m \in Name : m # n => ctls'[m] = ctls[m]
      /\ informers'[r] = informer
      /\ \A q \in Resource : q # r => informers'[q] = informers[q]
      /\ ctls' \in [Name -> Ctls] /\ informers' \in [Resource -> Informer \union {None}]
  BY <1>0, <1>2, <1>4, <1>5, <1>6
<1>9. AllInOrder'
  BY <1>7, <1>8 DEF MetaInv, AllInOrder
<1>10. \A q \in Resource : Subscriptions(q)' = Subscriptions(q)
  BY <1>4, <1>8 DEF Subscriptions, Res, Handler
<1>11. AllCounted'
  BY <1>0, <1>2, <1>5, <1>8, <1>10 DEF MetaInv, AllCounted, Counted
<1>12. \A q \in Resource : q # r => HandlersOf(q)' = HandlersOf(q)
  BY <1>1, <1>4, <1>8 DEF HandlersOf, Res, Handler
<1>13. Locked'
  <2>1. \A q \in Resource : q # r => (informers'[q] # None => Exclusive(informers'[q]))
    BY <1>8 DEF MetaInv, Locked
  <2> QED
    BY <1>5, <1>8, <2>1 DEF Locked, Exclusive
<1>14. SilentOnceRemoved'
  <2>1. \A q \in Resource : informers'[q] # None => informers'[q].calls \subseteq HandlersOf(q)'
    BY <1>5, <1>8, <1>12 DEF MetaInv, SilentOnceRemoved
  <2>2. i = 1 => ticker[n] = "off"
    BY DEF HandlerRemoved
  <2>3. \A m \in Name : ticker'[m] # "off" => 1 \in ctls'[m].hand
    BY <1>0, <1>4, <1>8, <2>2 DEF MetaInv, SilentOnceRemoved
  <2> QED
    BY <2>1, <2>3 DEF SilentOnceRemoved
<1>15. RestOK' /\ refCount' \in [Resource -> Nat]
  BY <1>0, Typed DEF RestOK, world, metaVars
<1> QED
  BY <1>8, <1>9, <1>11, <1>13, <1>14, <1>15, Assemble

(* Ticks and syncs touch neither controllers nor informers.                 *)
LEMMA TickerSteps ==
  ASSUME MetaInv, NEW n \in Name, Tick(n) \/ Resync(n) \/ TickerStops(n)
  PROVE  MetaInv'
<1>1. /\ UNCHANGED <<world, metaVars, shared, ctls, seen, changes>> /\ ticker[n] # "off"
      /\ \E to \in {"off", "waits", "fires"} : ticker' = [ticker EXCEPT ![n] = to]
  BY DEF Tick, Resync, TickerStops
<1>2. dirty' \subseteq Name
  <2>1. CASE Resync(n)
    <3>1. 1 \in ctls[n].subs
      BY <1>1, CtlFacts DEF MetaInv, SilentOnceRemoved
    <3>2. Res(n, 1) \in Resource
      BY <3>1, CtlFacts
    <3> QED
      BY <2>1, <3>2, WakeTypes DEF Resync
  <2>2. CASE UNCHANGED dirty
    BY <2>2, Typed DEF RestOK
  <2> QED
    BY <2>1, <2>2 DEF Tick, TickerStops
<1>3. /\ ticker' \in [Name -> {"off", "waits", "fires"}]
      /\ \A m \in Name : ticker'[m] # "off" => ticker[m] # "off"
  BY <1>1, Typed DEF RestOK
<1>4. RestOK'
  BY <1>1, <1>2, <1>3, Typed DEF RestOK, world, metaVars
<1> QED
  BY <1>1, <1>3, <1>4, QuietSteps

LEMMA SyncStep ==
  ASSUME MetaInv, NEW n \in Name, Sync(n)
  PROVE  MetaInv'
<1>1. UNCHANGED <<world, metaVars, shared, ctls, ticker, changes>>
  BY DEF Sync
<1> DEFINE saw == [i \in Slot |-> i \in ctls[n].hand /\ ParentCached(n)
                                /\ informers[Res(n, i)].cache]
<1>2. seen' = [seen EXCEPT ![n] = saw] /\ dirty' \subseteq Name
  BY Typed DEF Sync, RestOK
<1>3. saw \in [Slot -> BOOLEAN]
  OBVIOUS
<1> HIDE DEF saw
<1>4. seen' \in [Name -> [Slot -> BOOLEAN]]
  BY <1>2, <1>3, Typed DEF RestOK
<1>5. RestOK'
  BY <1>1, <1>2, <1>4, Typed DEF RestOK, world, metaVars
<1> QED
  BY <1>1, <1>5, QuietSteps

-----------------------------------------------------------------------------
(* Every step. *)

LEMMA WorkerSteps ==
  ASSUME MetaInv, NEW n \in Name, WorkerStep(n)
  PROVE  MetaInv'
<1>1. CASE TakeKey(n) \/ NothingToDo(n)
  BY <1>1, KeySteps
<1>2. CASE StopOld(n) \/ StopController(n) \/ Undone(n) \/ Started(n) \/ Halted(n) \/ Stopped(n)
  BY <1>2, StageSteps DEF StopOld, StopController
<1>3. CASE Construct(n)
  BY <1>3, ConstructStep
<1>4. CASE Subscribe(n)
  BY <1>4, SubscribeStep
<1>5. ASSUME NEW i \in Slot, Undo(n, i) \/ CloseInformer(n, i)
      PROVE  MetaInv'
  BY <1>5, CloseSteps
<1>6. ASSUME NEW i \in Slot, AddHandler(n, i)
      PROVE  MetaInv'
  BY <1>6, AddHandlerStep
<1>7. ASSUME NEW i \in Slot, RemoveHandler(n, i)
      PROVE  MetaInv'
  BY <1>7, RemoveHandlerStep
<1>8. ASSUME NEW i \in Slot, HandlerRemoved(n, i)
      PROVE  MetaInv'
  BY <1>8, HandlerRemovedStep
<1> QED
  BY <1>1, <1>2, <1>3, <1>4, <1>5, <1>6, <1>7, <1>8 DEF WorkerStep

LEMMA EveryStep == MetaInv /\ [Next]_vars => MetaInv'
<1> SUFFICES ASSUME MetaInv, [Next]_vars PROVE MetaInv'
  OBVIOUS
<1>1. ASSUME NEW n \in Name, WorkerStep(n)
      PROVE  MetaInv'
  BY <1>1, WorkerSteps
<1>2. ASSUME NEW n \in Name, Works(n)
      PROVE  MetaInv'
  BY <1>2, StageSteps, SyncStep DEF Works
<1>3. ASSUME NEW n \in Name, Tick(n) \/ Resync(n) \/ TickerStops(n)
      PROVE  MetaInv'
  BY <1>3, TickerSteps
<1>4. ASSUME NEW m \in Meta, StopMeta(m) \/ MetaStep(m)
      PROVE  MetaInv'
  BY <1>4, TurnSteps
<1>5. ASSUME NEW r \in Resource, Reflect(r)
      PROVE  MetaInv'
  BY <1>5, ReflectSteps
<1>6. ASSUME NEW r \in Resource, Dispatch(r)
      PROVE  MetaInv'
  BY <1>6, DispatchSteps
<1>7. CASE World
  BY <1>7, WorldSteps
<1>8. CASE UNCHANGED vars
  <2>1. UNCHANGED <<world, metaVars, shared, ctls, dirty, seen, ticker, changes>>
    BY <1>8 DEF vars, ctlVars
  <2>2. RestOK'
    BY <2>1, Typed DEF RestOK, world, metaVars
  <2> QED
    BY <2>1, <2>2, QuietSteps
<1> QED
  BY <1>1, <1>2, <1>3, <1>4, <1>5, <1>6, <1>7, <1>8 DEF Next

LEMMA Inductive == Spec => []MetaInv
BY InitInv, EveryStep, PTL DEF Spec

-----------------------------------------------------------------------------
(* Controllers, informers, their locks and counts stay well typed: no step  *)
(* of a controller, and no Close of the factory, meets an informer that     *)
(* does not run.                                                            *)
THEOREM TypeCorrect == Spec => []TypeOK
<1>1. MetaInv => TypeOK
  BY DEF MetaInv
<1> QED
  BY Inductive, <1>1, PTL

(* closeFn of SharedInformerFactory: for any number of metacontrollers,     *)
(* custom resources and resources, and whatever constructors fail on the    *)
(* way, the count of an informer is that of the subscriptions still open,   *)
(* and it is stopped with the last of them.                                 *)
THEOREM SubscriptionsCounted == Spec => []CountsSubscriptions
<1>1. MetaInv => CountsSubscriptions
  BY DEF MetaInv, AllCounted, Counted, CountsSubscriptions
<1> QED
  BY Inductive, <1>1, PTL

(* RemoveEventHandlers: after it returned no broadcast of the informer and  *)
(* no resync of its own calls the handler, in any interleaving of both.     *)
THEOREM RemovedIsSilent == Spec => []SilentOnceRemoved
<1>1. MetaInv => SilentOnceRemoved
  BY DEF MetaInv
<1> QED
  BY Inductive, <1>1, PTL

-----------------------------------------------------------------------------
(* The factory implements SharedInformers.                                  *)
Opened == [r \in Resource |-> Subscriptions(r)]
Caches == [r \in Resource |-> CacheOf(r)]

LEMMA SameFactory ==
  ASSUME MetaInv, MetaInv',
         \A n \in Name : /\ ctls'[n].subs = ctls[n].subs
                         /\ ctls'[n].spec = ctls[n].spec \/ ctls[n].subs = {},
         \A r \in Resource : informers[r] # None => informers'[r].listed = informers[r].listed
  PROVE  UNCHANGED <<Opened, Caches>>
<1>1. ASSUME NEW r \in Resource
      PROVE  Subscriptions(r)' = Subscriptions(r)
  BY DEF Subscriptions, Res, Handler
<1>2. ASSUME NEW r \in Resource
      PROVE  informers'[r] # None <=> informers[r] # None
  BY <1>1 DEF MetaInv, AllCounted, Counted
<1>3. \A r \in Resource : CacheOf(r)' = CacheOf(r)
  BY <1>2 DEF CacheOf
<1> QED
  BY <1>1, <1>3 DEF Opened, Caches

(* One informer, and what is open of it, changes.                           *)
LEMMA OneOfFactory ==
  ASSUME NEW r \in Resource, NEW subs, NEW state,
         \A q \in Resource : q # r => Subscriptions(q)' = Subscriptions(q),
         \A q \in Resource : q # r => informers'[q] = informers[q],
         Subscriptions(r)' = subs, CacheOf(r)' = state
  PROVE  /\ Opened' = [Opened EXCEPT ![r] = subs]
         /\ Caches' = [Caches EXCEPT ![r] = state]
<1>1. \A q \in Resource : q # r => CacheOf(q)' = CacheOf(q)
  BY DEF CacheOf
<1>2. Opened' = [Opened EXCEPT ![r] = subs]
  BY DEF Opened
<1>3. Caches' = [Caches EXCEPT ![r] = state]
  BY <1>1 DEF Caches
<1> QED
  BY <1>2, <1>3

LEMMA OpensOne ==
  ASSUME MetaInv, MetaInv', NEW n \in Name, Subscribe(n)
  PROVE  Factory!Next \/ UNCHANGED <<Opened, Caches>>
<1>0. /\ ctls \in [Name -> Ctls] /\ ctls[n] \in Ctls /\ InOrder(ctls[n])
      /\ ctls[n].stage = "subscribes" /\ ctls[n].spec \in CRSpec
  BY CtlFacts DEF Subscribe, InOrder
<1>1. PICK k \in 0..(Len(Wants[ctls[n].spec]) - 1) : ctls[n].subs = 1..k
  BY <1>0 DEF InOrder
<1>2. Cardinality(ctls[n].subs) = k /\ k \in Nat
  BY <1>0, <1>1, WantsFacts, FS_Interval
<1>3. PICK i \in Slot : /\ i = Cardinality(ctls[n].subs) + 1 /\ i \notin ctls[n].subs
                        /\ i \in DOMAIN Wants[ctls[n].spec]
  BY <1>0, <1>1, <1>2, WantsFacts
<1>4. PICK r \in Resource : r = Res(n, i)
  BY <1>0, <1>3, WantsFacts DEF Res
<1>5. CASE CanGet(r)
  <2>1. /\ GetOrCreate(r) /\ ctls'[n].subs = ctls[n].subs \union {i}
        /\ ctls'[n].spec = ctls[n].spec
        /\ \A m \in Name : m # n => ctls'[m] = ctls[m]
    BY <1>0, <1>3, <1>4, <1>5 DEF Subscribe, Ctls
  <2> DEFINE h == <<n, i>>
  <2>2. Subscriptions(r)' = Subscriptions(r) \union {h}
    BY <1>3, <1>4, <2>1 DEF Subscriptions, Res, Handler
  <2>3. \A q \in Resource : q # r => Subscriptions(q)' = Subscriptions(q)
    BY <1>4, <2>1 DEF Subscriptions, Res, Handler
  <2>4. /\ informers \in [Resource -> Informer \union {None}]
        /\ informers'[r] = (IF informers[r] = None THEN NewInformer ELSE informers[r])
        /\ \A q \in Resource : q # r => informers'[q] = informers[q]
    BY <2>1, Typed DEF GetOrCreate
  <2>5. CacheOf(r)' = IF CacheOf(r) = "off" THEN "empty" ELSE CacheOf(r)
    <3>1. informers'[r] # None
      BY <2>2 DEF MetaInv, AllCounted, Counted
    <3>2. ~NewInformer.listed
      BY DEF NewInformer
    <3> QED
      BY <2>4, <3>1, <3>2 DEF CacheOf
  <2>6. \A q \in Resource : h \notin Opened[q]
    BY <1>3 DEF Opened, Subscriptions
  <2>7. /\ Opened' = [Opened EXCEPT ![r] = @ \union {h}]
        /\ Caches' = [Caches EXCEPT ![r] = IF @ = "off" THEN "empty" ELSE @]
    BY <2>2, <2>3, <2>4, <2>5, OneOfFactory DEF Opened, Caches
  <2>8. h \in Handler
    BY DEF Handler
  <2> QED
    BY <2>6, <2>7, <2>8 DEF Factory!Next, Factory!Open, Opened, Caches
<1>6. CASE ~CanGet(r)
  <2>1. /\ UNCHANGED shared /\ ctls'[n].subs = ctls[n].subs /\ ctls'[n].spec = ctls[n].spec
        /\ \A m \in Name : m # n => ctls'[m] = ctls[m]
    BY <1>0, <1>3, <1>4, <1>6 DEF Subscribe, Ctls
  <2> QED
    BY <2>1, SameFactory DEF shared
<1> QED
  BY <1>5, <1>6

LEMMA ClosesOne ==
  ASSUME MetaInv, MetaInv', NEW n \in Name, NEW i \in Slot, IsNextToClose(n, i), CloseSub(n, i)
  PROVE  Factory!Next
<1>0. /\ ctls \in [Name -> Ctls] /\ ctls[n] \in Ctls /\ i \in ctls[n].subs
      /\ Res(n, i) \in Resource
  BY CtlFacts DEF IsNextToClose
<1>1. PICK r \in Resource : r = Res(n, i)
  BY <1>0
<1> DEFINE new == [ctls[n] EXCEPT !.subs = @ \ {i}]
           h == <<n, i>>
<1>2. Close(r) /\ ctls' = [ctls EXCEPT ![n] = new]
  BY <1>0, <1>1 DEF CloseSub
<1>3. new \in Ctls /\ new.spec = ctls[n].spec /\ new.subs = ctls[n].subs \ {i}
  BY <1>0 DEF Ctls
<1> HIDE DEF new
<1>4. Left(r)
  BY <1>0, <1>1, <1>2, <1>3, Closed
<1>5. /\ ctls'[n] = new /\ \A m \in Name : m # n => ctls'[m] = ctls[m]
      /\ informers \in [Resource -> Informer \union {None}]
  BY <1>0, <1>2, Typed
<1>6. Subscriptions(r)' = Subscriptions(r) \ {h} /\ h \in Subscriptions(r)
  BY <1>0, <1>1, <1>3, <1>5 DEF Subscriptions, Res, Handler
<1>7. \A q \in Resource : q # r => Subscriptions(q)' = Subscriptions(q)
  BY <1>1, <1>3, <1>5 DEF Subscriptions, Res, Handler
<1>8. PICK informer \in {informers[r], None} : informers' = [informers EXCEPT ![r] = informer]
  BY <1>4 DEF Left
<1>9. informers'[r] = informer /\ \A q \in Resource : q # r => informers'[q] = informers[q]
  BY <1>5, <1>8
<1>10. CacheOf(r)' = IF Subscriptions(r) = {h} THEN "off" ELSE CacheOf(r)
  <2>1. informers'[r] # None <=> Subscriptions(r)' # {}
    BY DEF MetaInv, AllCounted, Counted
  <2>2. CASE Subscriptions(r) = {h}
    <3>1. informers'[r] = None
      BY <1>6, <2>1, <2>2
    <3> QED
      BY <2>2, <3>1 DEF CacheOf
  <2>3. CASE Subscriptions(r) # {h}
    <3>1. informers'[r] = informers[r]
      BY <1>6, <1>8, <1>9, <2>1, <2>3
    <3> QED
      BY <2>3, <3>1 DEF CacheOf
  <2> QED
    BY <2>2, <2>3
<1>11. /\ Opened' = [Opened EXCEPT ![r] = @ \ {h}]
       /\ Caches' = [Caches EXCEPT ![r] = IF Opened[r] = {h} THEN "off" ELSE @]
  BY <1>6, <1>7, <1>9, <1>10, OneOfFactory DEF Opened, Caches
<1>12. h \in Opened[r] /\ h \in Handler
  BY <1>6 DEF Opened, Handler
<1> QED
  BY <1>11, <1>12 DEF Factory!Next, Factory!Close, Opened, Caches

LEMMA ListsOne ==
  ASSUME MetaInv, NEW r \in Resource, List(r)
  PROVE  Factory!Next
<1>1. /\ informers \in [Resource -> Informer \union {None}] /\ informers[r] # None
      /\ informers[r] \in Informer /\ ~informers[r].listed
      /\ UNCHANGED <<world, metaVars, refCount, ctlVars, changes>>
  BY Typed DEF List
<1> DEFINE new == [informers[r] EXCEPT !.listed = TRUE, !.cache = objects[r],
                                       !.pending = objects[r]]
<1>2. informers' = [informers EXCEPT ![r] = new] /\ new.listed = TRUE /\ new \in Informer
  BY <1>1, RunningFacts DEF List, Informer
<1> HIDE DEF new
<1>3. informers'[r] = new /\ \A q \in Resource : q # r => informers'[q] = informers[q]
  BY <1>1, <1>2
<1>4. \A q \in Resource : Subscriptions(q)' = Subscriptions(q)
  BY <1>1 DEF Subscriptions, Res, ctlVars
<1>5. CacheOf(r) = "empty" /\ CacheOf(r)' = "listed"
  BY <1>1, <1>2, <1>3, MetacontrollersAssumption DEF CacheOf
<1>6. /\ Opened' = Opened
      /\ Caches' = [Caches EXCEPT ![r] = "listed"]
  BY <1>3, <1>4, <1>5, OneOfFactory DEF Opened
<1> QED
  BY <1>5, <1>6 DEF Factory!Next, Factory!Lists, Opened, Caches

(* A controller goes on, comes or goes, without a change of subscriptions.  *)
LEMMA KeepsSubs ==
  ASSUME MetaInv, MetaInv', NEW n \in Name,
         \/ Halt(n) \/ Started(n) \/ StartWorkers(n) \/ Halted(n) \/ Undone(n) \/ Stopped(n)
         \/ Construct(n) \/ \E i \in Slot : AddHandler(n, i)
  PROVE  UNCHANGED <<Opened, Caches>>
<1>0. ctls \in [Name -> Ctls] /\ ctls[n] \in Ctls
  BY CtlFacts
<1>1. UNCHANGED shared
  BY DEF Halt, Started, StartWorkers, Halted, Undone, Stopped, Construct, AddHandler
<1>2. \A m \in Name : m # n => ctls'[m] = ctls[m]
  BY <1>0 DEF Halt, Started, StartWorkers, Halted, Undone, Stopped, Construct, AddHandler
<1>3. /\ ctls'[n].subs = ctls[n].subs
      /\ ctls'[n].spec = ctls[n].spec \/ ctls[n].subs = {}
  <2>1. CASE Halt(n) \/ Started(n) \/ StartWorkers(n) \/ Halted(n)
    BY <1>0, <2>1 DEF Halt, Started, StartWorkers, Halted, Ctls
  <2>2. CASE Undone(n) \/ Stopped(n)
    BY <1>0, <2>2, AbsentFacts DEF Undone, Stopped
  <2>3. CASE Construct(n)
    <3>1. ctls[n] = Absent
      BY <2>3, CtlFacts DEF Construct, InOrder
    <3> QED
      BY <1>0, <2>3, <3>1, AbsentFacts DEF Construct, Ctls
  <2>4. ASSUME NEW i \in Slot, AddHandler(n, i)
        PROVE  ctls'[n].subs = ctls[n].subs /\ ctls'[n].spec = ctls[n].spec
    BY <1>0, <2>4 DEF AddHandler, Ctls
  <2> QED
    BY <2>1, <2>2, <2>3, <2>4
<1> QED
  BY <1>1, <1>2, <1>3, SameFactory DEF shared

(* The lock of the handlers, events and broadcasts.                         *)
LEMMA KeepsListed ==
  ASSUME MetaInv, MetaInv',
         \/ \E n \in Name, i \in Slot : RemoveHandler(n, i) \/ HandlerRemoved(n, i)
         \/ \E r \in Resource : WatchEvent(r) \/ Dispatch(r)
  PROVE  UNCHANGED <<Opened, Caches>>
<1>0. ctls \in [Name -> Ctls] /\ informers \in [Resource -> Informer \union {None}]
  BY Typed
<1>1. \A r \in Resource : informers[r] # None => informers'[r].listed = informers[r].listed
  <2>1. ASSUME NEW n \in Name, NEW i \in Slot, RemoveHandler(n, i) \/ HandlerRemoved(n, i),
               NEW q \in Resource, informers[q] # None
        PROVE  informers'[q].listed = informers[q].listed
    BY <1>0, <2>1 DEF RemoveHandler, HandlerRemoved, Informer
  <2>2. ASSUME NEW r \in Resource, WatchEvent(r) \/ Dispatch(r),
               NEW q \in Resource, informers[q] # None
        PROVE  informers'[q].listed = informers[q].listed
    BY <1>0, <2>2 DEF WatchEvent, Dispatch, BeginDispatch, CallHandler, Informer
  <2> QED
    BY <2>1, <2>2
<1>2. ASSUME NEW m \in Name
      PROVE  ctls'[m].subs = ctls[m].subs /\ ctls'[m].spec = ctls[m].spec
  <2>1. ASSUME NEW n \in Name, NEW i \in Slot, RemoveHandler(n, i) \/ HandlerRemoved(n, i)
        PROVE  ctls'[m].subs = ctls[m].subs /\ ctls'[m].spec = ctls[m].spec
    BY <1>0, <2>1 DEF RemoveHandler, HandlerRemoved, ctlVars, Ctls
  <2>2. ASSUME NEW r \in Resource, WatchEvent(r) \/ Dispatch(r)
        PROVE  UNCHANGED ctls
    BY <2>2 DEF WatchEvent, Dispatch, BeginDispatch, CallHandler, ctlVars
  <2> QED
    BY <2>1, <2>2
<1> QED
  BY <1>1, <1>2, SameFactory

LEMMA FactorySteps ==
  ASSUME MetaInv, MetaInv', [Next]_vars
  PROVE  [Factory!Next]_<<Opened, Caches>>
<1>1. ASSUME NEW n \in Name, WorkerStep(n)
      PROVE  Factory!Next \/ UNCHANGED <<Opened, Caches>>
  <2>1. CASE TakeKey(n) \/ NothingToDo(n)
    <3>1. UNCHANGED <<shared, ctls>>
      BY <2>1 DEF TakeKey, NothingToDo, ctlVars
    <3> QED
      BY <3>1, SameFactory DEF shared
  <2>2. CASE \/ StopOld(n) \/ StopController(n) \/ Undone(n) \/ Started(n) \/ Halted(n)
             \/ Stopped(n) \/ Construct(n) \/ \E i \in Slot : AddHandler(n, i)
    BY <2>2, KeepsSubs DEF StopOld, StopController
  <2>3. CASE Subscribe(n)
    BY <2>3, OpensOne
  <2>4. CASE \E i \in Slot : Undo(n, i) \/ CloseInformer(n, i)
    BY <2>4, ClosesOne DEF Undo, CloseInformer
  <2>5. CASE \E i \in Slot : RemoveHandler(n, i) \/ HandlerRemoved(n, i)
    BY <2>5, KeepsListed
  <2> QED
    BY <1>1, <2>1, <2>2, <2>3, <2>4, <2>5 DEF WorkerStep
<1>2. ASSUME NEW n \in Name, Works(n) \/ Tick(n) \/ Resync(n) \/ TickerStops(n)
      PROVE  UNCHANGED <<Opened, Caches>>
  <2>1. CASE StartWorkers(n)
    BY <2>1, KeepsSubs
  <2>2. CASE Sync(n) \/ Tick(n) \/ Resync(n) \/ TickerStops(n)
    <3>1. UNCHANGED <<shared, ctls>>
      BY <2>2 DEF Sync, Tick, Resync, TickerStops
    <3> QED
      BY <3>1, SameFactory DEF shared
  <2> QED
    BY <1>2, <2>1, <2>2 DEF Works
<1>3. ASSUME NEW r \in Resource, Reflect(r) \/ Dispatch(r)
      PROVE  Factory!Next \/ UNCHANGED <<Opened, Caches>>
  <2>1. CASE List(r)
    BY <2>1, ListsOne
  <2>2. CASE WatchEvent(r) \/ Dispatch(r)
    BY <2>2, KeepsListed
  <2> QED
    BY <1>3, <2>1, <2>2 DEF Reflect
<1>4. CASE World \/ (\E m \in Meta : StopMeta(m) \/ MetaStep(m)) \/ UNCHANGED vars
  <2>1. UNCHANGED <<shared, ctls>>
    BY <1>4 DEF World, EditCR, Discover, ObjectChanges, StopMeta, MetaStep, Drained,
                MetaStopped, Turns, vars, ctlVars
  <2> QED
    BY <2>1, SameFactory DEF shared
<1> QED
  BY <1>1, <1>2, <1>3, <1>4 DEF Next

(* GetOrCreate and closeFn of SharedInformerFactory promise every           *)
(* controller what SharedInformers says: whatever the others do, and        *)
(* however they fail, the informers it has are there, with what they have   *)
(* listed, until it closes them, and the last to close one stops it.        *)
THEOREM ImplementsInformers == Spec => KeepsInformers
<1>1. Init => Factory!Init
  <2> SUFFICES ASSUME Init PROVE Factory!Init
    OBVIOUS
  <2>1. \A n \in Name : ctls[n].subs = {}
    BY AbsentFacts DEF Init
  <2>2. \A r \in Resource : Subscriptions(r) = {}
    BY <2>1 DEF Subscriptions, Handler
  <2>3. \A r \in Resource : CacheOf(r) = "off"
    BY DEF CacheOf, Init
  <2> QED
    BY <2>2, <2>3 DEF Factory!Init
<1>2. MetaInv /\ MetaInv' /\ [Next]_vars => [Factory!Next]_<<Opened, Caches>>
  BY FactorySteps
<1> QED
  BY <1>1, <1>2, Inductive, PTL DEF Spec, KeepsInformers, Factory!Spec, Opened, Caches
=============================================================================
