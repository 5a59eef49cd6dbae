--------------------------- MODULE Metacontrollers ---------------------------
(***************************************************************************)
(* How controllers come and go: metacontrollers that start, replace and    *)
(* stop one controller per custom resource, and the informers the          *)
(* controllers share.                                                      *)
(*                                                                         *)
(* Every metacontroller has one worker.  A controller subscribes to one    *)
(* shared informer after the other, adds its handlers, works, and when it  *)
(* is stopped releases them again.  An informer runs from its first        *)
(* subscription to its last.  Each resource has one object, which appears  *)
(* and disappears.                                                         *)
(***************************************************************************)
EXTENDS Naturals, Sequences, FiniteSets

CONSTANTS
  Meta,       \* metacontrollers
  Name,       \* custom resources
  Owner,      \* [Name -> Meta]
  Resource,   \* watched resources
  CRSpec,     \* versions of a custom resource's spec
  Versions,   \* [Name -> those each may have]
  InitCRs,    \* the custom resources at first
  InitObjects, \* the resources whose object exists at first
  Wants,      \* the resources each asks for: the parent's, then the children's
  Heard,      \* the positions in this list that get a handler (a
              \* GenericController has none for its attachments)
  Ticking,    \* specs with a resync period of their own for the parent
  MaxChanges, \* bound: edits of custom resources, changes of objects and of
              \* what is discovered
  None

Slot == UNION {DOMAIN Wants[s] : s \in CRSpec}

Handler == Name \X Slot

(* cache: the object is in the cache; listed: HasSynced; pending: there is  *)
(* an event to hand on; calls: the handlers still to be called with it;     *)
(* writer: the handler whose removal holds the lock of the handlers.        *)
Informer ==
  [cache : BOOLEAN, listed : BOOLEAN, pending : BOOLEAN, calls : SUBSET Handler,
   writer : Handler \union {None}]

(* A child resource is listed once (a second informer for it would take the *)
(* first one's place in childInformers, and the first never be closed).     *)
ASSUME MetacontrollersAssumption ==
  /\ Owner \in [Name -> Meta]
  /\ Versions \in [Name -> SUBSET CRSpec]
  /\ InitCRs \in [Name -> CRSpec \union {None}]
  /\ InitObjects \subseteq Resource
  /\ Wants \in [CRSpec -> Seq(Resource)]
  /\ \A s \in CRSpec :
       \A i, j \in DOMAIN Wants[s] : 1 < i /\ i < j => Wants[s][i] # Wants[s][j]
  /\ \A s \in CRSpec : 1 \in Heard[s] /\ Heard[s] \subseteq DOMAIN Wants[s]
  /\ Ticking \subseteq CRSpec
  /\ MaxChanges \in Nat
  /\ None \notin CRSpec \union Name \union Handler
  /\ \A informer \in Informer : informer # None

VARIABLES
  crs,        \* the custom resources, as the metacontrollers list them
  known,      \* the resources discovery knows
  objects,    \* does the object of a resource exist?
  metas,      \* metacontrollers: what they do, the custom resource at hand
  metaQueue,  \* names of custom resources to be synced
  informers,  \* the factory's shared informers
  refCount,   \* and their reference counts
  ctls,       \* controllers
  dirty,      \* controllers with a key in their queue
  seen,       \* what the last sync of a controller saw in the caches with its
              \* handlers
  ticker,     \* the goroutine of a handler's own resync
  changes

world == <<crs, known, objects>>
metaVars == <<metas, metaQueue>>
shared == <<informers, refCount>>
ctlVars == <<ctls, dirty, seen, ticker>>
vars == <<world, metaVars, shared, ctlVars, changes>>

NewInformer ==
  [cache |-> FALSE, listed |-> FALSE, pending |-> FALSE, calls |-> {}, writer |-> None]

(* subs: open subscriptions; hand: those with a handler.                    *)
Absent == [stage |-> "none", spec |-> None, subs |-> {}, hand |-> {}, works |-> FALSE]

Blind == [i \in Slot |-> FALSE]

Init ==
  /\ crs = InitCRs
  /\ known = Resource
  /\ objects = [r \in Resource |-> r \in InitObjects]
  /\ metas = [m \in Meta |-> [does |-> "works", at |-> None, cr |-> None]]
  /\ metaQueue = {n \in Name : crs[n] # None}
  /\ informers = [r \in Resource |-> None]
  /\ refCount = [r \in Resource |-> 0]
  /\ ctls = [n \in Name |-> Absent]
  /\ dirty = {}
  /\ seen = [n \in Name |-> Blind]
  /\ ticker = [n \in Name |-> "off"]
  /\ changes = 0

-----------------------------------------------------------------------------
(* The factory, under its mutex: GetOrCreate and closeFn.                   *)
Res(n, i) == Wants[ctls[n].spec][i]

CanGet(r) == informers[r] # None \/ r \in known

GetOrCreate(r) ==
  /\ refCount' = [refCount EXCEPT ![r] = @ + 1]
  /\ informers' = [informers EXCEPT ![r] = IF @ = None THEN NewInformer ELSE @]

StopInformer(r) ==
  /\ refCount' = [refCount EXCEPT ![r] = 0]
  /\ informers' = [informers EXCEPT ![r] = None]

(* The mutant is StopInformer itself, whoever else has the informer.        *)
Close(r) ==
  IF refCount[r] > 1
  THEN /\ refCount' = [refCount EXCEPT ![r] = @ - 1]
       /\ UNCHANGED informers
  ELSE StopInformer(r)

-----------------------------------------------------------------------------
(* A metacontroller's worker. *)
Done(m) == metas' = [metas EXCEPT ![m].at = None, ![m].cr = None]

(* Nothing is added to a queue that is shut down.                           *)
Enqueue(n) ==
  metaQueue' = IF metas[Owner[n]].does = "works" THEN metaQueue \union {n} ELSE metaQueue

Retry(n) == Done(Owner[n]) /\ Enqueue(n)

(* A queue that is shut down is still worked off.                           *)
TakeKey(n) ==
  LET m == Owner[n]
  IN /\ metas[m].does \in {"works", "drains"} /\ metas[m].at = None
     /\ n \in metaQueue
     /\ metaQueue' = metaQueue \ {n}
     /\ metas' = [metas EXCEPT ![m].at = n, ![m].cr = crs[n]]
     /\ UNCHANGED <<world, shared, ctlVars, changes>>

Syncing(n) == metas[Owner[n]].at = n
Listed(n) == metas[Owner[n]].cr

(* Nothing has changed, or there is nothing to stop.                        *)
NothingChanged(n) == ctls[n].spec = Listed(n)

NothingToDo(n) ==
  /\ Syncing(n) /\ ctls[n].stage \in {"none", "runs"}
  /\ NothingChanged(n)
  /\ Done(Owner[n])
  /\ UNCHANGED <<world, metaQueue, shared, ctlVars, changes>>

(* Stop, first half: the stop channel is closed, and the queue shut down.   *)
Halt(n) ==
  /\ ctls[n].stage = "runs"
  /\ ctls' = [ctls EXCEPT ![n].stage = "halts"]
  /\ UNCHANGED <<world, metaVars, shared, dirty, seen, ticker, changes>>

StopOld(n) == Syncing(n) /\ ~NothingChanged(n) /\ Halt(n)

(* newParentController: discovery is asked first for the parent's resource  *)
(* and for those of the children that have an update strategy.              *)
WantedBy(s) == {Wants[s][i] : i \in DOMAIN Wants[s]}

Construct(n) ==
  /\ Syncing(n) /\ ctls[n].stage = "none" /\ Listed(n) # None
  /\ \E asked \in SUBSET WantedBy(Listed(n)) :
       /\ Wants[Listed(n)][1] \in asked
       /\ IF asked \subseteq known
          THEN /\ ctls' = [ctls EXCEPT ![n].stage = "subscribes", ![n].spec = Listed(n)]
               /\ UNCHANGED metaVars
          ELSE Retry(n) /\ UNCHANGED ctls
  /\ UNCHANGED <<world, shared, dirty, seen, ticker, changes>>

Subscribe(n) ==
  LET i == Cardinality(ctls[n].subs) + 1
      isLast == i = Len(Wants[ctls[n].spec])
  IN /\ ctls[n].stage = "subscribes"
     /\ IF CanGet(Res(n, i))
        THEN /\ GetOrCreate(Res(n, i))
             /\ ctls' = [ctls EXCEPT ![n].subs = @ \union {i},
                                     ![n].stage = IF isLast THEN "starts" ELSE @]
        ELSE /\ ctls' = [ctls EXCEPT ![n].stage = "fails"]
             /\ UNCHANGED shared
     /\ UNCHANGED <<world, metaVars, dirty, seen, ticker, changes>>

(* Children's informers are closed in any order, and the parent's last.     *)
IsNextToClose(n, i) == i \in ctls[n].subs /\ (i = 1 => ctls[n].subs = {1})

CloseSub(n, i) ==
  /\ Close(Res(n, i))
  /\ ctls' = [ctls EXCEPT ![n].subs = @ \ {i}]
  /\ UNCHANGED <<world, metaVars, dirty, seen, ticker, changes>>

(* The deferred function of a failed constructor.                           *)
Undo(n, i) == ctls[n].stage = "fails" /\ IsNextToClose(n, i) /\ CloseSub(n, i)

Undone(n) ==
  /\ ctls[n].stage = "fails" /\ ctls[n].subs = {}
  /\ ctls' = [ctls EXCEPT ![n] = Absent]
  /\ Retry(n)
  /\ UNCHANGED <<world, shared, dirty, seen, ticker, changes>>

-----------------------------------------------------------------------------
(* Start.  The handlers of an informer are called under the read lock, and  *)
(* added and removed under the write lock.                                  *)
Unlocked(r) == informers[r].writer = None /\ informers[r].calls = {}

(* A handler that is called puts a key in its controller's queue, unless    *)
(* that is shut down.                                                       *)
ShutDown(n) == ctls[n].stage \in {"halts", "releases"}

Wake(n) == dirty' = IF ShutDown(n) THEN dirty ELSE dirty \union {n}

(* resync: the handler is called with all that is in the cache, as an       *)
(* update from each object to itself.  A child's handler drops that by its  *)
(* equal resource version ("we rely on the parent resync").                 *)
ParentCached(n) == informers[Res(n, 1)].cache

ParentResync(n) == IF ParentCached(n) THEN Wake(n) ELSE UNCHANGED dirty

(* The first resync of a handler makes up for the events it has missed.     *)
(* The mutants put the object's own key into the queue, and do without it.  *)
FirstResyncOwnKey(n, i) ==
  IF ParentCached(n) THEN dirty' = dirty \union {Res(n, i)} ELSE UNCHANGED dirty

NoFirstResync(n, i) == UNCHANGED dirty

FirstResync(n, i) == IF i = 1 THEN ParentResync(n) ELSE UNCHANGED dirty

AddHandler(n, i) ==
  /\ ctls[n].stage = "starts"
  /\ i \in Heard[ctls[n].spec] \ ctls[n].hand
  /\ i # 1 => 1 \in ctls[n].hand
  /\ Unlocked(Res(n, i))
  /\ ctls' = [ctls EXCEPT ![n].hand = @ \union {i}]
  /\ FirstResync(n, i)
  /\ ticker' = IF i = 1 /\ ctls[n].spec \in Ticking
               THEN [ticker EXCEPT ![n] = "waits"] ELSE ticker
  /\ UNCHANGED <<world, metaVars, shared, seen, changes>>

Started(n) ==
  /\ ctls[n].stage = "starts" /\ ctls[n].hand = Heard[ctls[n].spec]
  /\ ctls' = [ctls EXCEPT ![n].stage = "runs"]
  /\ Done(Owner[n])
  /\ UNCHANGED <<world, metaQueue, shared, dirty, seen, ticker, changes>>

(* Once all caches are synced the workers are started.                      *)
StartWorkers(n) ==
  /\ ctls[n].stage = "runs" /\ ~ctls[n].works
  /\ \A i \in ctls[n].subs : informers[Res(n, i)].listed
  /\ ctls' = [ctls EXCEPT ![n].works = TRUE]
  /\ UNCHANGED <<world, metaVars, shared, dirty, seen, ticker, changes>>

(* A sync reads the parent's cache, and the children's if there is a parent. *)
Sync(n) ==
  /\ ctls[n].works /\ n \in dirty
  /\ dirty' = dirty \ {n}
  /\ seen' = [seen EXCEPT ![n] =
                [i \in Slot |-> i \in ctls[n].hand /\ ParentCached(n)
                               /\ informers[Res(n, i)].cache]]
  /\ UNCHANGED <<world, metaVars, shared, ctls, ticker, changes>>

-----------------------------------------------------------------------------
(* Stop, second half: when the workers, who work the queue off, are gone,   *)
(* handlers are removed and informers closed one by one.                    *)
Halted(n) ==
  /\ ctls[n].stage = "halts" /\ (ctls[n].works => n \notin dirty)
  /\ ctls' = [ctls EXCEPT ![n].stage = "releases", ![n].works = FALSE]
  /\ dirty' = dirty \ {n}
  /\ UNCHANGED <<world, metaVars, shared, seen, ticker, changes>>

(* removeHandlers takes the lock, and then waits for the handler's ticker;  *)
(* the mutant does not wait for readers.                                    *)
LockHandlersAnyway(r) == informers[r].writer = None

LockHandlers(r) == Unlocked(r)

Removing(n) == \E i \in ctls[n].hand : informers[Res(n, i)].writer = <<n, i>>

(* An informer whose handler is gone is closed before the next is treated.  *)
RemoveHandler(n, i) ==
  /\ ctls[n].stage = "releases" /\ ~Removing(n)
  /\ ctls[n].hand = ctls[n].subs \intersect Heard[ctls[n].spec]
  /\ i \in ctls[n].hand /\ IsNextToClose(n, i)
  /\ LockHandlers(Res(n, i))
  /\ informers' = [informers EXCEPT ![Res(n, i)].writer = <<n, i>>]
  /\ UNCHANGED <<world, metaVars, refCount, ctlVars, changes>>

HandlerRemoved(n, i) ==
  /\ i \in ctls[n].hand
  /\ informers[Res(n, i)].writer = <<n, i>>
  /\ i = 1 => ticker[n] = "off"
  /\ informers' = [informers EXCEPT ![Res(n, i)].writer = None]
  /\ ctls' = [ctls EXCEPT ![n].hand = @ \ {i}]
  /\ UNCHANGED <<world, metaVars, refCount, dirty, seen, ticker, changes>>

CloseInformer(n, i) ==
  /\ ctls[n].stage = "releases" /\ ~Removing(n)
  /\ i \notin ctls[n].hand /\ IsNextToClose(n, i)
  /\ CloseSub(n, i)

Stopped(n) ==
  /\ ctls[n].stage = "releases" /\ ctls[n].subs = {}
  /\ ctls' = [ctls EXCEPT ![n] = Absent]
  /\ seen' = [seen EXCEPT ![n] = Blind]
  /\ UNCHANGED <<world, metaVars, shared, dirty, ticker, changes>>

(* The goroutine of a handler's own resync.  It reads the cache and takes   *)
(* no lock; the mutant takes the lock of the handlers, as a broadcast does. *)
Tick(n) ==
  /\ ticker[n] = "waits"
  /\ ticker' = [ticker EXCEPT ![n] = "fires"]
  /\ UNCHANGED <<world, metaVars, shared, ctls, dirty, seen, changes>>

MayResyncLocked(n) == informers[Res(n, 1)].writer = None

MayResync(n) == TRUE

Resync(n) ==
  /\ ticker[n] = "fires" /\ MayResync(n)
  /\ ticker' = [ticker EXCEPT ![n] = "waits"]
  /\ ParentResync(n)
  /\ UNCHANGED <<world, metaVars, shared, ctls, seen, changes>>

TickerStops(n) ==
  /\ ticker[n] = "waits"
  /\ informers[Res(n, 1)].writer = <<n, 1>>
  /\ ticker' = [ticker EXCEPT ![n] = "off"]
  /\ UNCHANGED <<world, metaVars, shared, ctls, dirty, seen, changes>>

-----------------------------------------------------------------------------
(* A shared informer: the first list, watch events, and the broadcast of an *)
(* event to all handlers under the read lock.                               *)
List(r) ==
  /\ informers[r] # None /\ ~informers[r].listed
  /\ informers' = [informers EXCEPT ![r].listed = TRUE, ![r].cache = objects[r],
                                    ![r].pending = objects[r]]
  /\ UNCHANGED <<world, metaVars, refCount, ctlVars, changes>>

WatchEvent(r) ==
  /\ informers[r] # None /\ informers[r].listed /\ informers[r].cache # objects[r]
  /\ informers' = [informers EXCEPT ![r].cache = objects[r], ![r].pending = TRUE]
  /\ UNCHANGED <<world, metaVars, refCount, ctlVars, changes>>

HandlersOf(r) ==
  {h \in Handler : h[2] \in ctls[h[1]].hand /\ Res(h[1], h[2]) = r}

BeginDispatch(r) ==
  /\ informers[r] # None /\ informers[r].pending /\ Unlocked(r)
  /\ informers' = [informers EXCEPT ![r].pending = FALSE, ![r].calls = HandlersOf(r)]
  /\ UNCHANGED <<world, metaVars, refCount, ctlVars, changes>>

(* A child's handler looks for the parent in the cache.                     *)
CallHandler(r, h) ==
  /\ informers[r] # None /\ h \in informers[r].calls
  /\ informers' = [informers EXCEPT ![r].calls = @ \ {h}]
  /\ IF h[2] = 1 \/ ParentCached(h[1]) THEN Wake(h[1]) ELSE UNCHANGED dirty
  /\ UNCHANGED <<world, metaVars, refCount, ctls, seen, ticker, changes>>

-----------------------------------------------------------------------------
(* Stop of a metacontroller: its queue is worked off, its worker ends, then *)
(* all its controllers are stopped at a time.                               *)
Turns(m, from, to) ==
  /\ metas[m].does = from
  /\ metas' = [metas EXCEPT ![m].does = to]
  /\ UNCHANGED <<world, metaQueue, shared, ctlVars, changes>>

StopMeta(m) == Turns(m, "works", "drains")

Drained(m) ==
  /\ metas[m].at = None /\ \A n \in metaQueue : Owner[n] # m
  /\ Turns(m, "drains", "closes")

StopController(n) == metas[Owner[n]].does = "closes" /\ Halt(n)

MetaStopped(m) ==
  /\ \A n \in Name : Owner[n] = m => ctls[n].stage = "none"
  /\ Turns(m, "closes", "done")

(* The world: users edit custom resources, resources come and go in         *)
(* discovery, objects appear and disappear.                                 *)
Changes == changes < MaxChanges /\ changes' = changes + 1

EditCR(n, s) ==
  /\ Changes /\ s # crs[n]
  /\ crs' = [crs EXCEPT ![n] = s]
  /\ Enqueue(n)
  /\ UNCHANGED <<known, objects, metas, shared, ctlVars>>

Discover(rs) ==
  /\ Changes /\ rs # known
  /\ known' = rs
  /\ UNCHANGED <<crs, objects, metaVars, shared, ctlVars>>

ObjectChanges(r) ==
  /\ Changes
  /\ objects' = [objects EXCEPT ![r] = ~@]
  /\ UNCHANGED <<crs, known, metaVars, shared, ctlVars>>

-----------------------------------------------------------------------------
(* What the worker of a metacontroller, or the goroutine that stops its     *)
(* controllers, does about one of them.                                     *)
WorkerStep(n) ==
  \/ TakeKey(n) \/ NothingToDo(n) \/ StopOld(n) \/ StopController(n)
  \/ Construct(n) \/ Subscribe(n) \/ Undone(n) \/ Started(n)
  \/ Halted(n) \/ Stopped(n)
  \/ \E i \in Slot : \/ Undo(n, i) \/ AddHandler(n, i) \/ RemoveHandler(n, i)
                     \/ HandlerRemoved(n, i) \/ CloseInformer(n, i)

MetaStep(m) == Drained(m) \/ MetaStopped(m)

Works(n) == StartWorkers(n) \/ Sync(n)

Reflect(r) == List(r) \/ WatchEvent(r)

Dispatch(r) == BeginDispatch(r) \/ \E h \in Handler : CallHandler(r, h)

World ==
  \/ \E n \in Name : \E s \in Versions[n] \union {None} : EditCR(n, s)
  \/ \E rs \in SUBSET Resource : Discover(rs)
  \/ \E r \in Resource : ObjectChanges(r)

Next ==
  \/ \E n \in Name : \/ WorkerStep(n) \/ Works(n)
                     \/ Tick(n) \/ Resync(n) \/ TickerStops(n)
  \/ \E m \in Meta : StopMeta(m) \/ MetaStep(m)
  \/ \E r \in Resource : Reflect(r) \/ Dispatch(r)
  \/ World

Spec == Init /\ [][Next]_vars

(* A queue is first-in first-out, so every key has its turn.  A ticker whose *)
(* stop channel is closed sees that at last: select chooses at random among *)
(* the channels that are ready.                                             *)
Fairness ==
  /\ \A n \in Name : /\ WF_vars(WorkerStep(n)) /\ SF_vars(TakeKey(n))
                     /\ WF_vars(Works(n))
                     /\ WF_vars(Resync(n)) /\ SF_vars(TickerStops(n))
  /\ \A m \in Meta : WF_vars(MetaStep(m))
  /\ \A r \in Resource : WF_vars(Reflect(r)) /\ WF_vars(Dispatch(r))

FairSpec == Spec /\ Fairness

-----------------------------------------------------------------------------
Stages == {"none", "subscribes", "fails", "starts", "runs", "halts", "releases"}

TypeOK ==
  /\ crs \in [Name -> CRSpec \union {None}]
  /\ known \subseteq Resource
  /\ objects \in [Resource -> BOOLEAN]
  /\ metas \in [Meta -> [does : {"works", "drains", "closes", "done"},
                         at : Name \union {None}, cr : CRSpec \union {None}]]
  /\ metaQueue \subseteq Name
  /\ informers \in [Resource -> Informer \union {None}]
  /\ refCount \in [Resource -> Nat]
  /\ ctls \in [Name -> [stage : Stages, spec : CRSpec \union {None}, subs : SUBSET Slot,
                        hand : SUBSET Slot, works : BOOLEAN]]
  /\ dirty \subseteq Name
  /\ seen \in [Name -> [Slot -> BOOLEAN]]
  /\ ticker \in [Name -> {"off", "waits", "fires"}]
  /\ changes \in 0..MaxChanges

-----------------------------------------------------------------------------
(* Properties.                                                              *)

(* However constructors fail and controllers are replaced and stopped, the  *)
(* factory's count of an informer is that of the subscriptions not closed,  *)
(* and the informer runs exactly as long as there is one ("Shared informers *)
(* that become unused will be stopped").                                    *)
Subscriptions(r) == {h \in Handler : h[2] \in ctls[h[1]].subs /\ Res(h[1], h[2]) = r}

CountsSubscriptions ==
  \A r \in Resource :
    /\ refCount[r] = Cardinality(Subscriptions(r))
    /\ informers[r] # None <=> Subscriptions(r) # {}

(* The factory keeps what SharedInformers promises to every controller: no  *)
(* other's constructor, failure or stop takes away an informer it has, or   *)
(* what that has listed, and none that nobody has is left running.          *)
CacheOf(r) ==
  CASE informers[r] = None -> "off"
    [] informers[r] # None /\ informers[r].listed -> "listed"
    [] OTHER -> "empty"

Factory == INSTANCE SharedInformers WITH
  Holder <- Handler,
  open <- [r \in Resource |-> Subscriptions(r)],
  cache <- [r \in Resource |-> CacheOf(r)]

KeepsInformers == Factory!Spec

(* Once RemoveEventHandlers returned, the handler is called no more, by a   *)
(* broadcast or by its own ticker, however they were interleaved; else the  *)
(* event would reach the queue of the controller that took the place.       *)
SilentOnceRemoved ==
  /\ \A r \in Resource : informers[r] # None => informers[r].calls \subseteq HandlersOf(r)
  /\ \A n \in Name : ticker[n] # "off" => 1 \in ctls[n].hand

(* If the metacontroller is not stopped and discovery knows the resources,  *)
(* then the controller of a custom resource runs with its last version (or  *)
(* not at all if it was deleted), and its last sync saw of every resource   *)
(* it handles what is stored: no parent, or the parent with its children,   *)
(* even those that were there before the handlers, of which none tells.     *)
Undisturbed(n) ==
  /\ metas[Owner[n]].does = "works"
  /\ crs[n] # None => WantedBy(crs[n]) \subseteq known

UpToDate(n) ==
  /\ ctls[n].spec = crs[n]
  /\ crs[n] # None =>
       /\ ctls[n].stage = "runs"
       /\ \A i \in Heard[crs[n]] :
            seen[n][i] = (objects[Wants[crs[n]][1]] /\ objects[Wants[crs[n]][i]])

CatchesUp == \A n \in Name : <>[]Undisturbed(n) => <>[]UpToDate(n)

(* Stopping a metacontroller ends, with its controllers, their tickers and  *)
(* their subscriptions gone, although keys left in its queue still start    *)
(* and replace controllers, and others use the informers.                   *)
AllGone(m) ==
  /\ metas[m].does = "done"
  /\ \A n \in Name : Owner[n] = m => ctls[n] = Absent /\ ticker[n] = "off"

StopEnds == \A m \in Meta : metas[m].does # "works" ~> AllGone(m)
=============================================================================
