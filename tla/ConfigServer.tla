---------------------------- MODULE ConfigServer ----------------------------
(***************************************************************************)
(* metac run with its configuration in files (ConfigServer): discovery, a  *)
(* ConfigMetaController that constructs and starts one WatchController for *)
(* each GenericController it has loaded, again and again until all are     *)
(* started or half an hour is over, and the way they are stopped.          *)
(*                                                                         *)
(* A constructor looks resources up one by one while discovery replaces    *)
(* what it knows, and subscribes to shared informers one by one; one that  *)
(* fails undoes its subscriptions, and the others are tried all the same.  *)
(***************************************************************************)
EXTENDS Discovery, Sequences, SequencesExt

CONSTANTS
  Server,     \* the client of discovery that is this server
  Config,     \* names of GenericControllers
  Path,       \* directories of configuration files that may be given
  Supplied,   \* what a load function returns, or None if there is none
  Watch,      \* [Config -> Resource]
  Attached,   \* [Config -> Seq(Resource)]
  Strategic,  \* [Config -> the attachments with an update strategy]
  Flag        \* values of RetryIndefinitelyForStart

(* A document is the name of a GenericController, or None for another kind. *)
Files == [kind : {"dir", "yaml", "json", "other"}, docs : Seq(Config \union {None}),
          readable : BOOLEAN]
Directories == [slash : BOOLEAN, files : Seq(Files)]

ASSUME ConfigAssumption ==
  /\ Server \in Client
  /\ \A p \in Path : p # None => p \in Directories
  /\ Supplied # None => Supplied \in Seq(Config)
  /\ Watch \in [Config -> Resource]
  /\ \A c \in Config : /\ Attached[c] \in Seq(Resource)
                       /\ Strategic[c] \subseteq {Attached[c][i] : i \in DOMAIN Attached[c]}
  /\ Flag \subseteq BOOLEAN
  /\ None \notin {"runs", "synced"}

VARIABLES
  indefinitely, \* RetryIndefinitelyUntilSucceed
  server,     \* "loads", "runs", "exits", or "failed": glog.Fatalf
  signalled,  \* has SIGTERM arrived?
  configs,    \* Configs
  starter,    \* the goroutine that starts controllers
  expired,    \* has WaitTimeoutForStartAttempt passed?
  ctls,       \* the controllers that were started
  informers,  \* shared informers: None, "runs", "synced"
  refCount

starting == <<indefinitely, server, signalled, configs, starter, expired>>
shared   == <<informers, refCount>>
vars     == <<discoveryVars, starting, ctls, shared>>

(* Subscriptions are numbered in the order they are made, the watch's first. *)
Resources(c) == <<Watch[c]>> \o Attached[c]

Slots == UNION {DOMAIN Resources(c) : c \in Config}

Absent == [stage |-> "none", subs |-> {}]

(* at: the config at hand; look: how many lookups its constructor has done; *)
(* subs: its subscriptions; errs: has this attempt met an error?            *)
NotStarting == [does |-> "off", at |-> 1, look |-> 0, subs |-> {}, errs |-> FALSE]

Init ==
  /\ DiscoveryInit
  /\ indefinitely \in Flag
  /\ server = "loads" /\ signalled = FALSE
  /\ configs = <<>>
  /\ starter = NotStarting
  /\ expired = FALSE
  /\ ctls = [c \in Config |-> Absent]
  /\ informers = [r \in Resource |-> None]
  /\ refCount = [r \in Resource |-> 0]

-----------------------------------------------------------------------------
(* Config.Load and ListGenericControllers: files that are neither yaml nor  *)
(* json are skipped, and their path is the concatenation of both names.     *)
Loaded(f) == f.kind \in {"yaml", "json"}

LoadFails(p) ==
  \/ p.files = <<>>
  \/ \E i \in DOMAIN p.files : Loaded(p.files[i]) /\ ~(p.slash /\ p.files[i].readable)

(* Documents of another kind are left out.  The mutant lists them.          *)
AnyKind(doc) == TRUE

Named(doc) == doc # None

Names(f) ==
  FlattenSeq([j \in DOMAIN f.docs |-> IF Named(f.docs[j]) THEN <<f.docs[j]>> ELSE <<>>])

Contents(p) ==
  FlattenSeq([i \in DOMAIN p.files |-> IF Loaded(p.files[i]) THEN Names(p.files[i]) ELSE <<>>])

(* isDuplicateConfig *)
HasDuplicate(list) == \E i, j \in DOMAIN list : i # j /\ list[i] = list[j]

Fails == server' = "failed" /\ UNCHANGED <<configs, starter>>

Runs(list) ==
  /\ server' = "runs"
  /\ configs' = list
  /\ starter' = [NotStarting EXCEPT !.does = "tries"]

Takes(list) == IF HasDuplicate(list) THEN Fails ELSE Runs(list)

(* ConfigServer.Start once discovery is started: a path that is given goes  *)
(* before a load function.                                                  *)
Load(p) ==
  /\ server = "loads" /\ started /\ caller[Server] = "idle"
  /\ IF p # None
     THEN IF LoadFails(p) THEN Fails ELSE Takes(Contents(p))
     ELSE IF Supplied = None THEN Fails ELSE Takes(Supplied)
  /\ UNCHANGED <<discoveryVars, indefinitely, signalled, expired, ctls, shared>>

-----------------------------------------------------------------------------
(* The constructor.  What it looks up before it subscribes to anything: the *)
(* selectors of the watch and of each attachment, the watch, the resources  *)
(* that have an update strategy.                                            *)
Lookups(c) ==
  LET InStrategy(r) == r \in Strategic[c]
  IN Resources(c) \o <<Watch[c]>> \o SelectSeq(Attached[c], InStrategy)

(* The selector of the attachments takes each of their kinds once.          *)
IsDuplicateResource(c, i) ==
  \E j \in 2..(i - 1) : i <= Len(Resources(c)) /\ Resources(c)[j] = Resources(c)[i]

Working == starter.does \in {"tries", "undoes"} /\ starter.at <= Len(configs)
At == configs[starter.at]

NextConfig(errs) ==
  starter' = [does |-> "tries", at |-> starter.at + 1, look |-> 0, subs |-> {}, errs |-> errs]

(* startAllWatchControllers skips what it has started before.               *)
AlreadyStarted(c) == ctls[c] # Absent

SkipStarted ==
  /\ Working /\ AlreadyStarted(At)
  /\ NextConfig(starter.errs)
  /\ UNCHANGED <<discoveryVars, indefinitely, server, signalled, configs, expired, ctls, shared>>

Constructing == Working /\ starter.does = "tries" /\ ~AlreadyStarted(At)

(* An error is collected, and the next config tried.  The mutant gives the  *)
(* attempt up.                                                              *)
GiveUp == starter' = [NotStarting EXCEPT !.does = "tries", !.at = Len(configs) + 1, !.errs = TRUE]

TryNext == NextConfig(TRUE)

LookUp ==
  LET i == starter.look + 1
  IN /\ Constructing /\ starter.look < Len(Lookups(At))
     /\ IF Discovered(Lookups(At)[i]) /\ ~IsDuplicateResource(At, i)
        THEN starter' = [starter EXCEPT !.look = i]
        ELSE TryNext
     /\ UNCHANGED <<discoveryVars, indefinitely, server, signalled, configs, expired, ctls, shared>>

(* GetOrCreate asks discovery for what has no informer yet.                 *)
CanGet(r) == informers[r] # None \/ Discovered(r)

(* The mutant starts an informer for each subscriber, in the other's place. *)
CreateAnew(r) ==
  /\ refCount' = [refCount EXCEPT ![r] = @ + 1]
  /\ informers' = [informers EXCEPT ![r] = "runs"]

GetOrCreate(r) ==
  /\ refCount' = [refCount EXCEPT ![r] = @ + 1]
  /\ informers' = [informers EXCEPT ![r] = IF @ = None THEN "runs" ELSE @]

Subscribe ==
  LET i == Cardinality(starter.subs) + 1
      r == Resources(At)[i]
  IN /\ Constructing /\ starter.look = Len(Lookups(At))
     /\ i <= Len(Resources(At))
     /\ IF CanGet(r)
        THEN GetOrCreate(r) /\ starter' = [starter EXCEPT !.subs = @ \union {i}]
        ELSE starter' = [starter EXCEPT !.does = "undoes"] /\ UNCHANGED shared
     /\ UNCHANGED <<discoveryVars, indefinitely, server, signalled, configs, expired, ctls>>

(* closeFn.  The mutant stops the informer whoever else has it.             *)
StopInformer(r) ==
  /\ informers' = [informers EXCEPT ![r] = None]
  /\ refCount' = [refCount EXCEPT ![r] = 0]

CloseFn(r) ==
  IF refCount[r] > 1
  THEN refCount' = [refCount EXCEPT ![r] = @ - 1] /\ UNCHANGED informers
  ELSE StopInformer(r)

(* Attachments' informers are closed in any order, and the watch's last.    *)
IsNextToClose(subs, i) == i \in subs /\ (i = 1 => subs = {1})

(* The deferred function of a constructor that fails.                       *)
ClosesAll ==
  \/ \E i \in starter.subs :
       /\ IsNextToClose(starter.subs, i)
       /\ CloseFn(Resources(At)[i])
       /\ starter' = [starter EXCEPT !.subs = @ \ {i}]
  \/ starter.subs = {} /\ TryNext /\ UNCHANGED shared

Undo ==
  /\ Working /\ starter.does = "undoes"
  /\ ClosesAll
  /\ UNCHANGED <<discoveryVars, indefinitely, server, signalled, configs, expired, ctls>>

StartController ==
  /\ Constructing /\ Cardinality(starter.subs) = Len(Resources(At))
  /\ ctls' = [ctls EXCEPT ![At] = [stage |-> "waits", subs |-> starter.subs]]
  /\ NextConfig(starter.errs)
  /\ UNCHANGED <<discoveryVars, indefinitely, server, signalled, configs, expired, shared>>

-----------------------------------------------------------------------------
(* startWithRetries: the end of an attempt.                                 *)
(* The time is looked at only if there is a limit. *)
TimedOut == expired

EndAttempt ==
  /\ starter.does = "tries" /\ starter.at > Len(configs)
  /\ IF ~starter.errs
     THEN starter' = [starter EXCEPT !.does = "done"] /\ UNCHANGED server
     ELSE IF TimedOut
     THEN server' = "failed" /\ UNCHANGED starter
     ELSE starter' = [starter EXCEPT !.does = "sleeps"] /\ UNCHANGED server
  /\ UNCHANGED <<discoveryVars, indefinitely, signalled, configs, expired, ctls, shared>>

RetryStart ==
  /\ starter.does = "sleeps"
  /\ starter' = [NotStarting EXCEPT !.does = "tries"]
  /\ UNCHANGED <<discoveryVars, indefinitely, server, signalled, configs, expired, ctls, shared>>

TimePasses ==
  /\ server = "runs" /\ starter.does # "done" /\ ~indefinitely /\ ~expired
  /\ expired' = TRUE
  /\ UNCHANGED <<discoveryVars, indefinitely, server, signalled, configs, starter, ctls, shared>>

-----------------------------------------------------------------------------
(* An informer lists its resource, and a controller starts its workers once *)
(* all of its informers have.                                               *)
List(r) ==
  /\ informers[r] = "runs" /\ r \in installed
  /\ informers' = [informers EXCEPT ![r] = "synced"]
  /\ UNCHANGED <<discoveryVars, starting, ctls, refCount>>

Synced(c) == \A i \in ctls[c].subs : informers[Resources(c)[i]] = "synced"

StartWorkers(c) ==
  /\ ctls[c].stage = "waits" /\ Synced(c)
  /\ ctls' = [ctls EXCEPT ![c].stage = "works"]
  /\ UNCHANGED <<discoveryVars, starting, shared>>

-----------------------------------------------------------------------------
(* main on SIGTERM, and Stop: it waits for the goroutine that starts        *)
(* controllers, then stops all at once.                                     *)
Signal ==
  /\ server = "runs" /\ ~signalled
  /\ signalled' = TRUE
  /\ UNCHANGED <<discoveryVars, indefinitely, server, configs, starter, expired, ctls, shared>>

(* The mutant does not wait.                                                *)
StopsAnyway == TRUE

StarterDone == starter.does = "done"

Stopping == server = "runs" /\ signalled /\ StarterDone

(* A controller that waits for its caches is released by its stop channel;  *)
(* the mutant's is not.                                                     *)
OnceItWorks(c) == ctls[c].stage = "works"

Haltable(c) == ctls[c].stage \in {"waits", "works"}

Halt(c) ==
  /\ Stopping /\ Haltable(c)
  /\ ctls' = [ctls EXCEPT ![c].stage = "halts"]
  /\ UNCHANGED <<discoveryVars, starting, shared>>

Release(c) ==
  /\ ctls[c].stage = "halts"
  /\ \/ \E i \in ctls[c].subs :
          /\ IsNextToClose(ctls[c].subs, i)
          /\ CloseFn(Resources(c)[i])
          /\ ctls' = [ctls EXCEPT ![c].subs = @ \ {i}]
     \/ /\ ctls[c].subs = {}
        /\ ctls' = [ctls EXCEPT ![c].stage = "stopped"]
        /\ UNCHANGED shared
  /\ UNCHANGED <<discoveryVars, starting>>

Exit ==
  /\ Stopping
  /\ \A c \in Config : ctls[c].stage \in {"none", "stopped"}
  /\ server' = "exits"
  /\ UNCHANGED <<discoveryVars, indefinitely, signalled, configs, starter, expired, ctls, shared>>

-----------------------------------------------------------------------------
Alive == server \in {"loads", "runs"}

(* The instance is handed out once the server runs.                         *)
Discovers ==
  /\ Alive
  /\ \/ \E k \in Client : Loops(k)
     \/ server = "loads" /\ (StartIfNotAlready(Server) \/ Spawn(Server))
     \/ server # "loads" /\ \E k \in Client \ {Server} : Calls(k)
  /\ UNCHANGED <<starting, ctls, shared>>

Installs ==
  /\ Alive
  /\ \E r \in Resource : Install(r)
  /\ UNCHANGED <<starting, ctls, shared>>

Starter ==
  /\ server = "runs"
  /\ \/ SkipStarted \/ LookUp \/ Subscribe \/ Undo \/ StartController
     \/ EndAttempt \/ RetryStart

Controllers ==
  /\ server = "runs"
  /\ \/ \E r \in Resource : List(r)
     \/ \E c \in Config : StartWorkers(c) \/ Halt(c) \/ Release(c)

Next ==
  \/ Discovers \/ Installs
  \/ \E p \in Path : Load(p)
  \/ Starter \/ Controllers \/ TimePasses \/ Signal \/ Exit

Spec == Init /\ [][Next]_vars

(* Goroutines go on, tickers fire and time passes.                          *)
LoopGoesOn(k) == Alive /\ (Refresh(k) \/ LoopTicks(k)) /\ UNCHANGED <<starting, ctls, shared>>

Fairness ==
  /\ \A k \in Client : WF_vars(LoopGoesOn(k))
  /\ WF_vars(Starter)
  /\ WF_vars(Controllers \/ TimePasses \/ Exit)

FairSpec == Spec /\ Fairness

-----------------------------------------------------------------------------
TypeOK ==
  /\ DiscoveryTypeOK
  /\ indefinitely \in Flag
  /\ server \in {"loads", "runs", "exits", "failed"} /\ signalled \in BOOLEAN
  /\ configs \in Seq(Config)
  /\ starter \in [does : {"off", "tries", "undoes", "sleeps", "done"}, at : Nat \ {0},
                  look : Nat, subs : SUBSET Slots, errs : BOOLEAN]
  /\ expired \in BOOLEAN
  /\ ctls \in [Config -> [stage : {"none", "waits", "works", "halts", "stopped"},
                          subs : SUBSET Slots]]
  /\ informers \in [Resource -> {None, "runs", "synced"}]
  /\ refCount \in [Resource -> Nat]

(* Every subscription is counted, those of a constructor at work included,  *)
(* and an informer runs as long as there is one: failed attempts, of which  *)
(* there may be any number, leave nothing behind.                           *)
Subscriptions(r) ==
  Cardinality({s \in Config \X Slots :
                 s[2] \in ctls[s[1]].subs /\ Resources(s[1])[s[2]] = r})
    + Cardinality({i \in starter.subs : Resources(At)[i] = r})

CountsSubscriptions ==
  \A r \in Resource : /\ refCount[r] = Subscriptions(r)
                      /\ informers[r] # None <=> refCount[r] > 0

(* The factory keeps what SharedInformers promises: of many constructors    *)
(* that fail and are tried again none takes away an informer, or what it    *)
(* has listed, from a controller that was started.  A subscription stays    *)
(* the same one when it passes from the constructor to its controller.      *)
Held(r) ==
  {s \in Config \X Slots : s[2] \in ctls[s[1]].subs /\ Resources(s[1])[s[2]] = r}
    \union {<<At, i>> : i \in {i \in starter.subs : Resources(At)[i] = r}}

CacheOf(r) == CASE informers[r] = None -> "off"
                [] informers[r] = "runs" -> "empty"
                [] informers[r] = "synced" -> "listed"

Factory == INSTANCE SharedInformers WITH
  Holder <- Config \X Slots,
  open <- [r \in Resource |-> Held(r)],
  cache <- [r \in Resource |-> CacheOf(r)]

KeepsInformers == Factory!Spec

(* A server that exits on a signal has stopped every controller it started, *)
(* those that were being started when the signal came included, and every   *)
(* informer.                                                                *)
ExitsClean ==
  server = "exits" =>
    /\ \A c \in Config : ctls[c].stage \in {"none", "stopped"}
    /\ \A r \in Resource : informers[r] = None

(* A controller whose resources are there for good works in the end, be     *)
(* those of the others missing for ever ("This helps operating controllers  *)
(* independently"), unless the server is told to stop or gives up.          *)
Available(c) ==
  /\ started /\ ~closed
  /\ server = "runs" /\ \E i \in DOMAIN configs : configs[i] = c
  /\ \A i \in DOMAIN Resources(c) : Resources(c)[i] \in installed

EveryConfigStarts ==
  \A c \in Config : <>[]Available(c) => <>(ctls[c].stage = "works" \/ signalled)

(* "On SIGTERM, stop all controllers gracefully": the process ends, if the  *)
(* attempts to start what is missing end some day.  With attempts without   *)
(* end Stop waits for the goroutine that makes them, and no signal ends it. *)
StopEndsInTime == signalled /\ ~indefinitely ~> ~Alive
=============================================================================
