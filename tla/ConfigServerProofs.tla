-------------------------- MODULE ConfigServerProofs --------------------------
(***************************************************************************)
(* Theorems about ConfigServer.  However many clients start and stop       *)
(* discovery, one goroutine at most discovers, and what is known only gets *)
(* newer.  However many attempts fail to start controllers, every open     *)
(* subscription to an informer is counted, and none is left when the       *)
(* server exits.                                                           *)
(***************************************************************************)
EXTENDS ConfigServer, FiniteSetTheorems, TLAPS

(* Induction over data, for the provers that take no induction rule with a  *)
(* predicate as its parameter: the rule is stated of a set of numbers, and  *)
(* rests on there being a least among the finite sets 0..k of those that    *)
(* are not in it.                                                           *)
LEMMA SetInduction ==
  ASSUME NEW S, 0 \in S, \A k \in Nat : k \in S => k + 1 \in S
  PROVE  Nat \subseteq S
<1> SUFFICES ASSUME NEW n \in Nat, n \notin S PROVE FALSE
  OBVIOUS
<1> DEFINE T == {0..k : k \in {j \in 0..n : j \notin S}}
           R == StrictSubsetOrdering(0..n)
<1>1. IsFiniteSet(0..n)
  BY FS_Interval
<1>2. IsWellFoundedOn(R, SUBSET (0..n))
  BY <1>1, FS_StrictSubsetOrderingWellFounded, FS_FiniteSubsetsOfFinite
<1>3. T \subseteq SUBSET (0..n) /\ T # {}
  <2>1. 0..n \in T
    OBVIOUS
  <2>2. \A x \in T : x \subseteq 0..n
    OBVIOUS
  <2> QED
    BY <2>1, <2>2
<1> HIDE DEF R, T
<1>4. PICK x \in T : \A y \in T : <<y, x>> \notin R
  BY <1>2, <1>3, WFMin
<1>5. PICK k \in 0..n : k \notin S /\ x = 0..k
  BY <1>4 DEF T
<1>6. k # 0 /\ k - 1 \in 0..n
  BY <1>5
<1>7. k - 1 \notin S
  <2>1. k - 1 \in Nat /\ k - 1 + 1 = k
    BY <1>6
  <2> QED
    BY <1>5, <2>1
<1>8. 0..(k - 1) \in T
  BY <1>6, <1>7 DEF T
<1>9. 0..(k - 1) \subseteq x /\ 0..(k - 1) # x /\ x \subseteq 0..n
  <2>1. k \in x /\ k \notin 0..(k - 1)
    BY <1>5
  <2>2. 0..(k - 1) \subseteq x /\ x \subseteq 0..n
    BY <1>5, <1>6
  <2> QED
    BY <2>1, <2>2
<1>10. <<0..(k - 1), x>> \in R
  BY <1>9 DEF R, StrictSubsetOrdering
<1> QED
  BY <1>4, <1>8, <1>10

LEMMA AsSequence ==
  ASSUME NEW S, NEW n \in Nat, NEW f \in [1..n -> S]
  PROVE  f \in Seq(S) /\ Len(f) = n
OBVIOUS

(* FlattenSeq puts sequences one after the other; its recursive function is *)
(* shown to exist, and then to be well typed, by induction over positions.  *)
LEMMA FlattenType ==
  ASSUME NEW S, NEW seqs \in Seq(Seq(S))
  PROVE  FlattenSeq(seqs) \in Seq(S)
<1> DEFINE L == Len(seqs)
           Step(g, i) == IF i = 1 THEN seqs[i] ELSE g[i-1] \o seqs[i]
           Upto(g, k) == g = [i \in 1..k |-> Step(g, i)]
           flatten == CHOOSE g : Upto(g, L)
<1>0. L \in Nat /\ \A i \in 1..L : seqs[i] \in Seq(S)
  OBVIOUS
<1>1. CASE L = 0
  <2>1. seqs = <<>> /\ <<>> \in Seq(S)
    BY <1>1
  <2>2. FlattenSeq(seqs) = seqs
    BY <1>1 DEF FlattenSeq
  <2> HIDE DEF L
  <2> QED
    BY <2>1, <2>2, Zenon
<1>2. CASE L # 0
  <2>1. FlattenSeq(seqs) = flatten[L]
    BY <1>2 DEF FlattenSeq
  <2>2. \E g : Upto(g, L)
    <3> DEFINE Defined == {k \in Nat : \E g : Upto(g, k)}
    <3>1. 0 \in Defined
      <4>1. Upto(<<>>, 0)
        OBVIOUS
      <4> QED
        BY <4>1
    <3>2. ASSUME NEW k \in Nat, k \in Defined
          PROVE  k + 1 \in Defined
      <4>1. PICK g : Upto(g, k)
        BY <3>2
      <4> DEFINE h == [i \in 1..(k + 1) |-> Step(g, i)]
      <4>2. \A i \in 1..k : g[i] = Step(g, i)
        BY <4>1
      <4>3. \A i \in 1..k : h[i] = g[i]
        BY <4>2
      <4>4. \A i \in 1..(k + 1) : Step(h, i) = Step(g, i)
        <5> HIDE DEF h
        <5>1. \A i \in 1..(k + 1) : i # 1 => i - 1 \in 1..k
          OBVIOUS
        <5>2. \A i \in 1..(k + 1) : i # 1 => h[i-1] = g[i-1]
          BY <4>3, <5>1
        <5> QED
          BY <5>2
      <4> HIDE DEF Step
      <4>5. Upto(h, k + 1)
        BY <4>4
      <4> HIDE DEF h
      <4> QED
        BY <4>5
    <3> HIDE DEF Defined
    <3>3. Nat \subseteq Defined
      BY <3>1, <3>2, SetInduction, Zenon
    <3>4. L \in Defined
      BY <1>0, <3>3
    <3> QED
      BY <3>4 DEF Defined
  <2>3. Upto(flatten, L)
    BY <2>2, Zenon
  <2> HIDE DEF flatten
  <2>4. \A i \in 1..L : flatten[i] = Step(flatten, i)
    BY <2>3
  <2>5. ASSUME NEW k \in Nat, k # 0, k + 1 \in 1..L
        PROVE  flatten[k + 1] = flatten[k] \o seqs[k + 1]
    <3>1. \A i \in 1..L : i # 1 => flatten[i] = flatten[i-1] \o seqs[i]
      BY <2>4
    <3>2. PICK i \in 1..L : i = k + 1
      BY <2>5
    <3>3. i # 1 /\ i - 1 = k
      BY <2>5, <3>2
    <3>4. flatten[i] = flatten[i-1] \o seqs[i]
      BY <3>1, <3>3
    <3>5. flatten[i] = flatten[k] \o seqs[i]
      BY <3>3, <3>4
    <3> QED
      BY <3>2, <3>5
  <2> DEFINE Typed == {k \in Nat : k \in 1..L => flatten[k] \in Seq(S)}
  <2>6. ASSUME NEW k \in Nat, k \in Typed
        PROVE  k + 1 \in Typed
    <3> SUFFICES ASSUME k + 1 \in 1..L PROVE flatten[k + 1] \in Seq(S)
      OBVIOUS
    <3>1. CASE k = 0
      BY <1>0, <2>4, <3>1
    <3>2. CASE k # 0
      <4>1. k + 1 # 1 /\ k + 1 - 1 = k /\ k \in 1..L
        BY <3>2
      <4>2. flatten[k + 1] = flatten[k] \o seqs[k + 1]
        BY <2>5, <3>2
      <4>3. flatten[k] \in Seq(S) /\ seqs[k + 1] \in Seq(S)
        BY <1>0, <2>6, <4>1
      <4> QED
        BY <4>2, <4>3
    <3> QED
      BY <3>1, <3>2
  <2>7. 0 \in Typed
    BY <1>0
  <2> HIDE DEF Typed
  <2>8. Nat \subseteq Typed
    BY <2>6, <2>7, SetInduction
  <2>9. flatten[L] \in Seq(S)
    <3>1. L \in Typed /\ L \in 1..L
      BY <1>0, <1>2, <2>8
    <3> QED
      BY <3>1 DEF Typed
  <2> QED
    BY <2>1, <2>9
<1> QED
  BY <1>1, <1>2

-----------------------------------------------------------------------------
Spawns(k) == caller[k] = "spawns"
Waits(k)  == caller[k] = "waits"

(* Whoever has taken the flag, or the right to stop, has it alone.          *)
OneCaller ==
  /\ \A k, j \in Client : caller[k] # "idle" /\ caller[j] # "idle" => k = j
  /\ \A k \in Client : Waits(k) => closed
  /\ ~started => \A k \in Client : caller[k] = "idle"

(* No goroutine is left when one is spawned, and when it has ended.         *)
NoneLeft ==
  /\ ~started => ~Spawned
  /\ \A k \in Client : Spawns(k) => ~Spawned
  /\ ended => ~Spawned

(* What was fetched is no older than what is known, nor newer than what the *)
(* API server has.                                                          *)
Fetched(k) ==
  loop[k].at = "replaces" =>
    /\ loop[k].got \in Answer /\ loop[k].got.since <= changes
    /\ known # None => known.since <= loop[k].got.since

FetchedNewer ==
  /\ known # None => known.since <= changes
  /\ \A k \in Client : Fetched(k)

DiscoveryInv == DiscoveryTypeOK /\ OneCaller /\ NoneLeft /\ OneLoop /\ FetchedNewer

-----------------------------------------------------------------------------
(* Whatever the server does, discovery takes a step of its own or none.     *)
LEMMA StepsOfDiscovery ==
  ASSUME [Next]_vars
  PROVE  [DiscoveryNext]_discoveryVars
<1>1. CASE Discovers
  BY <1>1, ConfigAssumption DEF Discovers, DiscoveryNext, Calls, discoveryVars
<1>2. CASE Installs
  BY <1>2 DEF Installs, DiscoveryNext
<1>3. CASE \E p \in Path : Load(p)
  BY <1>3 DEF Load
<1>4. CASE Starter
  BY <1>4 DEF Starter, SkipStarted, LookUp, Subscribe, Undo, StartController,
              EndAttempt, RetryStart
<1>5. CASE Controllers
  BY <1>5 DEF Controllers, List, StartWorkers, Halt, Release
<1>6. CASE TimePasses \/ Signal \/ Exit
  BY <1>6 DEF TimePasses, Signal, Exit
<1>7. CASE UNCHANGED vars
  BY <1>7 DEF vars
<1> QED BY <1>1, <1>2, <1>3, <1>4, <1>5, <1>6, <1>7 DEF Next

LEMMA InvHoldsAtFirst == DiscoveryInit => DiscoveryInv
<1> SUFFICES ASSUME DiscoveryInit PROVE DiscoveryInv OBVIOUS
<1>1. DiscoveryTypeOK
  BY DiscoveryAssumption DEF DiscoveryInit, DiscoveryTypeOK, NoLoop
<1>2. OneCaller /\ NoneLeft /\ OneLoop
  BY DEF DiscoveryInit, OneCaller, NoneLeft, OneLoop, NoLoop, Spawned, Spawns, Waits
<1>3. FetchedNewer
  BY DEF DiscoveryInit, FetchedNewer, Fetched, NoLoop
<1> QED BY <1>1, <1>2, <1>3 DEF DiscoveryInv

LEMMA TypesStay ==
  ASSUME DiscoveryTypeOK, [DiscoveryNext]_discoveryVars
  PROVE  DiscoveryTypeOK'
<1> USE DEF DiscoveryTypeOK, discovery, channels, apiServer
<1>1. ASSUME NEW k \in Client, Calls(k) PROVE DiscoveryTypeOK'
  <2>1. CASE StartIfNotAlready(k)
    BY <2>1 DEF StartIfNotAlready
  <2>2. CASE Spawn(k)
    BY <2>2 DEF Spawn
  <2>3. CASE StopDiscovery(k)
    BY <2>3 DEF StopDiscovery
  <2>4. CASE DiscoveryStopped(k)
    BY <2>4 DEF DiscoveryStopped
  <2> QED
    BY <1>1, <2>1, <2>2, <2>3, <2>4 DEF Calls
<1>2. ASSUME NEW k \in Client, Fetch(k) PROVE DiscoveryTypeOK'
  BY <1>2 DEF Fetch, Steps, Answer
<1>3. ASSUME NEW k \in Client, FetchFails(k) \/ LoopTicks(k) \/ LoopEnds(k)
      PROVE  DiscoveryTypeOK'
  <2>1. CASE FetchFails(k)
    BY <2>1 DEF FetchFails, Steps
  <2>2. CASE LoopTicks(k)
    BY <2>2 DEF LoopTicks, Steps
  <2>3. CASE LoopEnds(k)
    BY <2>3 DEF LoopEnds, Steps
  <2> QED BY <1>3, <2>1, <2>2, <2>3
<1>4. ASSUME NEW k \in Client, Replace(k) PROVE DiscoveryTypeOK'
  BY <1>4 DEF Replace, Steps
<1>5. ASSUME NEW r \in Resource, Install(r) PROVE DiscoveryTypeOK'
  BY <1>5 DEF Install
<1>6. CASE UNCHANGED discoveryVars
  BY <1>6 DEF discoveryVars
<1> QED
  BY <1>1, <1>2, <1>3, <1>4, <1>5, <1>6 DEF DiscoveryNext, Loops, Refresh

(* The callers of Start and Stop exclude each other: the flag keeps the     *)
(* starters out, and the closed channel those who would stop.               *)
LEMMA CallersExclude ==
  ASSUME DiscoveryInv, [DiscoveryNext]_discoveryVars
  PROVE  OneCaller' /\ NoneLeft' /\ OneLoop'
<1> USE DEF DiscoveryInv, DiscoveryTypeOK, OneCaller, NoneLeft, OneLoop, Spawned,
            Spawns, Waits, discovery, channels, apiServer
<1>1. ASSUME NEW k \in Client, StartIfNotAlready(k)
      PROVE  OneCaller' /\ NoneLeft' /\ OneLoop'
  BY <1>1 DEF StartIfNotAlready, NotStarted
<1>2. ASSUME NEW k \in Client, Spawn(k)
      PROVE  OneCaller' /\ NoneLeft' /\ OneLoop'
  BY <1>2 DEF Spawn
<1>3. ASSUME NEW k \in Client, StopDiscovery(k)
      PROVE  OneCaller' /\ NoneLeft' /\ OneLoop'
  <2>1. \A j \in Client : caller[j] = "idle"
    BY <1>3 DEF StopDiscovery
  <2>2. ~ended
    BY <1>3 DEF StopDiscovery
  <2> QED BY <1>3, <2>1, <2>2 DEF StopDiscovery
<1>4. ASSUME NEW k \in Client, DiscoveryStopped(k)
      PROVE  OneCaller' /\ NoneLeft' /\ OneLoop'
  BY <1>4 DEF DiscoveryStopped, HasEnded
<1>5. ASSUME NEW k \in Client, Refresh(k) \/ LoopTicks(k)
      PROVE  OneCaller' /\ NoneLeft' /\ OneLoop'
  BY <1>5 DEF Refresh, Fetch, FetchFails, Replace, LoopTicks, Steps
<1>6. ASSUME NEW k \in Client, LoopEnds(k)
      PROVE  OneCaller' /\ NoneLeft' /\ OneLoop'
  <2>1. \A j \in Client : loop'[j].at = "off"
    BY <1>6 DEF LoopEnds, Steps
  <2> QED BY <1>6, <2>1 DEF LoopEnds, Steps
<1>7. CASE \E r \in Resource : Install(r)
  BY <1>7 DEF Install
<1>8. CASE UNCHANGED discoveryVars
  BY <1>8 DEF discoveryVars
<1> QED
  BY <1>1, <1>2, <1>3, <1>4, <1>5, <1>6, <1>7, <1>8 DEF DiscoveryNext, Calls, Loops

(* Because one goroutine at most discovers, nobody replaces what is known   *)
(* while another holds an answer.                                           *)
LEMMA FetchedStaysNewer ==
  ASSUME DiscoveryInv, [DiscoveryNext]_discoveryVars
  PROVE  FetchedNewer'
<1> USE DEF DiscoveryInv, DiscoveryTypeOK, FetchedNewer, Fetched, discovery, channels,
            apiServer
<1>1. ASSUME NEW k \in Client, Calls(k) PROVE FetchedNewer'
  <2>1. UNCHANGED <<known, changes>> /\ \A j \in Client : loop'[j].at = "replaces" => loop'[j] = loop[j]
    BY <1>1 DEF Calls, StartIfNotAlready, Spawn, StopDiscovery, DiscoveryStopped
  <2> QED BY <2>1
<1>2. ASSUME NEW k \in Client, Fetch(k) PROVE FetchedNewer'
  BY <1>2 DEF Fetch, Steps, Answer
<1>3. ASSUME NEW k \in Client, FetchFails(k) \/ LoopTicks(k) \/ LoopEnds(k)
      PROVE  FetchedNewer'
  BY <1>3 DEF FetchFails, LoopTicks, LoopEnds, Steps
<1>4. ASSUME NEW k \in Client, Replace(k) PROVE FetchedNewer'
  BY <1>4 DEF Replace, Steps, OneLoop
<1>5. ASSUME NEW r \in Resource, Install(r) PROVE FetchedNewer'
  BY <1>5 DEF Install, Answer
<1>6. CASE UNCHANGED discoveryVars
  BY <1>6 DEF discoveryVars
<1> QED
  BY <1>1, <1>2, <1>3, <1>4, <1>5, <1>6 DEF DiscoveryNext, Loops, Refresh

LEMMA InvStays == DiscoveryInv /\ [Next]_vars => DiscoveryInv'
BY StepsOfDiscovery, TypesStay, CallersExclude, FetchedStaysNewer DEF DiscoveryInv

LEMMA InvAlways == Spec => []DiscoveryInv
<1>1. Init => DiscoveryInv
  BY InvHoldsAtFirst DEF Init
<1> QED BY <1>1, InvStays, PTL DEF Spec

(* StartIfNotAlready sets the flag under the lock, and Stop resets it after *)
(* the goroutine has ended: there are never two that discover.              *)
THEOREM AlwaysOneLoop == Spec => []OneLoop
<1>1. DiscoveryInv => OneLoop
  BY DEF DiscoveryInv
<1> QED BY <1>1, InvAlways, PTL

(* refresh replaces the map with what it fetched without the lock, and yet  *)
(* no answer takes the place of a later one.                                *)
THEOREM NeverForgets == Spec => NeverOlder
<1>1. ASSUME DiscoveryInv, [DiscoveryNext]_discoveryVars
      PROVE  [known # None => known' # None /\ known'.since >= known.since]_discoveryVars
  <2> USE DEF DiscoveryInv, DiscoveryTypeOK, discovery, channels, apiServer
  <2>1. ASSUME NEW k \in Client, Replace(k), known # None
        PROVE  known' # None /\ known'.since >= known.since
    <3>1. /\ known' = loop[k].got /\ loop[k].got \in Answer
          /\ known.since <= loop[k].got.since /\ known \in Answer
      BY <1>1, <2>1 DEF Replace, FetchedNewer, Fetched
    <3> QED BY <3>1, DiscoveryAssumption DEF Answer
  <2>2. (\E k \in Client : Replace(k)) \/ known' = known
    BY <1>1 DEF DiscoveryNext, Calls, StartIfNotAlready, Spawn, StopDiscovery,
                DiscoveryStopped, Loops, Refresh, Fetch, FetchFails, LoopTicks, LoopEnds,
                Install, discoveryVars
  <2>3. known # None => known.since >= known.since
    BY <1>1 DEF Answer
  <2> QED BY <2>1, <2>2, <2>3
<1>2. DiscoveryInv /\ [Next]_vars
        => [known # None => known' # None /\ known'.since >= known.since]_discoveryVars
  BY <1>1, StepsOfDiscovery
<1> QED BY <1>2, InvAlways, PTL DEF Spec, NeverOlder

-----------------------------------------------------------------------------
(* Subscriptions.  The invariant says whose they are: those of the          *)
(* constructor at work are the first of what it wants, and only while it    *)
(* works; a controller that is not running has none.                        *)
Stage == {"none", "waits", "works", "halts", "stopped"}
Ctl == [stage : Stage, subs : SUBSET Slots]
Starting == [does : {"off", "tries", "undoes", "sleeps", "done"}, at : Nat \ {0},
             look : Nat, subs : SUBSET Slots, errs : BOOLEAN]

ServerOK ==
  /\ indefinitely \in Flag
  /\ server \in {"loads", "runs", "exits", "failed"} /\ signalled \in BOOLEAN
  /\ expired \in BOOLEAN

ConstructorOK ==
  /\ server = "loads" => starter = NotStarting
  /\ starter.subs # {} => /\ Working /\ ctls[At] = Absent
                          /\ starter.does = "tries" => starter.look = Len(Lookups(At))
  /\ Working => starter.subs \subseteq DOMAIN Resources(At)
  /\ Working /\ starter.does = "tries" =>
       \E k \in 0..Len(Resources(At)) : starter.subs = 1..k

ControllersOK ==
  \A c \in Config : /\ ctls[c].subs \subseteq DOMAIN Resources(c)
                    /\ ctls[c].stage \in {"none", "stopped"} => ctls[c].subs = {}

OfControllers(r) ==
  {s \in Config \X Slots : s[2] \in ctls[s[1]].subs /\ Resources(s[1])[s[2]] = r}

OfConstructor(r) == {i \in starter.subs : Resources(At)[i] = r}

Counted(r) ==
  /\ IsFiniteSet(OfControllers(r)) /\ IsFiniteSet(OfConstructor(r))
  /\ refCount[r] = Cardinality(OfControllers(r)) + Cardinality(OfConstructor(r))
  /\ informers[r] # None <=> refCount[r] > 0

AllCounted == \A r \in Resource : Counted(r)

TypedData ==
  /\ ServerOK /\ configs \in Seq(Config)
  /\ starter \in Starting /\ ctls \in [Config -> Ctl]
  /\ informers \in [Resource -> {None, "runs", "synced"}] /\ refCount \in [Resource -> Nat]

SubsInv == TypedData /\ ConstructorOK /\ ControllersOK /\ AllCounted /\ ExitsClean

LEMMA ConfigFacts ==
  ASSUME NEW c \in Config
  PROVE  /\ Len(Resources(c)) \in Nat \ {0} /\ DOMAIN Resources(c) = 1..Len(Resources(c))
         /\ \A i \in DOMAIN Resources(c) : i \in Slots /\ Resources(c)[i] \in Resource
<1>1. Watch[c] \in Resource /\ Attached[c] \in Seq(Resource)
  BY ConfigAssumption
<1>2. /\ Resources(c) \in Seq(Resource) /\ Len(Resources(c)) = 1 + Len(Attached[c])
      /\ Len(Attached[c]) \in Nat
  BY <1>1 DEF Resources
<1>3. \A i \in DOMAIN Resources(c) : i \in Slots
  BY DEF Slots
<1> HIDE DEF Resources
<1>4. Len(Resources(c)) \in Nat \ {0} /\ DOMAIN Resources(c) = 1..Len(Resources(c))
  BY <1>2
<1> QED
  BY <1>2, <1>3, <1>4

LEMMA AtFacts ==
  ASSUME TypedData, Working
  PROVE  At \in Config /\ starter.at \in DOMAIN configs
BY DEF TypedData, Working, Starting, At

LEMMA SubsTyped ==
  ASSUME SubsInv
  PROVE  /\ ServerOK /\ configs \in Seq(Config)
         /\ starter \in Starting /\ ctls \in [Config -> Ctl]
         /\ informers \in [Resource -> {None, "runs", "synced"}]
         /\ refCount \in [Resource -> Nat]
         /\ TypedData /\ ConstructorOK /\ ControllersOK /\ AllCounted /\ ExitsClean
BY DEF SubsInv, TypedData

(* A constructor that has subscribed to nothing needs nothing.              *)
LEMMA EmptyConstructor ==
  ASSUME configs' \in Seq(Config), starter' \in Starting, server' # "loads", starter'.subs = {}
  PROVE  ConstructorOK'
<1>1. ASSUME Working'
      PROVE  starter'.subs \subseteq DOMAIN Resources(At')
             /\ \E k \in 0..Len(Resources(At')) : starter'.subs = 1..k
  <2>1. At' \in Config
    BY <1>1 DEF Working, Starting, At
  <2>2. Len(Resources(At')) \in Nat
    BY <2>1, ConfigFacts
  <2>3. 0 \in 0..Len(Resources(At')) /\ 1..0 = {}
    BY <2>2
  <2> QED
    BY <2>3
<1> QED
  BY <1>1 DEF ConstructorOK

LEMMA CountsStay ==
  ASSUME SubsInv, UNCHANGED <<ctls, shared>>, starter'.subs = starter.subs,
         starter.subs # {} => At' = At
  PROVE  AllCounted' /\ ControllersOK'
<1>1. \A r \in Resource : /\ OfControllers(r)' = OfControllers(r)
                          /\ OfConstructor(r)' = OfConstructor(r)
  BY DEF OfControllers, OfConstructor
<1>2. UNCHANGED <<refCount, informers>>
  BY DEF shared
<1>3. AllCounted'
  BY <1>1, <1>2, SubsTyped DEF AllCounted, Counted
<1>4. ControllersOK'
  BY SubsTyped DEF ControllersOK
<1> QED
  BY <1>3, <1>4

LEMMA InitSubs == Init => SubsInv
<1> SUFFICES ASSUME Init PROVE SubsInv
  OBVIOUS
<1>1. TypedData
  <2>1. starter \in Starting
    BY DEF Init, NotStarting, Starting
  <2>2. ctls \in [Config -> Ctl]
    BY DEF Init, Absent, Ctl, Stage
  <2>3. ServerOK
    BY ConfigAssumption DEF Init, ServerOK
  <2>4. /\ configs \in Seq(Config) /\ refCount \in [Resource -> Nat]
        /\ informers \in [Resource -> {None, "runs", "synced"}]
    BY DEF Init
  <2> QED
    BY <2>1, <2>2, <2>3, <2>4 DEF TypedData
<1>2. starter = NotStarting /\ NotStarting.subs = {} /\ NotStarting.does = "off"
  BY DEF Init, NotStarting
<1>3. ConstructorOK
  BY <1>2 DEF ConstructorOK, Working
<1>4. \A c \in Config : ctls[c].subs = {}
  BY DEF Init, Absent
<1>5. ControllersOK
  BY <1>4 DEF ControllersOK
<1>6. \A r \in Resource : OfControllers(r) = {} /\ OfConstructor(r) = {}
  BY <1>2, <1>4 DEF OfControllers, OfConstructor
<1>7. AllCounted
  <2>1. IsFiniteSet({}) /\ Cardinality({}) = 0
    BY FS_EmptySet
  <2>2. \A r \in Resource : refCount[r] = 0 /\ informers[r] = None
    BY DEF Init
  <2> QED
    BY <1>6, <2>1, <2>2 DEF AllCounted, Counted
<1>8. ExitsClean
  BY DEF Init, ExitsClean
<1> QED
  BY <1>1, <1>3, <1>5, <1>7, <1>8 DEF SubsInv

-----------------------------------------------------------------------------
(* Steps that subscribe to nothing, and close nothing.                      *)

(* Discovery, time, signals, and the end.                                   *)
LEMMA QuietSteps ==
  ASSUME SubsInv, Discovers \/ Installs \/ TimePasses \/ Signal \/ Exit \/ UNCHANGED vars
  PROVE  SubsInv'
<1>1. /\ UNCHANGED <<configs, starter, ctls, shared>> /\ ServerOK'
      /\ server' = server \/ (server = "runs" /\ server' = "exits")
  <2>1. CASE Discovers \/ Installs \/ UNCHANGED vars
    BY <2>1, SubsTyped DEF Discovers, Installs, vars, starting, ServerOK
  <2>2. CASE TimePasses \/ Signal
    BY <2>2, SubsTyped DEF TimePasses, Signal, ServerOK
  <2>3. CASE Exit
    BY <2>3, SubsTyped DEF Exit, Stopping, ServerOK
  <2> QED
    BY <2>1, <2>2, <2>3
<1>2. TypedData'
  BY <1>1, SubsTyped DEF TypedData, shared
<1>3. ConstructorOK'
  BY <1>1, SubsTyped DEF ConstructorOK, Working, At
<1>4. AllCounted' /\ ControllersOK'
  BY <1>1, CountsStay DEF At
<1>5. ExitsClean'
  <2>1. CASE Exit
    <3>1. \A c \in Config : ctls[c].stage \in {"none", "stopped"} /\ ctls[c].subs = {}
      BY <2>1, SubsTyped DEF Exit, ControllersOK
    <3>2. starter.subs = {}
      BY <2>1, SubsTyped DEF Exit, Stopping, StarterDone, ConstructorOK, Working
    <3>3. \A r \in Resource : OfControllers(r) = {} /\ OfConstructor(r) = {}
      BY <3>1, <3>2 DEF OfControllers, OfConstructor
    <3>4. \A r \in Resource : refCount[r] = 0 + 0
      BY <3>3, SubsTyped, FS_EmptySet DEF AllCounted, Counted
    <3>5. \A r \in Resource : informers[r] = None
      BY <3>4, SubsTyped DEF AllCounted, Counted
    <3> QED
      BY <1>1, <3>1, <3>5 DEF ExitsClean, shared
  <2>2. CASE ~Exit
    <3>1. server' = server
      BY <1>1, <2>2 DEF Discovers, Installs, TimePasses, Signal, vars, starting
    <3> QED
      BY <1>1, <3>1, SubsTyped DEF ExitsClean, shared
  <2> QED
    BY <2>1, <2>2
<1> QED
  BY <1>2, <1>3, <1>4, <1>5 DEF SubsInv

(* The constructor has no subscription, before and after.                   *)
LEMMA IdleStep ==
  ASSUME SubsInv, starter.subs = {}, starter' \in Starting, starter'.subs = {},
         configs' \in Seq(Config), ServerOK', server' \in {"runs", "failed"},
         UNCHANGED <<ctls, shared>>
  PROVE  SubsInv'
<1>1. TypedData'
  BY SubsTyped DEF TypedData, shared
<1>2. ConstructorOK'
  BY EmptyConstructor
<1>3. AllCounted' /\ ControllersOK'
  BY CountsStay
<1>4. ExitsClean'
  BY DEF ExitsClean
<1> QED
  BY <1>1, <1>2, <1>3, <1>4 DEF SubsInv

(* Config.Load lists names of GenericControllers only.                      *)
LEMMA NamesTyped ==
  ASSUME NEW f \in Files
  PROVE  Names(f) \in Seq(Config)
<1> DEFINE kept == [j \in DOMAIN f.docs |-> IF Named(f.docs[j]) THEN <<f.docs[j]>> ELSE <<>>]
<1>1. f.docs \in Seq(Config \union {None})
  BY DEF Files
<1>2. \A j \in DOMAIN f.docs : kept[j] \in Seq(Config)
  BY <1>1 DEF Named
<1>3. kept \in [1..Len(f.docs) -> Seq(Config)] /\ Len(f.docs) \in Nat
  <2>1. Len(f.docs) \in Nat /\ DOMAIN f.docs = 1..Len(f.docs)
    BY <1>1
  <2>2. kept \in [DOMAIN f.docs -> Seq(Config)]
    BY <1>2
  <2> QED
    BY <2>1, <2>2
<1> HIDE DEF kept
<1>4. FlattenSeq(kept) \in Seq(Config)
  BY <1>3, AsSequence, FlattenType
<1> QED
  BY <1>4 DEF Names, kept

LEMMA ContentsTyped ==
  ASSUME NEW p \in Directories
  PROVE  Contents(p) \in Seq(Config)
<1> DEFINE lists == [i \in DOMAIN p.files |->
                       IF Loaded(p.files[i]) THEN Names(p.files[i]) ELSE <<>>]
<1>1. p.files \in Seq(Files)
  BY DEF Directories
<1>2. \A i \in DOMAIN p.files : lists[i] \in Seq(Config)
  BY <1>1, NamesTyped
<1>3. lists \in [1..Len(p.files) -> Seq(Config)] /\ Len(p.files) \in Nat
  <2>1. Len(p.files) \in Nat /\ DOMAIN p.files = 1..Len(p.files)
    BY <1>1
  <2>2. lists \in [DOMAIN p.files -> Seq(Config)]
    BY <1>2
  <2> QED
    BY <2>1, <2>2
<1> HIDE DEF lists
<1>4. FlattenSeq(lists) \in Seq(Config)
  BY <1>3, AsSequence, FlattenType
<1> QED
  BY <1>4 DEF Contents, lists

LEMMA TriesTyped ==
  LET new == [NotStarting EXCEPT !.does = "tries"]
  IN  new \in Starting /\ new.subs = {}
<1>1. NotStarting \in Starting /\ NotStarting.subs = {}
  BY DEF NotStarting, Starting
<1> QED
  BY <1>1 DEF Starting

LEMMA LoadStep ==
  ASSUME SubsInv, NEW p \in Path, Load(p)
  PROVE  SubsInv'
<1>1. /\ starter = NotStarting /\ NotStarting.subs = {}
      /\ UNCHANGED <<discoveryVars, indefinitely, signalled, expired, ctls, shared>>
  BY SubsTyped DEF Load, ConstructorOK, NotStarting
<1>2. Fails \/ \E list \in Seq(Config) : Runs(list)
  <2>1. ASSUME NEW list \in Seq(Config), Takes(list)
        PROVE  Fails \/ Runs(list)
    BY <2>1 DEF Takes
  <2>2. p # None => Contents(p) \in Seq(Config)
    BY ConfigAssumption, ContentsTyped
  <2>3. Supplied # None => Supplied \in Seq(Config)
    BY ConfigAssumption
  <2> QED
    BY <2>1, <2>2, <2>3 DEF Load
<1>3. CASE Fails
  <2>1. server' = "failed" /\ UNCHANGED <<configs, starter>>
    BY <1>3 DEF Fails
  <2>2. ServerOK'
    BY <1>1, <2>1, SubsTyped DEF ServerOK
  <2> QED
    BY <1>1, <2>1, <2>2, SubsTyped, IdleStep
<1>4. ASSUME NEW list \in Seq(Config), Runs(list)
      PROVE  SubsInv'
  <2>1. server' = "runs" /\ configs' = list /\ starter' \in Starting /\ starter'.subs = {}
    BY <1>4, TriesTyped DEF Runs
  <2>2. ServerOK'
    BY <1>1, <2>1, SubsTyped DEF ServerOK
  <2> QED
    BY <1>1, <2>1, <2>2, SubsTyped, IdleStep
<1> QED
  BY <1>2, <1>3, <1>4

(* The constructor has subscribed to nothing yet, or has undone it all.     *)
LEMMA NextConfigTyped ==
  ASSUME SubsInv, NEW errs \in BOOLEAN, NextConfig(errs)
  PROVE  starter' \in Starting /\ starter'.subs = {}
BY SubsTyped DEF NextConfig, Starting

LEMMA IdleFacts ==
  ASSUME SubsInv, server = "runs",
         SkipStarted \/ LookUp \/ EndAttempt \/ RetryStart \/ (Undo /\ starter.subs = {})
  PROVE  /\ starter.subs = {} /\ starter' \in Starting /\ starter'.subs = {}
         /\ server' \in {"runs", "failed"} /\ ServerOK'
         /\ UNCHANGED <<configs, ctls, shared>>
<1>0. starter \in Starting /\ configs \in Seq(Config) /\ ServerOK
  BY SubsTyped
<1>1. starter.subs = {}
  <2>1. CASE SkipStarted
    BY <2>1, SubsTyped DEF SkipStarted, AlreadyStarted, ConstructorOK
  <2>2. CASE LookUp
    BY <1>0, <2>2, SubsTyped DEF LookUp, Constructing, ConstructorOK, Starting
  <2>3. CASE EndAttempt \/ RetryStart
    BY <1>0, <2>3, SubsTyped DEF EndAttempt, RetryStart, ConstructorOK, Working, Starting
  <2> QED
    BY <2>1, <2>2, <2>3
<1>2. UNCHANGED <<configs, ctls, shared, indefinitely, signalled, expired>>
  <2>1. CASE Undo
    BY <1>1, <2>1 DEF Undo, ClosesAll
  <2> QED
    BY <2>1 DEF SkipStarted, LookUp, EndAttempt, RetryStart
<1>3. starter' \in Starting /\ starter'.subs = {}
  <2>1. CASE SkipStarted
    <3>1. starter.errs \in BOOLEAN /\ NextConfig(starter.errs)
      BY <1>0, <2>1 DEF SkipStarted, Starting
    <3> QED
      BY <3>1, NextConfigTyped
  <2>2. CASE LookUp
    <3>1. CASE TryNext
      BY <3>1, NextConfigTyped DEF TryNext
    <3>2. CASE starter' = [starter EXCEPT !.look = starter.look + 1]
      BY <1>0, <1>1, <3>2 DEF Starting
    <3> QED
      BY <2>2, <3>1, <3>2 DEF LookUp
  <2>3. CASE EndAttempt
    <3>1. CASE UNCHANGED starter
      BY <1>0, <1>1, <3>1
    <3>2. ASSUME NEW to \in {"done", "sleeps"}, starter' = [starter EXCEPT !.does = to]
          PROVE  starter' \in Starting /\ starter'.subs = {}
      BY <1>0, <1>1, <3>2 DEF Starting
    <3> QED
      BY <2>3, <3>1, <3>2 DEF EndAttempt
  <2>4. CASE RetryStart
    BY <2>4, TriesTyped DEF RetryStart
  <2>5. CASE Undo
    BY <1>1, <2>5, NextConfigTyped DEF Undo, ClosesAll, TryNext
  <2> QED
    BY <2>1, <2>2, <2>3, <2>4, <2>5
<1>4. server' \in {"runs", "failed"}
  BY DEF SkipStarted, LookUp, EndAttempt, RetryStart, Undo
<1>5. ServerOK'
  BY <1>0, <1>2, <1>4 DEF ServerOK
<1> QED
  BY <1>1, <1>2, <1>3, <1>4, <1>5

LEMMA IdleSteps ==
  ASSUME SubsInv, server = "runs",
         SkipStarted \/ LookUp \/ EndAttempt \/ RetryStart \/ (Undo /\ starter.subs = {})
  PROVE  SubsInv'
BY IdleFacts, SubsTyped, IdleStep

-----------------------------------------------------------------------------
(* Controllers that go on, with the subscriptions they have.                *)
LEMMA StageStep ==
  ASSUME SubsInv, server = "runs", NEW c \in Config, NEW new \in Ctl,
         ctls' = [ctls EXCEPT ![c] = new], ctls[c] # Absent,
         new.subs = ctls[c].subs, new.stage \in {"none", "stopped"} => new.subs = {},
         UNCHANGED <<starting, shared>>
  PROVE  SubsInv'
<1>1. /\ ctls' \in [Config -> Ctl] /\ ctls'[c] = new
      /\ \A d \in Config : d # c => ctls'[d] = ctls[d]
      /\ UNCHANGED <<indefinitely, server, signalled, configs, starter, expired, refCount, informers>>
  BY SubsTyped DEF starting, shared
<1>2. TypedData'
  BY <1>1, SubsTyped DEF TypedData, ServerOK
<1>3. At' = At /\ (Working' <=> Working)
  BY <1>1 DEF At, Working
<1>4. ConstructorOK'
  <2>1. Working => At \in Config
    BY SubsTyped, AtFacts
  <2>2. starter.subs # {} => Working /\ ctls[At] = Absent
    BY SubsTyped DEF ConstructorOK
  <2>3. starter.subs # {} => Working' /\ ctls'[At'] = Absent
    BY <1>1, <1>3, <2>1, <2>2
  <2> QED
    BY <1>1, <1>3, <2>3, SubsTyped DEF ConstructorOK
<1>5. ControllersOK'
  BY <1>1, SubsTyped DEF ControllersOK
<1>6. \A r \in Resource : /\ OfControllers(r)' = OfControllers(r)
                          /\ OfConstructor(r)' = OfConstructor(r)
  BY <1>1, <1>3 DEF OfControllers, OfConstructor
<1>7. AllCounted'
  BY <1>1, <1>6, SubsTyped DEF AllCounted, Counted
<1>8. ExitsClean'
  BY <1>1 DEF ExitsClean
<1> QED
  BY <1>2, <1>4, <1>5, <1>7, <1>8 DEF SubsInv

LEMMA StageSteps ==
  ASSUME SubsInv, server = "runs", NEW c \in Config,
         StartWorkers(c) \/ Halt(c) \/ (Release(c) /\ ctls[c].subs = {})
  PROVE  SubsInv'
<1>0. ctls \in [Config -> Ctl] /\ ctls[c] \in Ctl
  BY SubsTyped
<1>1. /\ UNCHANGED <<starting, shared>> /\ ctls[c].stage # "none"
      /\ \/ ctls' = [ctls EXCEPT ![c].stage = "works"]
         \/ ctls' = [ctls EXCEPT ![c].stage = "halts"]
         \/ ctls' = [ctls EXCEPT ![c].stage = "stopped"] /\ ctls[c].subs = {}
  BY DEF StartWorkers, Halt, Haltable, Release
<1>2. ctls[c] # Absent
  BY <1>1 DEF Absent
<1>3. ASSUME NEW to \in {"works", "halts", "stopped"}, to = "stopped" => ctls[c].subs = {},
             ctls' = [ctls EXCEPT ![c].stage = to]
      PROVE  SubsInv'
  <2> DEFINE new == [ctls[c] EXCEPT !.stage = to]
  <2>1. /\ new \in Ctl /\ new.subs = ctls[c].subs /\ new.stage = to
        /\ ctls' = [ctls EXCEPT ![c] = new]
    BY <1>0, <1>3 DEF Ctl, Stage
  <2> HIDE DEF new
  <2>2. new.stage \in {"none", "stopped"} => new.subs = {}
    BY <1>3, <2>1
  <2> QED
    BY <1>1, <1>2, <2>1, <2>2, StageStep
<1> QED
  BY <1>1, <1>3

LEMMA ListStep ==
  ASSUME SubsInv, server = "runs", NEW r \in Resource, List(r)
  PROVE  SubsInv'
<1>1. /\ informers' \in [Resource -> {None, "runs", "synced"}]
      /\ \A q \in Resource : informers'[q] # None <=> informers[q] # None
      /\ UNCHANGED <<discoveryVars, starting, ctls, refCount>>
  BY SubsTyped, ConfigAssumption DEF List
<1>2. UNCHANGED <<indefinitely, server, signalled, configs, starter, expired>>
  BY <1>1 DEF starting
<1>3. TypedData'
  BY <1>1, <1>2, SubsTyped DEF TypedData, ServerOK
<1>4. ConstructorOK' /\ ControllersOK'
  BY <1>1, <1>2, SubsTyped DEF ConstructorOK, ControllersOK, Working, At
<1>5. \A q \in Resource : /\ OfControllers(q)' = OfControllers(q)
                          /\ OfConstructor(q)' = OfConstructor(q)
  BY <1>1, <1>2 DEF OfControllers, OfConstructor, At
<1>6. AllCounted'
  BY <1>1, <1>5, SubsTyped DEF AllCounted, Counted
<1>7. ExitsClean'
  BY <1>2 DEF ExitsClean
<1> QED
  BY <1>3, <1>4, <1>6, <1>7 DEF SubsInv

-----------------------------------------------------------------------------
(* The constructor at work. *)

(* Only one informer is counted anew.                                       *)
LEMMA OneCount ==
  ASSUME SubsInv, NEW r \in Resource, Counted(r)',
         \A q \in Resource : q # r => /\ OfControllers(q)' = OfControllers(q)
                                      /\ OfConstructor(q)' = OfConstructor(q)
                                      /\ refCount'[q] = refCount[q]
                                      /\ informers'[q] = informers[q]
  PROVE  AllCounted'
<1>1. \A q \in Resource : q # r => Counted(q)'
  BY SubsTyped DEF AllCounted, Counted
<1> QED
  BY <1>1 DEF AllCounted

LEMMA ConstructingFacts ==
  ASSUME SubsInv, Constructing
  PROVE  /\ At \in Config /\ ctls[At] = Absent /\ Working /\ starter.does = "tries"
         /\ Len(Resources(At)) \in Nat \ {0} /\ DOMAIN Resources(At) = 1..Len(Resources(At))
         /\ \A i \in DOMAIN Resources(At) : i \in Slots /\ Resources(At)[i] \in Resource
         /\ \E k \in 0..Len(Resources(At)) : starter.subs = 1..k
         /\ server = "runs" => server # "loads"
<1>1. At \in Config /\ Working /\ ctls[At] = Absent /\ starter.does = "tries"
  BY SubsTyped, AtFacts DEF Constructing, AlreadyStarted
<1>2. \E k \in 0..Len(Resources(At)) : starter.subs = 1..k
  BY <1>1, SubsTyped DEF ConstructorOK
<1> HIDE DEF At
<1> QED
  BY <1>1, <1>2, ConfigFacts

LEMMA SubscribeStep ==
  ASSUME SubsInv, server = "runs", Subscribe
  PROVE  SubsInv'
<1>0. /\ Constructing /\ starter.look = Len(Lookups(At))
      /\ UNCHANGED <<discoveryVars, indefinitely, server, signalled, configs, expired, ctls>>
      /\ starter \in Starting
  BY SubsTyped DEF Subscribe
<1>1. PICK c \in Config : c = At
  BY <1>0, ConstructingFacts
<1>2. /\ ctls[c] = Absent /\ Working /\ starter.does = "tries"
      /\ Len(Resources(c)) \in Nat \ {0} /\ DOMAIN Resources(c) = 1..Len(Resources(c))
      /\ \A j \in DOMAIN Resources(c) : j \in Slots /\ Resources(c)[j] \in Resource
  BY <1>0, <1>1, ConstructingFacts
<1>3. PICK k \in 0..Len(Resources(c)) : starter.subs = 1..k
  BY <1>0, <1>1, ConstructingFacts
<1> DEFINE i == k + 1
<1>4. Cardinality(starter.subs) + 1 = i
  <2>1. Cardinality(1..k) = k
    BY <1>2, <1>3, FS_Interval
  <2> QED
    BY <1>3, <2>1
<1>5. i \in DOMAIN Resources(c) /\ i \in Slots
  <2>1. i <= Len(Resources(c))
    BY <1>1, <1>4 DEF Subscribe
  <2> QED
    BY <1>2, <1>3, <2>1
<1>6. PICK r \in Resource : r = Resources(c)[i]
  BY <1>2, <1>5
<1>7. \A q \in Resource : OfControllers(q)' = OfControllers(q)
  BY <1>0 DEF OfControllers
<1>8. ServerOK' /\ configs' \in Seq(Config) /\ ctls' \in [Config -> Ctl] /\ ControllersOK'
  BY <1>0, SubsTyped DEF ServerOK, ControllersOK
<1>9. ExitsClean'
  BY <1>0 DEF ExitsClean
<1>10. starter.at <= Len(configs)
  BY <1>2 DEF Working
<1>11. CASE GetOrCreate(r) /\ starter' = [starter EXCEPT !.subs = @ \union {i}]
  <2>1. /\ starter' \in Starting /\ starter'.subs = 1..(k + 1) /\ starter'.at = starter.at
        /\ starter'.does = "tries" /\ starter'.look = starter.look
        /\ starter'.subs = starter.subs \union {i}
    BY <1>0, <1>2, <1>3, <1>5, <1>11 DEF Starting
  <2>2. At' = c /\ Working'
    BY <1>0, <1>1, <1>2, <1>10, <2>1 DEF At, Working
  <2>3. ConstructorOK'
    <3>1. ctls'[At'] = Absent /\ starter'.look = Len(Lookups(At'))
      BY <1>0, <1>1, <1>2, <2>1, <2>2
    <3>2. k + 1 \in 0..Len(Resources(At')) /\ starter'.subs \subseteq DOMAIN Resources(At')
      BY <1>2, <1>3, <1>5, <2>1, <2>2
    <3> QED
      BY <1>0, <2>1, <2>2, <3>1, <3>2 DEF ConstructorOK
  <2>4. /\ refCount' = [refCount EXCEPT ![r] = @ + 1] /\ refCount \in [Resource -> Nat]
        /\ informers' = [informers EXCEPT ![r] = IF @ = None THEN "runs" ELSE @]
        /\ informers \in [Resource -> {None, "runs", "synced"}]
    BY <1>11, SubsTyped DEF GetOrCreate
  <2>5. /\ informers'[r] # None /\ refCount'[r] = refCount[r] + 1
        /\ informers' \in [Resource -> {None, "runs", "synced"}]
        /\ refCount' \in [Resource -> Nat]
        /\ \A q \in Resource : q # r => refCount'[q] = refCount[q] /\ informers'[q] = informers[q]
    BY <2>4, ConfigAssumption
  <2>6. \A q \in Resource : q # r => OfConstructor(q)' = OfConstructor(q)
    BY <1>1, <1>6, <2>1, <2>2 DEF OfConstructor
  <2>7. Counted(r)'
    <3>1. OfConstructor(r)' = OfConstructor(r) \union {i}
      BY <1>1, <1>6, <2>1, <2>2 DEF OfConstructor
    <3>2. i \notin OfConstructor(r)
      BY <1>3 DEF OfConstructor
    <3>3. /\ IsFiniteSet(OfControllers(r)) /\ IsFiniteSet(OfConstructor(r))
          /\ refCount[r] = Cardinality(OfControllers(r)) + Cardinality(OfConstructor(r))
      BY SubsTyped DEF AllCounted, Counted
    <3>4. /\ IsFiniteSet(OfConstructor(r) \union {i})
          /\ Cardinality(OfConstructor(r) \union {i}) = Cardinality(OfConstructor(r)) + 1
      BY <3>2, <3>3, FS_AddElement
    <3>5. Cardinality(OfControllers(r)) \in Nat /\ Cardinality(OfConstructor(r)) \in Nat
      BY <3>3, FS_CardinalityType
    <3>6. /\ IsFiniteSet(OfControllers(r)') /\ IsFiniteSet(OfConstructor(r)')
          /\ refCount'[r] = Cardinality(OfControllers(r)') + Cardinality(OfConstructor(r)')
          /\ refCount'[r] > 0
      BY <1>7, <2>5, <3>1, <3>3, <3>4, <3>5
    <3> QED
      BY <2>5, <3>6 DEF Counted
  <2>8. AllCounted'
    BY <1>7, <2>5, <2>6, <2>7, OneCount
  <2> QED
    BY <1>8, <1>9, <2>1, <2>3, <2>5, <2>8 DEF SubsInv, TypedData
<1>12. CASE starter' = [starter EXCEPT !.does = "undoes"] /\ UNCHANGED shared
  <2>1. /\ starter' \in Starting /\ starter'.subs = starter.subs /\ starter'.at = starter.at
        /\ starter'.does = "undoes"
    BY <1>0, <1>12 DEF Starting
  <2>2. At' = c /\ Working'
    BY <1>0, <1>1, <1>2, <1>10, <2>1 DEF At, Working
  <2>3. ConstructorOK'
    <3>1. ctls'[At'] = Absent /\ starter'.subs \subseteq DOMAIN Resources(At')
      BY <1>0, <1>2, <1>3, <2>1, <2>2
    <3> QED
      BY <1>0, <2>1, <2>2, <3>1 DEF ConstructorOK
  <2>4. AllCounted'
    BY <1>0, <1>1, <1>12, <2>1, <2>2, CountsStay
  <2>5. UNCHANGED <<refCount, informers>>
    BY <1>12 DEF shared
  <2> QED
    BY <1>8, <1>9, <2>1, <2>3, <2>4, <2>5, SubsTyped DEF SubsInv, TypedData
<1> QED
  BY <1>1, <1>4, <1>6, <1>11, <1>12 DEF Subscribe

(* The subscriptions of the constructor become the controller's.            *)
LEMMA StartControllerStep ==
  ASSUME SubsInv, server = "runs", StartController
  PROVE  SubsInv'
<1>0. /\ Constructing /\ starter \in Starting /\ ctls \in [Config -> Ctl]
      /\ NextConfig(starter.errs) /\ starter.errs \in BOOLEAN
      /\ UNCHANGED <<discoveryVars, indefinitely, server, signalled, configs, expired, shared>>
  BY SubsTyped DEF StartController, Starting
<1>1. PICK c \in Config : c = At
  BY <1>0, ConstructingFacts
<1>2. /\ ctls[c] = Absent /\ Absent.subs = {}
      /\ \A j \in DOMAIN Resources(c) : j \in Slots /\ Resources(c)[j] \in Resource
  BY <1>0, <1>1, ConstructingFacts DEF Absent
<1>3. starter.subs \subseteq DOMAIN Resources(c)
  BY <1>0, <1>1, ConstructingFacts, SubsTyped DEF ConstructorOK
<1> DEFINE new == [stage |-> "waits", subs |-> starter.subs]
<1>4. /\ new \in Ctl /\ new.subs = starter.subs /\ new.stage = "waits"
      /\ ctls' = [ctls EXCEPT ![c] = new]
  BY <1>0, <1>1 DEF Ctl, Stage, StartController, Starting
<1> HIDE DEF new
<1>5. /\ ctls' \in [Config -> Ctl] /\ ctls'[c] = new
      /\ \A d \in Config : d # c => ctls'[d] = ctls[d]
  BY <1>0, <1>4
<1>6. starter' \in Starting /\ starter'.subs = {}
  BY <1>0, NextConfigTyped
<1>7. TypedData'
  BY <1>0, <1>5, <1>6, SubsTyped DEF TypedData, ServerOK, shared
<1>8. ConstructorOK'
  BY <1>0, <1>6, SubsTyped, EmptyConstructor
<1>9. ControllersOK'
  BY <1>3, <1>4, <1>5, SubsTyped DEF ControllersOK
<1>10. ASSUME NEW r \in Resource
       PROVE  Counted(r)'
  <2> DEFINE A == OfControllers(r)
             B == OfConstructor(r)
             moved == {c} \X B
  <2>1. OfConstructor(r)' = {}
    BY <1>6 DEF OfConstructor
  <2>2. OfControllers(r)' = A \union moved
    <3>1. ASSUME NEW s \in Config \X Slots
          PROVE  /\ s[2] \in ctls'[s[1]].subs /\ Resources(s[1])[s[2]] = r
                 <=> s \in A \union moved
      <4>1. PICK d \in Config, j \in Slots : s = <<d, j>>
        OBVIOUS
      <4>2. CASE d # c
        BY <1>5, <4>1, <4>2 DEF OfControllers
      <4>3. CASE d = c
        BY <1>1, <1>2, <1>4, <1>5, <4>1, <4>3 DEF OfControllers, OfConstructor
      <4> QED
        BY <4>2, <4>3
    <3>2. A \union moved \subseteq Config \X Slots
      BY <1>2, <1>3 DEF OfControllers, OfConstructor
    <3> QED
      BY <3>1, <3>2 DEF OfControllers
  <2>3. /\ IsFiniteSet(A) /\ IsFiniteSet(B) /\ refCount[r] = Cardinality(A) + Cardinality(B)
        /\ informers[r] # None <=> refCount[r] > 0
    BY SubsTyped DEF AllCounted, Counted
  <2>4. A \intersect moved = {}
    BY <1>2 DEF OfControllers
  <2> HIDE DEF A, B
  <2>5. IsFiniteSet(moved) /\ Cardinality(moved) = Cardinality(B)
    <3>1. IsFiniteSet({c}) /\ Cardinality({c}) = 1
      BY FS_Singleton
    <3>2. /\ IsFiniteSet(moved) /\ Cardinality(moved) = Cardinality({c}) * Cardinality(B)
      BY <2>3, <3>1, FS_Product
    <3>3. Cardinality(B) \in Nat
      BY <2>3, FS_CardinalityType
    <3> QED
      BY <3>1, <3>2, <3>3
  <2> HIDE DEF moved
  <2>6. IsFiniteSet(A \union moved) /\ Cardinality(A \union moved) = Cardinality(A) + Cardinality(B)
    <3>1. /\ IsFiniteSet(A \union moved)
          /\ Cardinality(A \union moved)
               = Cardinality(A) + Cardinality(moved) - Cardinality(A \intersect moved)
      BY <2>3, <2>5, FS_Union
    <3>2. Cardinality(A \intersect moved) = 0
      BY <2>4, FS_EmptySet
    <3>3. Cardinality(A) \in Nat /\ Cardinality(B) \in Nat
      BY <2>3, FS_CardinalityType
    <3> QED
      BY <2>5, <3>1, <3>2, <3>3
  <2>7. IsFiniteSet({}) /\ Cardinality({}) = 0 /\ Cardinality(A) + Cardinality(B) \in Nat
    BY <2>3, FS_EmptySet, FS_CardinalityType
  <2>8. UNCHANGED <<refCount, informers>>
    BY <1>0 DEF shared
  <2>9. refCount'[r] = Cardinality(OfControllers(r)') + Cardinality(OfConstructor(r)')
    BY <2>1, <2>2, <2>3, <2>6, <2>7, <2>8
  <2> QED
    BY <2>1, <2>2, <2>3, <2>6, <2>7, <2>8, <2>9 DEF Counted
<1>11. AllCounted'
  BY <1>10 DEF AllCounted
<1>12. ExitsClean'
  BY <1>0 DEF ExitsClean
<1> QED
  BY <1>7, <1>8, <1>9, <1>11, <1>12 DEF SubsInv

-----------------------------------------------------------------------------
(* An informer is closed for one of its subscribers: its count goes down by *)
(* one, and with the last it stops.                                         *)
LEMMA CloseFacts ==
  ASSUME SubsInv, NEW r \in Resource, CloseFn(r), refCount[r] > 0
  PROVE  /\ refCount' \in [Resource -> Nat]
         /\ informers' \in [Resource -> {None, "runs", "synced"}]
         /\ refCount'[r] = refCount[r] - 1 /\ (informers'[r] # None <=> refCount'[r] > 0)
         /\ \A q \in Resource : q # r => refCount'[q] = refCount[q] /\ informers'[q] = informers[q]
<1>1. /\ refCount \in [Resource -> Nat] /\ informers \in [Resource -> {None, "runs", "synced"}]
      /\ informers[r] # None
  BY SubsTyped DEF AllCounted, Counted
<1>2. CASE refCount[r] > 1
  <2>1. refCount' = [refCount EXCEPT ![r] = @ - 1] /\ UNCHANGED informers
    BY <1>2 DEF CloseFn
  <2>2. refCount[r] - 1 \in Nat /\ refCount[r] - 1 > 0
    BY <1>1, <1>2
  <2> QED
    BY <1>1, <2>1, <2>2
<1>3. CASE ~(refCount[r] > 1)
  <2>1. /\ refCount' = [refCount EXCEPT ![r] = 0] /\ informers' = [informers EXCEPT ![r] = None]
    BY <1>3 DEF CloseFn, StopInformer
  <2>2. refCount[r] - 1 = 0
    BY <1>1, <1>3
  <2> QED
    BY <1>1, <2>1, <2>2
<1> QED
  BY <1>2, <1>3

(* The deferred function of a constructor that failed.                      *)
LEMMA UndoStep ==
  ASSUME SubsInv, server = "runs", NEW i \in starter.subs,
         starter.does = "undoes", Working, CloseFn(Resources(At)[i]),
         starter' = [starter EXCEPT !.subs = @ \ {i}],
         UNCHANGED <<discoveryVars, indefinitely, server, signalled, configs, expired, ctls>>
  PROVE  SubsInv'
<1>0. starter \in Starting /\ ConstructorOK
  BY SubsTyped
<1>1. PICK c \in Config : c = At
  BY SubsTyped, AtFacts
<1>2. /\ ctls[c] = Absent /\ starter.subs \subseteq DOMAIN Resources(c)
      /\ starter.at <= Len(configs)
  BY <1>0, <1>1 DEF ConstructorOK, Working
<1>3. PICK r \in Resource : r = Resources(c)[i]
  BY <1>2, ConfigFacts
<1>4. /\ starter' \in Starting /\ starter'.subs = starter.subs \ {i} /\ starter'.at = starter.at
      /\ starter'.does = "undoes"
  BY <1>0 DEF Starting
<1>5. At' = c /\ Working'
  BY <1>1, <1>2, <1>4 DEF At, Working
<1>6. ConstructorOK'
  <2>1. ctls'[At'] = Absent /\ starter'.subs \subseteq DOMAIN Resources(At')
    BY <1>2, <1>4, <1>5
  <2> QED
    BY <1>4, <1>5, <2>1 DEF ConstructorOK
<1>7. \A q \in Resource : OfControllers(q)' = OfControllers(q)
  BY DEF OfControllers
<1>8. \A q \in Resource : q # r => OfConstructor(q)' = OfConstructor(q)
  BY <1>1, <1>3, <1>4, <1>5 DEF OfConstructor
<1> DEFINE A == OfControllers(r)
           B == OfConstructor(r)
<1>9. OfConstructor(r)' = B \ {i} /\ i \in B
  BY <1>1, <1>3, <1>4, <1>5 DEF OfConstructor
<1>10. IsFiniteSet(A) /\ IsFiniteSet(B) /\ refCount[r] = Cardinality(A) + Cardinality(B)
  BY SubsTyped DEF AllCounted, Counted
<1> HIDE DEF A, B
<1>11. /\ IsFiniteSet(B \ {i}) /\ Cardinality(B \ {i}) = Cardinality(B) - 1
  BY <1>9, <1>10, FS_RemoveElement
<1>12. Cardinality(A) \in Nat /\ Cardinality(B) \in Nat /\ Cardinality(B \ {i}) \in Nat
  BY <1>10, <1>11, FS_CardinalityType
<1>13. refCount[r] > 0
  BY <1>10, <1>11, <1>12
<1>14. /\ refCount' \in [Resource -> Nat]
       /\ informers' \in [Resource -> {None, "runs", "synced"}]
       /\ refCount'[r] = refCount[r] - 1 /\ (informers'[r] # None <=> refCount'[r] > 0)
       /\ \A q \in Resource : q # r => refCount'[q] = refCount[q] /\ informers'[q] = informers[q]
  BY <1>1, <1>3, <1>13, CloseFacts
<1>15. Counted(r)'
  <2>1. OfControllers(r)' = A
    BY <1>7 DEF A
  <2>2. refCount'[r] = Cardinality(A) + Cardinality(B \ {i})
    BY <1>10, <1>11, <1>12, <1>14
  <2> QED
    BY <1>9, <1>10, <1>11, <1>14, <2>1, <2>2 DEF Counted
<1>16. AllCounted'
  BY <1>7, <1>8, <1>14, <1>15, OneCount
<1>17. ServerOK' /\ configs' \in Seq(Config) /\ ctls' \in [Config -> Ctl] /\ ControllersOK'
  BY SubsTyped DEF ServerOK, ControllersOK
<1>18. ExitsClean'
  BY DEF ExitsClean
<1> QED
  BY <1>4, <1>6, <1>14, <1>16, <1>17, <1>18 DEF SubsInv, TypedData

(* A controller that was stopped.                                           *)
LEMMA ReleaseStep ==
  ASSUME SubsInv, server = "runs", NEW c \in Config, NEW i \in ctls[c].subs,
         ctls[c].stage = "halts", CloseFn(Resources(c)[i]),
         ctls' = [ctls EXCEPT ![c].subs = @ \ {i}], UNCHANGED <<discoveryVars, starting>>
  PROVE  SubsInv'
<1>0. /\ ctls \in [Config -> Ctl] /\ ctls[c] \in Ctl /\ ctls[c].subs \subseteq DOMAIN Resources(c)
      /\ UNCHANGED <<indefinitely, server, signalled, configs, starter, expired>>
  BY SubsTyped DEF ControllersOK, starting
<1>1. ctls[c] # Absent
  BY DEF Absent
<1>2. PICK r \in Resource : r = Resources(c)[i]
  BY <1>0, ConfigFacts
<1>3. i \in Slots
  BY <1>0, ConfigFacts
<1> DEFINE new == [ctls[c] EXCEPT !.subs = @ \ {i}]
<1>4. /\ new \in Ctl /\ new.subs = ctls[c].subs \ {i} /\ new.stage = "halts"
      /\ ctls' = [ctls EXCEPT ![c] = new]
  BY <1>0 DEF Ctl
<1> HIDE DEF new
<1>5. /\ ctls' \in [Config -> Ctl] /\ ctls'[c] = new
      /\ \A d \in Config : d # c => ctls'[d] = ctls[d]
  BY <1>0, <1>4
<1>6. At' = At /\ (Working' <=> Working)
  BY <1>0 DEF At, Working
<1>7. ConstructorOK'
  <2>1. starter.subs # {} => Working /\ ctls[At] = Absent /\ At \in Config
    BY SubsTyped, AtFacts DEF ConstructorOK
  <2>2. starter.subs # {} => Working' /\ ctls'[At'] = Absent
    BY <1>1, <1>5, <1>6, <2>1
  <2> QED
    BY <1>0, <1>6, <2>2, SubsTyped DEF ConstructorOK
<1>8. ControllersOK'
  BY <1>0, <1>4, <1>5, SubsTyped DEF ControllersOK
<1>9. \A q \in Resource : OfConstructor(q)' = OfConstructor(q)
  BY <1>0, <1>6 DEF OfConstructor
<1>10. \A q \in Resource : q # r => OfControllers(q)' = OfControllers(q)
  BY <1>2, <1>4, <1>5 DEF OfControllers
<1> DEFINE A == OfControllers(r)
           B == OfConstructor(r)
<1>11. OfControllers(r)' = A \ {<<c, i>>} /\ <<c, i>> \in A
  BY <1>2, <1>3, <1>4, <1>5 DEF OfControllers
<1>12. IsFiniteSet(A) /\ IsFiniteSet(B) /\ refCount[r] = Cardinality(A) + Cardinality(B)
  BY SubsTyped DEF AllCounted, Counted
<1>13. OfConstructor(r)' = B
  BY <1>9
<1> HIDE DEF A, B
<1> DEFINE rest == A \ {<<c, i>>}
<1>14. IsFiniteSet(rest) /\ Cardinality(rest) = Cardinality(A) - 1
  BY <1>11, <1>12, FS_RemoveElement
<1> HIDE DEF rest
<1>15. Cardinality(A) \in Nat /\ Cardinality(B) \in Nat /\ Cardinality(rest) \in Nat
  BY <1>12, <1>14, FS_CardinalityType
<1>16. refCount[r] > 0
  BY <1>12, <1>14, <1>15
<1>17. /\ refCount' \in [Resource -> Nat]
       /\ informers' \in [Resource -> {None, "runs", "synced"}]
       /\ refCount'[r] = refCount[r] - 1 /\ (informers'[r] # None <=> refCount'[r] > 0)
       /\ \A q \in Resource : q # r => refCount'[q] = refCount[q] /\ informers'[q] = informers[q]
  BY <1>2, <1>16, CloseFacts
<1>18. Counted(r)'
  <2>1. OfControllers(r)' = rest
    BY <1>11 DEF rest
  <2>2. refCount'[r] = Cardinality(rest) + Cardinality(B)
    BY <1>12, <1>14, <1>15, <1>17
  <2> QED
    BY <1>12, <1>13, <1>14, <1>17, <2>1, <2>2 DEF Counted
<1>19. AllCounted'
  BY <1>9, <1>10, <1>17, <1>18, OneCount
<1>20. ServerOK' /\ configs' \in Seq(Config) /\ starter' \in Starting
  BY <1>0, SubsTyped DEF ServerOK
<1>21. ExitsClean'
  BY <1>0 DEF ExitsClean
<1> QED
  BY <1>5, <1>7, <1>8, <1>17, <1>19, <1>20, <1>21 DEF SubsInv, TypedData

-----------------------------------------------------------------------------
LEMMA SubsStay == SubsInv /\ [Next]_vars => SubsInv'
<1> SUFFICES ASSUME SubsInv, [Next]_vars PROVE SubsInv'
  OBVIOUS
<1>1. CASE Discovers \/ Installs \/ TimePasses \/ Signal \/ Exit \/ UNCHANGED vars
  BY <1>1, QuietSteps
<1>2. ASSUME NEW p \in Path, Load(p)
      PROVE  SubsInv'
  BY <1>2, LoadStep
<1>3. CASE Starter
  <2>1. CASE SkipStarted \/ LookUp \/ EndAttempt \/ RetryStart \/ (Undo /\ starter.subs = {})
    BY <1>3, <2>1, IdleSteps DEF Starter
  <2>2. CASE Subscribe
    BY <1>3, <2>2, SubscribeStep DEF Starter
  <2>3. CASE StartController
    BY <1>3, <2>3, StartControllerStep DEF Starter
  <2>4. CASE Undo /\ starter.subs # {}
    <3>1. PICK i \in starter.subs : /\ CloseFn(Resources(At)[i])
                                    /\ starter' = [starter EXCEPT !.subs = @ \ {i}]
      BY <2>4 DEF Undo, ClosesAll
    <3>2. /\ starter.does = "undoes" /\ Working /\ server = "runs"
          /\ UNCHANGED <<discoveryVars, indefinitely, server, signalled, configs, expired, ctls>>
      BY <1>3, <2>4 DEF Starter, Undo
    <3> QED
      BY <3>1, <3>2, UndoStep
  <2> QED
    BY <1>3, <2>1, <2>2, <2>3, <2>4 DEF Starter
<1>4. CASE Controllers
  <2>0. server = "runs"
    BY <1>4 DEF Controllers
  <2>1. ASSUME NEW r \in Resource, List(r)
        PROVE  SubsInv'
    BY <2>0, <2>1, ListStep
  <2>2. ASSUME NEW c \in Config, StartWorkers(c) \/ Halt(c)
        PROVE  SubsInv'
    BY <2>0, <2>2, StageSteps
  <2>3. ASSUME NEW c \in Config, Release(c), ctls[c].subs = {}
        PROVE  SubsInv'
    BY <2>0, <2>3, StageSteps
  <2>4. ASSUME NEW c \in Config, Release(c), ctls[c].subs # {}
        PROVE  SubsInv'
    <3>1. PICK i \in ctls[c].subs : /\ CloseFn(Resources(c)[i])
                                    /\ ctls' = [ctls EXCEPT ![c].subs = @ \ {i}]
      BY <2>4 DEF Release
    <3>2. ctls[c].stage = "halts" /\ UNCHANGED <<discoveryVars, starting>>
      BY <2>4 DEF Release
    <3> QED
      BY <2>0, <3>1, <3>2, ReleaseStep
  <2> QED
    BY <1>4, <2>1, <2>2, <2>3, <2>4 DEF Controllers
<1> QED
  BY <1>1, <1>2, <1>3, <1>4 DEF Next

LEMMA SubsAlways == Spec => [](SubsInv /\ DiscoveryInv)
BY InitSubs, SubsStay, InvAlways, PTL DEF Spec

(* The server, its goroutines and the informers stay well typed: in         *)
(* particular a directory, however it is mixed, loads names of              *)
(* GenericControllers only.                                                 *)
THEOREM TypeCorrect == Spec => []TypeOK
<1>1. SubsInv /\ DiscoveryInv => TypeOK
  BY DEF SubsInv, TypedData, DiscoveryInv, TypeOK, ServerOK, Starting, Ctl, Stage
<1> QED
  BY <1>1, SubsAlways, PTL

(* GetOrCreate, closeFn and the deferred function of the constructor: for   *)
(* any GenericControllers that share resources, and any number of attempts  *)
(* that fail on the way, the factory's counts are those of the              *)
(* subscriptions that are open.                                             *)
THEOREM SubscriptionsCounted == Spec => []CountsSubscriptions
<1>1. SubsInv => CountsSubscriptions
  BY DEF SubsInv, AllCounted, Counted, CountsSubscriptions, Subscriptions, OfControllers,
         OfConstructor
<1> QED
  BY <1>1, SubsAlways, PTL

(* Stop waits for the goroutine that starts controllers and for every       *)
(* controller it has started: nothing is left running.                      *)
THEOREM ExitsInOrder == Spec => []ExitsClean
<1>1. SubsInv => ExitsClean
  BY DEF SubsInv
<1> QED
  BY <1>1, SubsAlways, PTL
-----------------------------------------------------------------------------
(* The factory implements SharedInformers.                                  *)
Opened == [r \in Resource |-> Held(r)]
Caches == [r \in Resource |-> CacheOf(r)]

AllHeld == \A r \in Resource : informers[r] # None <=> Held(r) # {}

(* What is counted is held.                                                 *)
LEMMA RunsIfHeld == SubsInv => AllHeld
<1> SUFFICES ASSUME SubsInv, NEW r \in Resource
             PROVE  informers[r] # None <=> Held(r) # {}
  BY DEF AllHeld
<1> DEFINE A == OfControllers(r)
           B == OfConstructor(r)
<1>1. /\ IsFiniteSet(A) /\ IsFiniteSet(B) /\ refCount[r] = Cardinality(A) + Cardinality(B)
      /\ informers[r] # None <=> refCount[r] > 0
  BY SubsTyped DEF AllCounted, Counted
<1>2. Held(r) = {} <=> A = {} /\ B = {}
  BY DEF Held, OfControllers, OfConstructor
<1> HIDE DEF A, B
<1>3. /\ Cardinality(A) \in Nat /\ (Cardinality(A) = 0 <=> A = {})
      /\ Cardinality(B) \in Nat /\ (Cardinality(B) = 0 <=> B = {})
  BY <1>1, FS_CardinalityType, FS_EmptySet
<1> QED
  BY <1>1, <1>2, <1>3

LEMMA SameFactory ==
  ASSUME \A r \in Resource : Held(r)' = Held(r) /\ informers'[r] = informers[r]
  PROVE  UNCHANGED <<Opened, Caches>>
<1>1. \A r \in Resource : CacheOf(r)' = CacheOf(r)
  BY DEF CacheOf
<1>2. Opened' = Opened
  BY DEF Opened
<1>3. Caches' = Caches
  BY <1>1 DEF Caches
<1> QED
  BY <1>2, <1>3

LEMMA HeldStays ==
  ASSUME \A c \in Config : ctls'[c].subs = ctls[c].subs,
         starter'.subs = starter.subs, starter.subs # {} => At' = At,
         NEW r \in Resource
  PROVE  Held(r)' = Held(r)
<1>1. OfControllers(r)' = OfControllers(r) /\ OfConstructor(r)' = OfConstructor(r)
  BY DEF OfControllers, OfConstructor
<1>2. OfConstructor(r) # {} => At' = At
  BY DEF OfConstructor
<1>3. Held(r) = OfControllers(r) \union {<<At, i>> : i \in OfConstructor(r)}
  BY DEF Held, OfControllers, OfConstructor
<1>4. Held(r)' = OfControllers(r)' \union {<<At', i>> : i \in OfConstructor(r)'}
  BY DEF Held, OfControllers, OfConstructor
<1>5. {<<At', i>> : i \in OfConstructor(r)} = {<<At, i>> : i \in OfConstructor(r)}
  BY <1>2
<1> QED
  BY <1>1, <1>3, <1>4, <1>5

(* One informer, and what is held of it, changes.                           *)
LEMMA OneOfFactory ==
  ASSUME NEW r \in Resource, NEW held, NEW state,
         \A q \in Resource : q # r => Held(q)' = Held(q) /\ informers'[q] = informers[q],
         Held(r)' = held, CacheOf(r)' = state
  PROVE  /\ Opened' = [Opened EXCEPT ![r] = held]
         /\ Caches' = [Caches EXCEPT ![r] = state]
<1>1. \A q \in Resource : q # r => CacheOf(q)' = CacheOf(q)
  BY DEF CacheOf
<1>2. Opened' = [Opened EXCEPT ![r] = held]
  BY DEF Opened
<1>3. Caches' = [Caches EXCEPT ![r] = state]
  BY <1>1 DEF Caches
<1> QED
  BY <1>2, <1>3

(* Steps that neither subscribe nor close nor list.                         *)
LEMMA KeepsFactory ==
  ASSUME SubsInv,
         \/ Discovers \/ Installs \/ TimePasses \/ Signal \/ Exit \/ UNCHANGED vars
         \/ \E p \in Path : Load(p)
         \/ /\ server = "runs"
            /\ \/ SkipStarted \/ LookUp \/ EndAttempt \/ RetryStart
               \/ Undo /\ starter.subs = {}
               \/ \E c \in Config : \/ StartWorkers(c) \/ Halt(c)
                                    \/ Release(c) /\ ctls[c].subs = {}
  PROVE  UNCHANGED <<Opened, Caches>>
<1>0. ctls \in [Config -> Ctl]
  BY SubsTyped
<1>1. CASE Discovers \/ Installs \/ TimePasses \/ Signal \/ Exit \/ UNCHANGED vars
  <2>1. UNCHANGED <<configs, starter, ctls, shared>>
    BY <1>1 DEF Discovers, Installs, TimePasses, Signal, Exit, vars, starting
  <2> QED
    BY <2>1, HeldStays, SameFactory DEF shared, At
<1>2. ASSUME NEW p \in Path, Load(p)
      PROVE  UNCHANGED <<Opened, Caches>>
  <2>1. starter.subs = {} /\ UNCHANGED <<ctls, shared>>
    BY <1>2, SubsTyped DEF Load, ConstructorOK, NotStarting
  <2>2. starter'.subs = {}
    BY <1>2, <2>1, TriesTyped DEF Load, Fails, Takes, Runs
  <2> QED
    BY <2>1, <2>2, HeldStays, SameFactory DEF shared
<1>3. CASE /\ server = "runs"
           /\ SkipStarted \/ LookUp \/ EndAttempt \/ RetryStart \/ (Undo /\ starter.subs = {})
  BY <1>3, IdleFacts, HeldStays, SameFactory DEF shared
<1>4. ASSUME NEW c \in Config,
             StartWorkers(c) \/ Halt(c) \/ (Release(c) /\ ctls[c].subs = {})
      PROVE  UNCHANGED <<Opened, Caches>>
  <2>1. UNCHANGED <<configs, starter, shared>>
    BY <1>4 DEF StartWorkers, Halt, Release, starting
  <2>2. \A d \in Config : ctls'[d].subs = ctls[d].subs
    BY <1>0, <1>4 DEF StartWorkers, Halt, Release, Ctl
  <2> QED
    BY <2>1, <2>2, HeldStays, SameFactory DEF shared, At
<1> QED
  BY <1>1, <1>2, <1>3, <1>4

LEMMA OpensOne ==
  ASSUME SubsInv, SubsInv', Subscribe
  PROVE  Factory!Next \/ UNCHANGED <<Opened, Caches>>
<1>0. /\ Constructing /\ UNCHANGED <<configs, ctls>> /\ starter \in Starting
      /\ informers \in [Resource -> {None, "runs", "synced"}]
  BY SubsTyped DEF Subscribe
<1>1. PICK c \in Config : c = At
  BY <1>0, ConstructingFacts
<1>2. /\ ctls[c] = Absent /\ Len(Resources(c)) \in Nat \ {0}
      /\ DOMAIN Resources(c) = 1..Len(Resources(c))
      /\ \A j \in DOMAIN Resources(c) : j \in Slots /\ Resources(c)[j] \in Resource
  BY <1>0, <1>1, ConstructingFacts
<1>3. PICK k \in 0..Len(Resources(c)) : starter.subs = 1..k
  BY <1>0, <1>1, ConstructingFacts
<1>4. Cardinality(starter.subs) = k /\ k \in Nat
  BY <1>2, <1>3, FS_Interval
<1>5. PICK i \in Slots : /\ i = Cardinality(starter.subs) + 1 /\ i \notin starter.subs
                         /\ i \in DOMAIN Resources(c)
  <2>1. k + 1 <= Len(Resources(c))
    BY <1>1, <1>4 DEF Subscribe
  <2> QED
    BY <1>2, <1>3, <1>4, <2>1
<1>6. PICK r \in Resource : r = Resources(c)[i]
  BY <1>2, <1>5
<1>7. CASE ~CanGet(r)
  <2>1. starter' = [starter EXCEPT !.does = "undoes"] /\ UNCHANGED shared
    BY <1>1, <1>5, <1>6, <1>7 DEF Subscribe
  <2>2. starter'.subs = starter.subs /\ At' = At
    BY <1>0, <2>1 DEF Starting, At
  <2> QED
    BY <1>0, <2>1, <2>2, HeldStays, SameFactory DEF shared
<1>8. CASE CanGet(r)
  <2> DEFINE h == <<c, i>>
  <2>1. GetOrCreate(r) /\ starter' = [starter EXCEPT !.subs = @ \union {i}]
    BY <1>1, <1>5, <1>6, <1>8 DEF Subscribe
  <2>2. /\ starter'.subs = starter.subs \union {i} /\ At' = c
        /\ \A q \in Resource : OfControllers(q)' = OfControllers(q)
    BY <1>0, <1>1, <2>1 DEF Starting, At, OfControllers
  <2>3. /\ OfConstructor(r)' = OfConstructor(r) \union {i}
        /\ \A q \in Resource : q # r => OfConstructor(q)' = OfConstructor(q)
    BY <1>1, <1>6, <2>2 DEF OfConstructor
  <2>4. \A q \in Resource : /\ Held(q) = OfControllers(q) \union {<<c, j>> : j \in OfConstructor(q)}
                            /\ Held(q)' = OfControllers(q)' \union {<<c, j>> : j \in OfConstructor(q)'}
    BY <1>1, <2>2 DEF Held, OfControllers, OfConstructor
  <2>5. /\ Held(r)' = Held(r) \union {h}
        /\ \A q \in Resource : q # r => Held(q)' = Held(q)
    BY <2>2, <2>3, <2>4
  <2>6. /\ informers'[r] = (IF informers[r] = None THEN "runs" ELSE informers[r])
        /\ \A q \in Resource : q # r => informers'[q] = informers[q]
    BY <1>0, <2>1 DEF GetOrCreate
  <2>7. CacheOf(r)' = IF CacheOf(r) = "off" THEN "empty" ELSE CacheOf(r)
    BY <1>0, <2>6, ConfigAssumption DEF CacheOf
  <2>8. \A q \in Resource : h \notin Opened[q]
    <3>1. h \notin {s \in Config \X Slots : s[2] \in ctls[s[1]].subs}
      BY <1>2 DEF Absent
    <3>2. \A q \in Resource : h \notin {<<c, j>> : j \in OfConstructor(q)}
      BY <1>5 DEF OfConstructor
    <3> QED
      BY <2>4, <3>1, <3>2 DEF Opened, OfControllers
  <2>9. /\ Opened' = [Opened EXCEPT ![r] = @ \union {h}]
        /\ Caches' = [Caches EXCEPT ![r] = IF @ = "off" THEN "empty" ELSE @]
    BY <2>5, <2>6, <2>7, OneOfFactory DEF Opened, Caches
  <2>10. h \in Config \X Slots
    OBVIOUS
  <2> QED
    BY <2>8, <2>9, <2>10 DEF Factory!Next, Factory!Open, Opened, Caches
<1> QED
  BY <1>7, <1>8

(* The subscriptions of a constructor are its controller's from now on.     *)
LEMMA PassesOn ==
  ASSUME SubsInv, StartController
  PROVE  UNCHANGED <<Opened, Caches>>
<1>0. /\ Constructing /\ NextConfig(starter.errs) /\ ctls \in [Config -> Ctl]
      /\ UNCHANGED <<configs, shared>>
  BY SubsTyped DEF StartController
<1>1. PICK c \in Config : c = At
  BY <1>0, ConstructingFacts
<1>2. /\ ctls[c] = Absent /\ Absent.subs = {}
      /\ \A j \in DOMAIN Resources(c) : j \in Slots
      /\ starter.subs \subseteq DOMAIN Resources(c)
  BY <1>0, <1>1, ConstructingFacts, SubsTyped DEF Absent, ConstructorOK
<1>3. /\ ctls'[c].subs = starter.subs /\ starter'.subs = {}
      /\ \A d \in Config : d # c => ctls'[d] = ctls[d]
  BY <1>0, <1>1 DEF StartController, NextConfig
<1>4. ASSUME NEW r \in Resource
      PROVE  Held(r)' = Held(r)
  <2>1. ASSUME NEW s \in Config \X Slots
        PROVE  s \in Held(r)' <=> s \in Held(r)
    <3>1. PICK d \in Config, j \in Slots : s = <<d, j>>
      OBVIOUS
    <3>2. s \in Held(r)' <=> j \in ctls'[d].subs /\ Resources(d)[j] = r
      BY <1>3, <3>1 DEF Held
    <3>3. s \in Held(r) <=> \/ j \in ctls[d].subs /\ Resources(d)[j] = r
                            \/ d = c /\ j \in starter.subs /\ Resources(d)[j] = r
      BY <1>1, <3>1 DEF Held
    <3> QED
      BY <1>2, <1>3, <3>2, <3>3
  <2>2. Held(r) \subseteq Config \X Slots
    BY <1>1, <1>2 DEF Held
  <2>3. Held(r)' \subseteq Config \X Slots
    BY <1>3 DEF Held
  <2> QED
    BY <2>1, <2>2, <2>3
<1> QED
  BY <1>0, <1>4, SameFactory DEF shared

LEMMA ClosesOne ==
  ASSUME SubsInv, SubsInv', NEW r \in Resource, NEW h \in Config \X Slots, CloseFn(r),
         h \in Held(r), Held(r)' = Held(r) \ {h},
         \A q \in Resource : q # r => Held(q)' = Held(q)
  PROVE  Factory!Next
<1>1. refCount \in [Resource -> Nat] /\ informers \in [Resource -> {None, "runs", "synced"}]
  BY SubsTyped
<1>2. informers'[r] # None <=> Held(r)' # {}
  <2>1. AllHeld'
    BY RunsIfHeld, PTL
  <2> QED
    BY <2>1 DEF AllHeld
<1>3. /\ informers'[r] \in {informers[r], None}
      /\ \A q \in Resource : q # r => informers'[q] = informers[q]
  BY <1>1 DEF CloseFn, StopInformer
<1>4. informers'[r] = IF Held(r) = {h} THEN None ELSE informers[r]
  <2>1. Held(r) = {h} <=> Held(r)' = {}
    OBVIOUS
  <2> QED
    BY <1>2, <1>3, <2>1
<1>5. CacheOf(r)' = IF Held(r) = {h} THEN "off" ELSE CacheOf(r)
  <2>1. CASE Held(r) = {h}
    <3>1. informers'[r] = None
      BY <1>4, <2>1
    <3> QED
      BY <2>1, <3>1, ConfigAssumption DEF CacheOf
  <2>2. CASE Held(r) # {h}
    <3>1. informers'[r] = informers[r]
      BY <1>4, <2>2
    <3> QED
      BY <1>1, <2>2, <3>1, ConfigAssumption DEF CacheOf
  <2> QED
    BY <2>1, <2>2
<1>6. /\ Opened' = [Opened EXCEPT ![r] = @ \ {h}]
      /\ Caches' = [Caches EXCEPT ![r] = IF Opened[r] = {h} THEN "off" ELSE @]
  BY <1>3, <1>5, OneOfFactory DEF Opened, Caches
<1>7. h \in Opened[r]
  BY DEF Opened
<1> QED
  BY <1>6, <1>7 DEF Factory!Next, Factory!Close, Opened, Caches

LEMMA UndoesOne ==
  ASSUME SubsInv, SubsInv', Undo, starter.subs # {}
  PROVE  Factory!Next
<1>0. starter \in Starting /\ ConstructorOK /\ Working /\ UNCHANGED <<configs, ctls>>
  BY SubsTyped DEF Undo
<1>1. PICK i \in starter.subs : /\ CloseFn(Resources(At)[i])
                                /\ starter' = [starter EXCEPT !.subs = @ \ {i}]
  BY DEF Undo, ClosesAll
<1>2. PICK c \in Config : c = At
  BY <1>0, SubsTyped, AtFacts
<1>3. ctls[c] = Absent /\ i \in DOMAIN Resources(c) /\ i \in Slots
  BY <1>0, <1>2, ConfigFacts DEF ConstructorOK
<1>4. PICK r \in Resource : r = Resources(c)[i]
  BY <1>3, ConfigFacts
<1>5. /\ starter'.subs = starter.subs \ {i} /\ At' = c
      /\ \A q \in Resource : OfControllers(q)' = OfControllers(q)
  BY <1>0, <1>1, <1>2 DEF Starting, At, OfControllers
<1>6. /\ OfConstructor(r)' = OfConstructor(r) \ {i} /\ i \in OfConstructor(r)
      /\ \A q \in Resource : q # r => OfConstructor(q)' = OfConstructor(q)
  BY <1>2, <1>4, <1>5 DEF OfConstructor
<1>7. \A q \in Resource : /\ Held(q) = OfControllers(q) \union {<<c, j>> : j \in OfConstructor(q)}
                          /\ Held(q)' = OfControllers(q)' \union {<<c, j>> : j \in OfConstructor(q)'}
  BY <1>2, <1>5 DEF Held, OfControllers, OfConstructor
<1>8. <<c, i>> \notin OfControllers(r)
  BY <1>3 DEF OfControllers, Absent
<1>9. /\ <<c, i>> \in Held(r) /\ Held(r)' = Held(r) \ {<<c, i>>}
      /\ \A q \in Resource : q # r => Held(q)' = Held(q)
  BY <1>5, <1>6, <1>7, <1>8
<1> QED
  BY <1>1, <1>2, <1>3, <1>4, <1>9, ClosesOne

LEMMA ReleasesOne ==
  ASSUME SubsInv, SubsInv', NEW c \in Config, Release(c), ctls[c].subs # {}
  PROVE  Factory!Next
<1>0. /\ ctls \in [Config -> Ctl] /\ ctls[c].subs \subseteq DOMAIN Resources(c)
      /\ UNCHANGED <<configs, starter>> /\ ctls[c].stage = "halts"
  BY SubsTyped DEF Release, starting, ControllersOK
<1>1. PICK i \in ctls[c].subs : /\ CloseFn(Resources(c)[i])
                                /\ ctls' = [ctls EXCEPT ![c].subs = @ \ {i}]
  BY DEF Release
<1>2. i \in DOMAIN Resources(c) /\ i \in Slots
  BY <1>0, ConfigFacts
<1>3. PICK r \in Resource : r = Resources(c)[i]
  BY <1>2, ConfigFacts
<1>4. /\ ctls'[c].subs = ctls[c].subs \ {i}
      /\ \A d \in Config : d # c => ctls'[d] = ctls[d]
  BY <1>0, <1>1 DEF Ctl
<1>5. /\ OfControllers(r)' = OfControllers(r) \ {<<c, i>>} /\ <<c, i>> \in OfControllers(r)
      /\ \A q \in Resource : q # r => OfControllers(q)' = OfControllers(q)
  BY <1>2, <1>3, <1>4 DEF OfControllers
<1>6. /\ \A q \in Resource : OfConstructor(q)' = OfConstructor(q)
      /\ At' = At
  BY <1>0 DEF OfConstructor, At
<1>7. \A q \in Resource : /\ Held(q) = OfControllers(q) \union {<<At, j>> : j \in OfConstructor(q)}
                          /\ Held(q)' = OfControllers(q)' \union {<<At, j>> : j \in OfConstructor(q)'}
  BY <1>6 DEF Held, OfControllers, OfConstructor
<1>8. OfConstructor(r) # {} => At # c
  BY <1>0, SubsTyped DEF OfConstructor, ConstructorOK, Absent
<1>9. <<c, i>> \notin {<<At, j>> : j \in OfConstructor(r)}
  BY <1>8
<1>10. /\ <<c, i>> \in Held(r) /\ Held(r)' = Held(r) \ {<<c, i>>}
       /\ \A q \in Resource : q # r => Held(q)' = Held(q)
  BY <1>5, <1>6, <1>7, <1>9
<1> QED
  BY <1>1, <1>2, <1>3, <1>10, ClosesOne

LEMMA ListsOne ==
  ASSUME SubsInv, NEW r \in Resource, List(r)
  PROVE  Factory!Next
<1>1. /\ informers \in [Resource -> {None, "runs", "synced"}] /\ informers[r] = "runs"
      /\ informers' = [informers EXCEPT ![r] = "synced"]
      /\ UNCHANGED <<configs, starter, ctls>>
  BY SubsTyped DEF List, starting
<1>2. \A q \in Resource : Held(q)' = Held(q)
  BY <1>1, HeldStays DEF At
<1>3. CacheOf(r) = "empty" /\ CacheOf(r)' = "listed"
  BY <1>1, ConfigAssumption DEF CacheOf
<1>4. /\ Opened' = Opened
      /\ Caches' = [Caches EXCEPT ![r] = "listed"]
  BY <1>1, <1>2, <1>3, OneOfFactory DEF Opened
<1> QED
  BY <1>3, <1>4 DEF Factory!Next, Factory!Lists, Opened, Caches

LEMMA FactorySteps ==
  ASSUME SubsInv, SubsInv', [Next]_vars
  PROVE  [Factory!Next]_<<Opened, Caches>>
<1>1. CASE \/ Discovers \/ Installs \/ TimePasses \/ Signal \/ Exit \/ UNCHANGED vars
           \/ \E p \in Path : Load(p)
  BY <1>1, KeepsFactory
<1>2. CASE Starter
  <2>1. CASE SkipStarted \/ LookUp \/ EndAttempt \/ RetryStart \/ (Undo /\ starter.subs = {})
    BY <1>2, <2>1, KeepsFactory DEF Starter
  <2>2. CASE Subscribe
    BY <2>2, OpensOne
  <2>3. CASE StartController
    BY <2>3, PassesOn
  <2>4. CASE Undo /\ starter.subs # {}
    BY <2>4, UndoesOne
  <2> QED
    BY <1>2, <2>1, <2>2, <2>3, <2>4 DEF Starter
<1>3. CASE Controllers
  <2>1. ASSUME NEW r \in Resource, List(r)
        PROVE  Factory!Next
    BY <2>1, ListsOne
  <2>2. ASSUME NEW c \in Config, Release(c), ctls[c].subs # {}
        PROVE  Factory!Next
    BY <2>2, ReleasesOne
  <2>3. ASSUME NEW c \in Config,
               StartWorkers(c) \/ Halt(c) \/ (Release(c) /\ ctls[c].subs = {})
        PROVE  UNCHANGED <<Opened, Caches>>
    BY <1>3, <2>3, KeepsFactory DEF Controllers
  <2> QED
    BY <1>3, <2>1, <2>2, <2>3 DEF Controllers
<1> QED
  BY <1>1, <1>2, <1>3 DEF Next

(* The constructors of a server that starts controllers from files share    *)
(* informers as SharedInformers says: any number of attempts that subscribe *)
(* and take it back leaves every controller that was started the informers  *)
(* it has, with what they have listed.                                      *)
THEOREM ImplementsInformers == Spec => KeepsInformers
<1>1. Init => Factory!Init
  <2> SUFFICES ASSUME Init PROVE Factory!Init
    OBVIOUS
  <2>1. starter.subs = {} /\ \A c \in Config : ctls[c].subs = {}
    BY DEF Init, NotStarting, Absent
  <2>2. \A r \in Resource : Held(r) = {}
    BY <2>1 DEF Held
  <2>3. \A r \in Resource : CacheOf(r) = "off"
    BY ConfigAssumption DEF CacheOf, Init
  <2>4. [r \in Resource |-> Held(r)] = [r \in Resource |-> {}]
    BY <2>2
  <2>5. [r \in Resource |-> CacheOf(r)] = [r \in Resource |-> "off"]
    BY <2>3
  <2> QED
    BY <2>4, <2>5 DEF Factory!Init
<1>2. SubsInv /\ SubsInv' /\ [Next]_vars => [Factory!Next]_<<Opened, Caches>>
  BY FactorySteps
<1> QED
  BY <1>1, <1>2, SubsAlways, PTL DEF Spec, KeepsInformers, Factory!Spec, Opened, Caches
===============================================================================
