------------------------------ MODULE Discovery ------------------------------
(***************************************************************************)
(* APIResourceDiscovery: what the API server serves, fetched by a loop of  *)
(* one goroutine again and again and handed to everybody who looks up a    *)
(* resource.                                                               *)
(*                                                                         *)
(* The server starts the loop, and programs that embed metac are given the *)
(* same instance: any of them may start it, stop it and start it again.    *)
(* Stop is not called twice for one start: that would close a closed       *)
(* channel.                                                                *)
(***************************************************************************)
EXTENDS Naturals

CONSTANTS
  Client,     \* goroutines that start and stop discovery
  Resource,   \* resources of an API version
  Preinstalled, \* those the API server serves at first
  MaxChanges, \* bound: resources that are installed and removed
  MaxFails,   \* bound: discovery requests that fail
  None

VARIABLES
  installed,  \* what the API server serves
  changes,    \* how often that has changed
  fails,
  known,      \* discoveredResources, with their age in changes
  started,    \* isStarted
  closed,     \* is stopCh closed, and
  ended,      \* is doneCh?
  caller,     \* clients in Start and Stop
  loop        \* the goroutine each client has started

channels   == <<closed, ended>>
discovery  == <<known, started, channels, caller, loop>>
apiServer  == <<installed, changes>>
discoveryVars == <<discovery, apiServer, fails>>

Answer == [has : SUBSET Resource, since : Nat]

ASSUME DiscoveryAssumption ==
  /\ Preinstalled \subseteq Resource
  /\ MaxChanges \in Nat /\ MaxFails \in Nat
  /\ None \notin Answer

NoLoop == [at |-> "off", got |-> None]

DiscoveryInit ==
  /\ installed = Preinstalled /\ changes = 0 /\ fails = 0
  /\ known = None
  /\ started = FALSE /\ closed = FALSE /\ ended = FALSE
  /\ caller = [k \in Client |-> "idle"]
  /\ loop = [k \in Client |-> NoLoop]

-----------------------------------------------------------------------------
(* Lookups, under the read lock.                                            *)
HasSynced == known # None

Discovered(r) == HasSynced /\ r \in known.has

-----------------------------------------------------------------------------
(* Start.  StartIfNotAlready tests and sets the flag under the lock; the    *)
(* channels are made and the goroutine is spawned after it.  The mutant     *)
(* sets the flag and does not look whether it was set.                      *)
Flagged == TRUE

NotStarted == ~started

StartIfNotAlready(k) ==
  /\ caller[k] = "idle" /\ NotStarted
  /\ started' = TRUE
  /\ caller' = [caller EXCEPT ![k] = "spawns"]
  /\ UNCHANGED <<known, channels, loop, apiServer, fails>>

Spawn(k) ==
  /\ caller[k] = "spawns"
  /\ closed' = FALSE /\ ended' = FALSE
  /\ loop' = [loop EXCEPT ![k].at = "asks"]
  /\ caller' = [caller EXCEPT ![k] = "idle"]
  /\ UNCHANGED <<known, started, apiServer, fails>>

(* Stop, which waits for the goroutine before it resets the flag.  The      *)
(* mutant does not wait.                                                    *)
Spawned == \E k \in Client : loop[k].at # "off"

StopDiscovery(k) ==
  /\ caller[k] = "idle"
  /\ started /\ ~closed /\ Spawned
  /\ closed' = TRUE
  /\ caller' = [caller EXCEPT ![k] = "waits"]
  /\ UNCHANGED <<known, started, ended, loop, apiServer, fails>>

NeedNotEnd == TRUE

HasEnded == ended

DiscoveryStopped(k) ==
  /\ caller[k] = "waits" /\ HasEnded
  /\ started' = FALSE
  /\ caller' = [caller EXCEPT ![k] = "idle"]
  /\ UNCHANGED <<known, channels, loop, apiServer, fails>>

-----------------------------------------------------------------------------
(* The goroutine.  refresh fetches what the server has without the lock and *)
(* replaces the map under it; an answer with an error is dropped.           *)
Steps(k, to, got) == loop' = [loop EXCEPT ![k] = [at |-> to, got |-> got]]

Fetch(k) ==
  /\ loop[k].at = "asks"
  /\ Steps(k, "replaces", [has |-> installed, since |-> changes])
  /\ UNCHANGED <<known, started, channels, caller, apiServer, fails>>

FetchFails(k) ==
  /\ loop[k].at = "asks" /\ fails < MaxFails
  /\ fails' = fails + 1
  /\ Steps(k, "sleeps", None)
  /\ UNCHANGED <<known, started, channels, caller, apiServer>>

Replace(k) ==
  /\ loop[k].at = "replaces"
  /\ known' = loop[k].got
  /\ Steps(k, "sleeps", None)
  /\ UNCHANGED <<started, channels, caller, apiServer, fails>>

(* The select: the ticker, or the stop channel once it is closed.           *)
LoopTicks(k) ==
  /\ loop[k].at = "sleeps"
  /\ Steps(k, "asks", None)
  /\ UNCHANGED <<known, started, channels, caller, apiServer, fails>>

LoopEnds(k) ==
  /\ loop[k].at = "sleeps" /\ closed
  /\ Steps(k, "off", None)
  /\ ended' = TRUE
  /\ UNCHANGED <<known, started, closed, caller, apiServer, fails>>

(* Resources come and go at the API server.                                 *)
Install(r) ==
  /\ changes < MaxChanges
  /\ changes' = changes + 1
  /\ installed' = IF r \in installed THEN installed \ {r} ELSE installed \union {r}
  /\ UNCHANGED <<discovery, fails>>

-----------------------------------------------------------------------------
Refresh(k) == Fetch(k) \/ FetchFails(k) \/ Replace(k)

Calls(k) == StartIfNotAlready(k) \/ Spawn(k) \/ StopDiscovery(k) \/ DiscoveryStopped(k)

Loops(k) == Refresh(k) \/ LoopTicks(k) \/ LoopEnds(k)

DiscoveryNext ==
  (\E k \in Client : Calls(k) \/ Loops(k)) \/ \E r \in Resource : Install(r)

DiscoverySpec == DiscoveryInit /\ [][DiscoveryNext]_discoveryVars

-----------------------------------------------------------------------------
DiscoveryTypeOK ==
  /\ installed \in SUBSET Resource /\ changes \in Nat /\ fails \in Nat
  /\ known \in Answer \union {None}
  /\ started \in BOOLEAN /\ closed \in BOOLEAN /\ ended \in BOOLEAN
  /\ caller \in [Client -> {"idle", "spawns", "waits"}]
  /\ loop \in [Client -> [at : {"off", "asks", "replaces", "sleeps"},
                          got : Answer \union {None}]]

(* However many start it, and however soon after a stop, one goroutine at   *)
(* most discovers: the flag and the channels are set in separate steps.     *)
OneLoop ==
  \A k, j \in Client : loop[k].at # "off" /\ loop[j].at # "off" => k = j

(* What is known is never replaced by what was fetched before it, not by a  *)
(* goroutine that was stopped either, and is never forgotten.               *)
NeverOlder ==
  [][ known # None => known' # None /\ known'.since >= known.since ]_discoveryVars
=============================================================================
