# metac, modelled in TLA+

metac is a fork of Metacontroller: a process that runs Kubernetes controllers
which are described by custom resources and implemented by hooks (webhooks, or
functions linked into the binary).  It watches the resources the controllers
name, calls their hooks with what it observed, and carries out what the hooks
answer: it adopts, creates, updates and deletes children, keeps revisions for
rolling updates, sets finalizers and status.  The hard part is not any single
step but their order: everything is read from informer caches that lag behind
the API server, written one API call at a time, and may stop between any two.

This directory is a verification development of that code.  Paths are relative
to the repository's root.  `PROJECT.json` lists, machine-readably, the
components, the runs, which definition models which lines (`map`), for every
property a plausible bug that breaks it (`mutants`), what was found, the
hazards and the theorems.

## Inventory

| component | source | state | operations | what makes it correct |
|---|---|---|---|---|
| composite: rolling update | `controller/composite/rolling_update.go`, `controller_revision.go`, `controller/common/manage_children.go` | ControllerRevisions and the children each claims; the children; the Updated condition | `syncRevisions`, `syncRollingUpdate`, `manageRevisions`, `ManageChildren`, `updateParentStatus` | one child at a time; nothing is done before it is recorded; the latest revision wins; a rollout ends; the status is true |
| composite: claims | `dynamic/controllerref`, `third_party/kubernetes/controller_ref_manager.go`, `controller/composite/controller.go` (`claimChildren`, handlers) | owner references of children and revisions | `Claim`, adopt, release, `canAdoptFunc`; `onChildAdd/Update/Delete` | one controller per object, never stolen; deleted parents adopt nothing; every matching orphan finds a parent |
| composite: parent's life | `controller/composite/controller.go`, `controller/common/finalizer` | finalizers and deletion timestamp of the parent | `SyncObject`, `ShouldFinalize`, finalize hook, `RemoveFinalizer` | the finalizer is there before the first child; it goes only when all revisions agree; children are left alone after that |
| composite: queue and workers | `controller/composite/controller.go` (`Start`, `Stop`, `worker`, `processNextWorkItem`) and client-go's work queue | keys queued and in process; stop and done channels | add, get, done, rate-limited add, shut down | a key is never processed twice at once and never lost; Stop returns with all workers gone |
| metacontrollers | `controller/{composite,decorator,generic}/metacontroller.go` | map from controller names to running controllers | start, replace, stop on changes of the CRs; `ConfigMetaController` from files | one controller per CR, of its last version; none after the CR is gone |
| decorator | `controller/decorator/*.go` | attachments of arbitrary parents, parent's labels, annotations, status, finalizer | `sync`, `getChildren`, `updateParent` | attachments belong to their decorator; nothing is decorated that the selectors reject; finalizer before attachments |
| generic | `controller/generic/*.go` | a watch resource and its attachments | `sync`, finalize, `updateWatch`; update-any, delete-any | ownership guards on attachments of others; finalizer order |
| apply | `controller/common/controller.go`, `dynamic/apply` | last-applied state in annotations | three-way merge; create/update/delete of a cluster state | fields nobody listed stay; removed ones go; lists merge by key; a no-op stays a no-op |
| selectors | `controller/common/selector` | none | label, annotation, field, slice, reference terms | terms are ORed, requirements ANDed, and what is missing, empty or not a string is told apart |
| informers | `dynamic/informer` | shared informers with reference counts, handlers by controller | `GetOrCreate`, `Close`, add and remove handlers | an informer runs while it is referenced; removed handlers are never called again; each handler sees every object |
| clientset, lister, object | `dynamic/{clientset,lister,object}` | none (API server) | `AtomicUpdate`, `AtomicStatusUpdate`, finalizer and condition helpers | read-modify-write on the right incarnation |
| discovery | `dynamic/discovery` | map of API resources, refreshed by a goroutine | start, stop, refresh, lookups | one goroutine at most; what is known never gets older; start and stop pair up |
| hooks | `controller/common/invoke_hook.go`, `hooks`, `controller/generic/inlinehook.go` | none | call a webhook or an inline function | I/O |
| server, start, config | `server`, `start`, `config`, `main.go` | the configuration that was loaded; is a signal there | load files or call a load function; start discovery and the metacontrollers, stop them on a signal | every controller that can start does; a signal stops all of them and their informers |
| API types, generated clients | `apis`, `client/generated` | none | generated code | - |
| test framework, examples, docs, manifests | `test`, `examples`, `docs`, `helm`, `manifests` | - | - | - |

How they interact: a metacontroller starts one controller per custom resource;
the controller gets reference-counted informers from the factory, whose
handlers put keys of parents into its queue; workers take the keys, claim the
children (claims), call the hooks, decide and record (rolling update), apply
(apply, `ManageChildren`) and write the parent's status through the dynamic
clientset.  Controllers and the rest of the world meet in the API server only.

What is hard here: informers of several resources that lag independently;
decisions on copies that are stale when they are carried out; sequences of API
calls of which a prefix happens; two workers, two parents or two controllers on
one object; keys that must not be lost; deletion and recreation of objects
under their names while they are worked on.

## Modules

| module | what it is |
|---|---|
| `RollingUpdate` | what a rolling update promises of the children that are never scaled away, abstractly |
| `CompositeRollout` | the sync of one parent with rolling updates, against the API server, the caches, the users and the children's own controllers; implements `RollingUpdate` |
| `CompositeRolloutProofs` | theorems about it: types, and that everything is recorded first |
| `RolloutClaimsProofs` | what the revisions claim, one child at a time, and that `RollingUpdate` is implemented; it extends `CompositeRolloutProofs` |
| `Ownership` | what controller references promise, abstractly |
| `ChildClaims` | the claim managers and watch handlers of several parents; implements `Ownership` |
| `ChildClaimsProofs` | theorems about it |
| `ParentLifecycle` | one parent from its creation to its removal: finalizer, finalize hook, garbage collector, restarts of the controller with other hooks |
| `ParentLifecycleProofs` | theorems about it |
| `SharedInformers` | what the factory of informers promises to those who subscribe, abstractly |
| `Metacontrollers` | the metacontrollers, their controllers and the informers they share; implements `SharedInformers` |
| `MetacontrollersProofs` | theorems about it |
| `Discovery` | what the API server serves, fetched by a goroutine that several clients start and stop |
| `ConfigServer` | metac run from files: loading, the attempts to start a controller per file, the signal; it extends `Discovery` and implements `SharedInformers` |
| `ConfigServerProofs` | theorems about it |
| `Attachments` | one watched object, with its DecoratorControllers and GenericControllers, their attachments, and everybody else who writes them |
| `AttachmentsProofs` | theorems about it |
| `Trees` | the contents of objects: scalars, maps, lists, and paths in them |
| `ApplyMerge` | the three-way merge of such contents, the records of what was applied, the fields it reverts |
| `Selectors` | label, field, list and reference requirements, terms, and the selectors per kind |
| `Selection` | controllers that are constructed with selectors, and the objects that change after that; it extends `Selectors` |
| `SelectionProofs` | a theorem about it: selectors select what they state |
| `Reconcile` | one attachment of several GenericControllers that select, create, merge and delete it; it extends `ApplyMerge` and `Selectors` |
| `MCCompositeRollout`, `MCChildClaims`, `MCMetacontrollers`, `MCConfigServer`, `MCAttachments`, `MCSelection`, `MCReconcile` | constants of the small instances |

### CompositeRollout

Its *state* is the API server (`parent`, `revs`: the children each
ControllerRevision claims, `children`), the informer caches of the three
(`cParent`, `cRevs`, `cChildren`), the work queue's one key (`queued`), and the
worker (`pc`, `snap`: what the sync read, `plan`: what it decided and has still
to do).  A resourceVersion is abstracted to what it is used for: a copy is
"same", "changed" or "gone" with respect to the stored object, so an update
with a stale copy conflicts and a delete of another incarnation fails.  The
parent's spec is its revision-history fields (`ver`, which also names the
revision, as the hash in the code does) and the set of children the hook asks
for (`scale`); the hook is the table `Template`.  Two history variables serve
the properties: `updating`, the version a child is being updated to until it is
seen healthy with it or created at another, and `astray`, whether a sync has
read children or revisions that were no longer so, or has ended before all its
revisions were stored.  A plan remembers for the same purpose how old the copies
of revisions were that it was made from (`base`, which also decides what its
writes meet) and the children that two of them claimed (`twice`).

Its *actions* follow `syncParentObject`: `BeginSync` (read the parent and the
children), `PlanRollout` (`syncRevisions` up to the first write, with
`syncRevisionClaims`, both loops of `syncRollingUpdate`,
`shouldContinueRolling`, `pruneParentRevisions` and the overwriting of desired
children as operators on a list of revisions in any order after the latest),
`PlanPanics` (the nil dereference in `Apply.Merge`), `DeleteRevision` and
`PutRevision` (one API call each, in the order of `manageRevisions`),
`DeleteChild` and `ApplyChild` (one API call each, errors remembered),
`FinishSync` (status, then requeue on error). Around them: watch events per
resource, the resync, crashes with a restart, failed calls and hooks, edits of
the parent, and children that become ready, fail, are drained or disappear.

Left to other modules: adoption (`ChildClaims`), deletion of the parent and
finalizers, several workers, the merge itself (here a child's content is one
value).  The names of claims are sets, so their order in the stored revision is
not modelled; nor is the delayed resync a hook may ask for, which only adds
wake-ups.  Only namespaced parents are modelled: a ControllerRevision is
namespaced and is written next to its parent.

No sync waits for a cache.  `BeginSync` and `PlanRollout` take the copies as
they are, `RevisionEvent`, `ChildEvent` and `ParentEvent` bring a cache up to
date at any time, and nothing wakes the parent for a revision.  (An
event brings the cache of one kind up to its present state at once.)  The code
breaks several promises on old copies, without any crash, and the properties
say which and by what copies:

* If a stored revision is not in the cache yet, its children look as if nobody
  claimed them: they all move to the latest in one decision, and
  "OnLatestRevision" is reported while that revision claims them still.  If an
  old copy of a revision needs no write by its contents, it is
  not looked at again: what it claims may no longer be stored.
  `CommittedBeforeActing` speaks of the revisions that the sync wrote or whose
  copy is still the stored one, `StatusTruth` of those whose copies were.
* A revision may be deleted (by its UID) whose children the sync takes to be
  claimed by an old copy of another: they are claimed by nobody then.
  `NeverUnclaimed` excepts the case that all copies that were to keep the claim
  are old, and the moment between a deletion and the write of the latest.
* If two copies claim one child, the older revision overrides the latest.
  `LatestWins` excepts these children (`plan.twice`), and nothing else.
* Two children may be updated at a time, although `compositecontroller.md`
  (lines 170 and 171 of `docs/_api`) says one: so `OneAtATime` and
  `RollingUpdate` promise nothing from the first sync on that is `astray`.  A
  crash or an error between two writes of `manageRevisions` has the same effect,
  by claims that no later sync repairs (`CrashStopsRollout` below).
* After a sync of old revisions no event may be left that wakes the parent, and
  the rollout stands until the resync; and if such a sync writes the latest
  revision and conflicts on the older one, a child stays claimed twice, and it
  waits for ever.  `RolloutGoesOn` says that these are the only reasons: a
  rollout ends by events alone if no sync went astray, and with the resync
  unless a child stays claimed twice.

What a rollout promises, it promises to the children that every scale asks for
(`AlwaysAsked`: one that is scaled away keeps its claim and is claimed without
waiting when it comes back); one at a time are those of them whose status has an
`observedGeneration` or that are recreated (`Paced`), for the status of another
passes the checks although it speaks of the generation before the update.

`RollingUpdate` is the abstract specification, without caches, syncs, revisions
or faults: for each such child the version it is to have (`owner`), what it
holds (`content`) and the version it is being updated to (`moving`).  A
decision for a version gives it the children that have no version or hold what
it wants already, and one more only if all those it then has are settled: they
hold what it wants and are not being updated to it.  Apart from that a child is
updated, created or settles at what its owner wants, or vanishes.
`CompositeRollout` maps the owner of a child to the version whose claims name
it, by the plan while there is one and by the stored revisions otherwise, so
that the writes of `manageRevisions` are no steps at all; and its content, for
a sync that has yet to decide, to what that sync saw, so that a child which
vanishes under it is decided about as it was.  After a sync that went astray
nothing is promised.

### ChildClaims

Its *state* is the API server (`parents` with UIDs and deletion, `objects` with
labels and controller), the two caches, the queue of parents' names and, for
every parent, the sync of its key (`sync[p]`): what it listed, what is left to
claim, what it claimed, the memo of `canAdoptFunc`, and the copy of its last
live GET.  Its *actions*: `BeginSync` (list, and decide per object as
`ClaimManager.Claim` does), `CheckAdopt` (live read of the parent, once),
`RefuseAdopt`, `Get`, `Put`, `PutRefused` (the halves of `atomicUpdate`, with
UID check, conflict and retry; the API server refuses a second controller),
`EndClaims`, `EndSync`; watch events with the handlers `onChildAdd`,
`onChildUpdate`, `onChildDelete`; users and the garbage collector.
ControllerRevisions are objects whose `Put` stores nothing and whose events
wake nobody, as in the code.

One field of a sync, `fresh`, serves the properties only: the children were
listed as they are stored.  `ExclusiveClaims` speaks of syncs with that, of any
age, and of the present objects; on older lists two parents do act on one
object, until a conflict tells one of them.

`Ownership` is its abstract specification: the owner of every object, which is
nobody before and after every controller.

### ParentLifecycle

Its *state* is the stored `parent` (UID, deletion, the controller's finalizer
`ours`, the garbage collector's `gc`), its `children` (owner, deletion), the
two caches, whether the CompositeController has a finalize hook (`hooked`), the
queue's one key and the `sync` that runs.  Three history variables serve the
properties: `acted`, the incarnations for which a child was created while there
was a hook, `cleaned`, those whose finalize hook said that it is done, and
`lapsed`, the one that goes without its finalizer by what the code does.

Its *actions* follow `syncParentObject` call by call: `BeginSync` (read the
cached parent), `SyncFinalizer` (`Finalizer.SyncObject` on the copy,
`AtomicUpdate` on the live object, an error requeues), `CallHook` (observe the
cached children, call the sync or the finalize hook), `RemoveFinalizer` (if the
answer says finalized; the sync goes on with the object as it was sent),
`DeleteChild` and `CreateChild` (behind `ShouldFinalize`), `FinishSync`.
Around them are the watches, crashes, failed calls, users, the garbage
collector in both deletion modes, and `Reconfigure`: the CompositeController's
hooks change, the metacontroller stops the controller and starts another.

The finalize hook is the ordered teardown of the documentation: it wants all
children it observes but the last, and is done when it observes none.  Which
children a parent observes is ownership alone (`ChildClaims` has the rest); a
child is never updated; whether a status update changes anything is left open;
the parent has one name; orphaning deletion and the finalize hooks of several
revisions are left out.

`Reconfigure` stops the controller and starts one whose informers, one by one,
list afresh or go on with the cache they have: the factory hands out the running
informer if another controller holds it (`dynamic/informer/factory.go:69`).
With a hook that goes and comes back, the copy in such a cache may still have
the finalizer that the controller without the hook has removed; `SyncObject`
then takes it to be there, and children are created without it
(`StaleFinalizer`).  The other way to lose it: `finalized` is acted on after the
sync hook as well (`composite/controller.go:609`), although `hooks.go:68` says
that only the finalize hook uses it; a hook shared by both that says so when it
observes no children (`MaySayFinalized`) has the finalizer of a living parent
removed just before its first children are created.  Both are `lapsed`, until a
sync stores the finalizer again; `CleansUp` speaks of all other parents, and of
these once they have it.

### Metacontrollers

Its *state* is the custom resources (`crs`), what discovery knows (`known`) and
which objects exist; the metacontrollers (`metas`: running, working off their
queue, closing their controllers, done; and the custom resource at hand, as it
was listed) and their queues; the factory's `informers` and `refCount`; the
controllers (`ctls`: how far they are, their subscriptions and handlers, whether
workers run), whether a key is in their queue (`dirty`), what their last sync
`seen`; and the goroutine of a handler's own resync (`ticker`).

Its *actions* are those of a metacontroller's worker (`TakeKey`, `NothingToDo`,
`StopOld`, `Construct`, `Subscribe`, `Undo`/`Undone` when a constructor fails,
`AddHandler`, `Started`), of a controller (`StartWorkers`, `Sync`), of `Stop`
(`Halted` once the queue is worked off, then `RemoveHandler`, `HandlerRemoved`
and `CloseInformer` for one informer after the other, `Stopped`), of the ticker
(`Tick`, `Resync`, `TickerStops`), of a shared informer (`List`, `WatchEvent`,
`BeginDispatch`, `CallHandler` for one handler at a time under the read lock),
of the shutdown (`StopMeta`, `Drained`, `StopController`, `MetaStopped`) and of
the world (`EditCR`, `Discover`, `ObjectChanges`).

The composite, the decorator and the generic metacontroller of custom resources
share this protocol.  They differ in what they hand to it: a list of resources
(`Wants`), which of them get handlers (`Heard`: a GenericController listens to
what it watches, not to its attachments) and whether the first has a resync of
its own (`Ticking`).  What a handler is called with when it is added is dropped
by the handlers of children (an update from an object to itself), so the first
resync wakes a controller for its parent alone (`ParentResync`), and a child's
event wakes it only if the parent is cached.  One object per resource, one key
per controller and a successful sync are the abstraction; several parent
resources of a decorator, retries of a failing sync are left out; the
metacontroller of configuration files is in `ConfigServer`.  That a controller
lists a child resource once is an assumption: listed twice, the second informer
takes the first one's place in `childInformers` and the first subscription is
never closed.

`SharedInformers` is the abstract specification of the factory, of the part that
`GetOrCreate` and `closeFn` play: the subscriptions to each resource (`open`),
and whether its informer is off, runs or has listed (`cache`).  It counts
nothing, and knows of no constructor.  `Metacontrollers` maps its subscriptions
to pairs of a controller and a place in what it wants; `ConfigServer` likewise,
where those of the constructor at hand are its configuration's, so that a
subscription stays the same when the controller is started.

### Discovery and ConfigServer

`Discovery` is `APIResourceDiscovery`: the flag that `StartIfNotAlready` tests
and sets under the lock (`started`), the two channels made after it (`closed`,
`ended`), the goroutine each client has spawned (`loop`) and the map (`known`,
with the age of what was fetched).  Its *actions* are the halves of Start and
Stop, the fetch without the lock, the replacement of the map under it, the
ticker, and the API server's resources that come and go.  Stop is not called
twice for one start, which would close a closed channel.

`ConfigServer` is the server with its configuration in files.  Its *state*
beside that of `Discovery` is the server (`server`, `signalled`), the list of
GenericControllers it loaded (`configs`), the goroutine that starts them
(`starter`: the configuration at hand, its lookups, its subscriptions, whether
the attempt has met an error), the time limit (`expired`, `indefinitely`), the
started controllers (`ctls`) and the shared informers (`informers`,
`refCount`).  Its *actions*: `Load` (files by extension, documents by kind,
duplicates, or the load function), `SkipStarted`, `LookUp`, `Subscribe`,
`Undo`, `StartController`, `EndAttempt`, `RetryStart`, `TimePasses`; `List` and
`StartWorkers`; `Signal`, `Halt`, `Release`, `Exit`.  What controllers do with
events is in `Metacontrollers` and `Attachments`.

### Trees, ApplyMerge, Selectors, Selection and Reconcile

`ApplyMerge` is `Merge` of `dynamic/apply` as a function of three contents,
with `mergeMap`, `mergeListMap`, the guess of the merge key and the rebuilt
order of lists; the records of what was applied; and what `Apply.merge`
reverts.  `Selectors` are the functions behind `RunMatch`, `Selection` and
`decoratorSelector`; an answer is "yes", "no" or "error".

`Selection` has a GenericController and a DecoratorController that are
constructed (`Construct`) with one list of resources and keep what they make of
it (`generic`, `decorated`), while the object and the watch change (`Changes`):
objects are looked at with selectors that were made before.

`Reconcile` puts both parts to work.  Its *state* is the attachment (`object`,
a whole content), what the hook of each watch wants (`wants`), which
controllers patch (`patching`), the watches in their queues (`due`) and a
history variable: `placed`, the paths each watch's syncs have put into the
object and that are there still.  Its *actions*: `Sync` of a watch (list by the
selectors, then `Create`, `Update` in place, `Delete` or `Skip`), `Resync`,
`Rethink` (a hook changes its mind) and `Edit` (a user, or the controller that
writes the status). A sync is one step on the live object: its calls one by
one, stale lists, conflicts, recreation and finalizers are in `Attachments`,
whose contents are sets of fields.  Owner references (`IsWatchOwner`) are left
out.

The properties compare the code with definitions of another shape.
`MergesPathByPath` compares what each watch's controller would write in every
reachable state, for whatever the other watch and the users have made of the
object, with `Expected`, which speaks of sets of paths.  `Converges` speaks of the
behaviours in which no controller has the patch strategy.  `SelectsAsStated` of
`Selection` compares selectors with what the API types say of each operator.

It speaks of what is well formed (`ObjectProper`, `ListProper`): requirements
with values that labels may have, keys that lead to strings or are missing, one
requirement for a key in a list of references, no kind twice in a list of
resources.  What the code does with the rest is in `Selectors` and not judged:
`sanitiseLabels` looks at the first value only, `isReferenceMatch` goes on after
an error, a key that the reference of a `References` term does not have counts
as empty there.  A decorator's selector is by group and kind, so of two versions
of one kind the last in the list is used for both; for lists without such a pair
(`OneVersionEach`) `SelectsAsStated` says that it is the kind that counts.

The contents of the instance have one kind at each path and lists without two
items of one merge key; otherwise the merge takes nil for what has another kind.

### Attachments

Its *state* is the API server (`watch`: the watched object with what its spec
and its labels select, its finalizers and its deletion; `att`: for every
attachment who made it, its content as a set of fields, the last-applied
annotations and its deletion), the caches of both (`cWatch`, `cAtt`), and for
every controller its one key (`queued`) and the sync that runs (`sync`: the
object as it was read while a PUT of it is due, the calls that are due, and
what has become of the attachments that were read for them).

Its *actions* go from one API call to the next: `Sync` and
`SyncWithFinalizer` (read the caches, `Finalizer.SyncObject`, list the
attachments, call the hook, decide everything), `UpdateWatch` (the PUT without
the finalizer, before attachments are managed), `DeleteAttachment`,
`CreateAttachment` and `UpdateAttachment` in the order of
`ClusterStatesController.Apply` (deletes, creates and updates, explicit updates,
explicit deletes), which for a decorator is that of `ManageChildren`.  Around
them: the watches and their handlers (only decorators listen to attachments),
crashes, failed hooks and calls, users who edit or delete the watched object,
drain an attachment or create objects of their own under its name, and the
garbage collector.

The hooks are tables: `Wants` by version, `Extra` for explicit updates; an
object of somebody else under a wanted name is listed in explicit deletes; the
finalize hook wants nothing and says that it is done when it observes nothing
of its own.  The merge is that of sets of fields with one last-applied
annotation per watch (generic) or one for all (decorator), so two controllers
that write one object, and what each takes back, are in the model.

What is abstracted: everything between two API calls is one step on the caches
as they are, since caches may lag arbitrarily; a resync may come at any time
(the key of a `Resyncing` controller is put back when it is taken); selectors
of attachments match all; an attachment that is created and removed unseen
delivers both events at once; the finalizers of the garbage collector
(foreground and orphaning) are in `ParentLifecycle` only.  `Options`
(`ReadOnly`, `UpdateAny`, `DeleteAny`) are modelled and empty in the instance.
The patch strategy is in `Reconcile`; `SkipReconcile` and the watch's labels,
annotations and status are left out.

## Runs

`tlc -config <run>.cfg <module>`; with two workers every run finishes within
four minutes, most within one.

| run | asks | bounds |
|---|---|---|
| `RolloutCompletes` | is everything recorded first, is every child claimed, does the latest win, is the status true, and does every rollout end, with copies of revisions as old as can be? | 2 children updated in place, 2 versions, 2 edits and 1 fault, in turn with the caches of the parent and the children (`InTurn`); revisions lag without bound |
| `RolloutFaults` | one child at a time, all as `RollingUpdate` has it, up to the first sync that goes astray: also if something fails and the set of children changes? | 3 children updated in place of which one may be scaled away, 2 edits, or 1 edit of the version and 1 fault (`EditsAndFaults`), the other two children up to symmetry; explored up to the first sync that goes astray (`NotAstray`), as nothing is promised after it |
| `Claims` | do two living parents ever act on one object, do the claims implement `Ownership` with any staleness, and does everything find its owner by watch events alone? | 2 parents with nested selectors, a child and a revision, 2 UIDs, 4 user steps |
| `MetaLife` | are removed handlers silent, does nobody lose an informer to another (`SharedInformers`), does every controller catch up with what is stored, and does stopping end? | 1 metacontroller, 2 controllers on the same 2 resources, 1 change (of a custom resource, of discovery or of an object), a shutdown at any time |
| `ConfigLife` | is there one discovery at most and does it only learn, are informers kept (`SharedInformers`) through failed attempts, does every controller that can start do so, and does a signal end it all? | 2 clients of discovery, 2 controllers that share a resource, 2 resources, 1 change and 1 failure of discovery; 4 paths (files of every kind, a duplicate, a missing slash, none), both retry modes |
| `ParentLife` | can a parent with children escape its finalize hook, is its teardown in order and complete, and does it end? | 2 children, 3 upsets (a step of a user, a fault or a restart with other hooks); one incarnation (`AlwaysCleansUp` is proved for all, and so is `TypeOK`, which the run leaves out) |
| `Attachments` | does a controller write or delete only what is its own or what it was shown, do edits and other finalizers survive its PUTs, is a finalizer kept until nothing is left, and does everything settle? | 1 watched object in 2 incarnations, a GenericController that updates in place and one attachment of the decorator explicitly, a DecoratorController that recreates; 2 attachments, 2 versions, 2 troubles (a user's edit, a fault, or the re-creation of the watched object) |
| `Reconcile` | does every merge do path by path what apply promises, can each watch take back what it put there, and do the watches come to rest? | 2 watches that share labels, a keyed list of ports and a port; 3 and 2 things to want; 6 edits; 3 edits or changes of mind; one watch may have the patch strategy |
| `Selection` | do selectors of every kind of term select what they state, of whatever the objects become? | 144 objects, 2 watches, 3 kinds (of which two are versions of one), 55 lists of resources: each operator alone, the rest of a list of terms, and two kinds |

Why the bounds are enough: two versions and two edits give every rollout that
is overtaken by another, back or forth; two rolling children are the smallest
set in which one must wait for the other, and in which an old copy of a
revision can differ from the stored one in each way that matters; with three a
plan is left to be continued after the first move.  One fault puts a crash or
an error between any two API calls.  `InTurn` keeps the run with old revisions
small: edits, resyncs and events of the parent come between two syncs; a second
edit goes back to the first spec, when all events but those of revisions have
arrived; a fault comes before any edit, or between the writes of revisions
after the first, and no edit follows it.  Events of revisions and of children
may come at any step.  (The theorems have none of these bounds.)  For claims,
two parents with selectors that overlap and differ, two UIDs (two parents, or
one and the other incarnation of it) and four user steps give an object that is
relabelled, orphaned and adopted by another, a parent that is replaced under
its name, and an object that is recreated during a sync. For a parent's life
three upsets give a hook that goes and comes back before a deletion, and a
deletion, a change of the hooks and a fault in any order (with them both ways
of `lapsed` occur), and two children the smallest ordered teardown.  For the
metacontrollers, two controllers that use the same two resources in different
roles are the smallest ones that share, start and stop at the same time (the
shutdown stops them in parallel), and one change replaces, deletes or fails a
controller, or changes what is cached, at any point of either's start;
`ConfigLife` does so for the attempts of one goroutine.  For attachments two
troubles are the smallest number that gives a deletion and a recreation, an
object that stops matching and is edited meanwhile, or an attachment that is
drained and whose name a user takes before it is deleted, each with both
controllers in the middle of a sync.  For `Reconcile` three steps of users and
hooks are what it takes to have a field applied by one watch, changed by
another or a user and then no longer wanted by the first.  What is proved holds
for all sizes.

No property assumes that a cache is current.  Where the code cannot keep a
promise on an old list, the property says so in its own terms: those of
`CompositeRollout` by the copies in question (above), `TeardownOrder` and
`LeavesNothing` of `ParentLifecycle` and `LeavesNothing` of `Attachments` by
speaking of the syncs whose list was current (`current`), for a stale list is
all a finalize hook has to go by.  What an older list missed is collected if a
decorator made it, and stays if a GenericController did, whose attachments have
no owner reference.  `LeavesNothing` of `Attachments` speaks of what a
controller made itself (`MadeBy`): the mark of ownership is the UID of the
watch, so of two GenericControllers on one watch either may take what the other
makes for its own, also while it lets go.

### What the code does not do

One run each of `CompositeRollout`, `ChildClaims` and `Reconcile` looks for a
violation of something the documentation or a comment says, and finds it.

* `CrashStopsRollout`: `syncRevisionClaims` filters the names of a claim and
  then keeps the claim unfiltered (`rolling_update.go:263`).  After a crash
  between the two writes of one move a child stays claimed twice, the older
  revision overrides the latest, and the rollout waits for ever, although the
  progress is meant to survive restarts.  With further edits two children may
  be updated at a time, and a child may go back from the latest version.  An
  old copy of a revision does the same without a crash: the write of the latest
  succeeds and that of the older conflicts.  For the same reason a child that
  was scaled away stays claimed, and `shouldContinueRolling` merges a nil object
  into it: the worker panics (`PlanPanics`, which takes three children and
  fires in `RolloutFaults`), as may every later sync.
* `RevisionAdoption`: `updateWithRetries` of the ControllerRevision claim
  manager never calls Update, so revisions are neither adopted nor released.
* `AnnotationsLost`: `mergeMap` deletes a map that was applied and is no longer
  desired as a whole (`apply.go:232`).  If a hook once returned annotations and
  then returns none, all annotations of the attachment go, with the mark of the
  watch that created it and the records of what other watches applied, which
  are meant to let them update it independently
  (`controller/common/controller.go:528`).  In `Reconcile.cfg` no watch applies
  annotations.

Beside these, what old copies break in a rolling update is listed under
`CompositeRollout`, and how a finalizer lapses under `ParentLifecycle`; the
properties there name these cases instead of excluding them by an assumption.

`StopEndsInTime` of `ConfigServer` says less than one might expect of a server
that is told to stop: `ConfigMetaController.Stop` waits for the goroutine that
starts controllers, which looks at no stop signal, so with unbounded retries
and a resource that is never installed it waits for ever, and the controllers
that were started work on.

## Fairness

Liveness is checked under weak fairness of the worker (a goroutine that loops
on a blocking queue; a failed key is added again), of every watch (a reflector
relists when it loses its connection) and, in `CompositeRollout`, of the
children's own controllers (a child that is created becomes ready, one that is
deleted goes away: without that no rolling update could end).  It is
`WF_vars(Progresses)`, of watches, collector and children together, and of each
worker alone.  The resync of `CompositeRollout`, a timer of the parent's
informer, is no part of `EventSpec`: `RolloutGoesOn` names it as a premise in
the one case that needs it, so a sync that neither writes nor requeues would
show.  Only the violation of `CrashStopsRollout` is found under `FairSpec`, with
the resync.  `ChildClaims` assumes no fairness of the
resync, so that `Settles` rests on the handlers, and does assume that the
garbage collector removes the dependents of vanished parents.
`ParentLifecycle` assumes no resync either, and that the garbage collector and
the finalizers of the children do their part; so does `Attachments`, where a
decorator's handlers must do without a resync and a GenericController, which
has none for attachments, has one.  There, too, what the environment owes is one
disjunction, and every controller's worker has a fairness of its own.
`ConfigServer` assumes that the goroutines of discovery and of the starter go
on, that time passes, and that informers and controllers do.  `Reconcile`
assumes that a watch in its queue is synced and that an empty queue is filled by
the resync; its conditions are on `due`, which every such step changes.
`Metacontrollers`
assumes strong fairness of `TakeKey` (the queue is first-in first-out, so a key
that is retried for ever does not starve another) and of `TickerStops` (Go's
`select` chooses at random among ready channels), and weak fairness of workers,
reflectors and broadcasts.  Nothing is
assumed of users and faults; both are bounded.

## Proofs

`tlapm <module>.tla` checks them; they hold for every value of the constants
that satisfies the modules' named assumptions.  Those are typings of the
constants, that `None` is none of the values it stands beside, that there are
finitely many versions, and that every list of resources names at least one.
What a theorem assumes beyond them is in its statement.

The rolling update:

* `CompositeRolloutProofs!TypeCorrect`: `Spec => []TypeOK`.  Inductive with
  `TodoIsWanted` (what is still to be applied has a wanted version).
* `CompositeRolloutProofs!CommitsBeforeActing`: `Spec =>
  []CommittedBeforeActing`. The property speaks of the moment all writes are
  done, so it is not inductive: `PlanEntitles` says of every planned sync that
  each desired rolling child's version is still to be written with a claim for
  it, or is not to be deleted and, while the copy it was read from is the
  stored object, is stored with one. `SameCopies` says that a copy which claims
  to be current is.  The base case is the core of the algorithm: every desired
  rolling child is claimed by some revision of the list after the first loop
  and after the one move (`EveryChildClaimed`), and the version it is to have
  is that of the last one claiming it (`WantIsClaimed`), which pruning keeps.
* `RolloutClaimsProofs!NeverLosesAClaim`, `StatusIsTrue` and `LatestAlwaysWins`
  (`Spec => NeverUnclaimed`, `StatusTruth`, `LatestWins`).  Their invariant
  `RolloutInv` says what revisions hold whatever copies a plan was made from:
  while a sync writes them, one whose copy can be trusted (`Trusted`) holds its
  old or its new claims (`StoredAsPlanned`); the latest is stored once it is
  written (`LatestStored`); others are kept only for what they claim
  (`OthersKept`); a child with the latest content is to have the latest version
  unless two copies claimed it (`NoOpsAreLatest`); and a copy that is "same" is
  what is stored, so what a sync writes over is what it saw (`SameIsCurrent`).
  Up to the first sync that goes astray, moreover, no two revisions claim one
  child, by the plan while there is one and in the store otherwise
  (`ClaimsDisjoint`), and every child that is there and always asked for is
  claimed (`StaysClaimed`).
* `RolloutClaimsProofs!UpdatesOneAtATime`: `Spec => []OneAtATime`, without an
  assumption on caches: `OneInv` is kept by every step up to the one that sets
  `astray` (`OneUpToAstray`), and nothing is left to show after it.  A child
  that is being updated is not healthy (`HealthTells`, of kinds that report
  their generation), so the sync that would move another waits for it; that
  reaches from the list to the writes because only the sync itself updates
  children (`SeenAsIs`, `TodoDiffers`).  What is at most one is wider than the
  property: a child keeps a version busy from the claim that entitles it on,
  before it is updated, and when it has the content without a claim (`Busy`,
  `OneBusyEach`).
* `RolloutClaimsProofs!ImplementsRollingUpdate`: `Spec => RollsOneByOne`, the
  refinement of `RollingUpdate`, to the same effect. To `OneInv` its invariant
  `RollInv` adds that a child which is being updated and is to stay holds what
  it is updated to (`UpdatedHold`, so that turning healthy is `Settle`), and
  that a sync deletes only what is not asked for (`DeletesUnwanted`).  As no
  two revisions claim one child, a child's owner is the one that claims it
  (`OwnersTell`), and only a decision changes it (`SameOwners`).  What a
  decision does is where syncRollingUpdate is read closely: the first loop
  gives the latest revision exactly what `RollingUpdate` gives and what it had
  (`FirstPassGives`), each other child stays where it was (`DecidedOwners`),
  and if one more moves, `shouldContinueRolling` has seen all of the first
  loop's settled (`OthersSettled`).

The claims, and a parent's life:

* `ChildClaimsProofs!TypeCorrect`, and `ImplementsOwnership`:
  `Spec => OwnershipHolds`, the refinement of `Ownership`.  It rests on
  `GotIsCurrent`: the object a claim manager read with its GET is still stored
  as read while its copy is "same", so an accepted PUT starts from the owner it
  saw.
* `ChildClaimsProofs!NeverShared`, `TouchesOnlyListed` and `AdoptsForTheLiving`
  (`ExclusiveClaims`, `TouchesWhatItListed`, `DoomedNeverAdopts`), for any
  number of parents and incarnations, from one invariant `SafeInv`: no two names
  ever share a UID (`UidsApart`); a sync works on what it listed and adopts only
  what a live read of its parent allowed (`SyncsHeed`); a doomed parent stays
  doomed (`DoomedForGood`); and what was claimed from a current list is
  controlled by the parent while both live (`ClaimsHold`), because no other
  controller may take it and only an orphan can be adopted.
* `ParentLifecycleProofs!TypeCorrect`, and `AlwaysCleansUp`: `Spec =>
  CleansUp`.  The inductive invariant has three parts beside the types:
  `SyncMayAct` (past its first step a sync has the finalizer, has a parent that
  is being deleted, or one that is cleaned or has lapsed), `FinalizerHeld`
  (while there is a hook, an incarnation that is owed a finalize hook and has
  not lapsed has the finalizer where it is stored, and copies of it that are
  used speak the truth when they have it, `HoldsOn`), and `OwedToOld` (nothing
  is owed without a hook, or to an incarnation yet to be created).
* `ParentLifecycleProofs!TearsDownInOrder` and `LeavesNoChild`
  (`TeardownOrder`, `LeavesNothing`), from `OrderInv`: a sync that listed the
  children as they were and was told "finalized" has none (`FinalizedSawNone`),
  and what it has left to delete comes after all there are (`DeletesLast`).
  Both last until the sync ends, as nobody but a sync creates children.

Controllers and what they share:

* `MetacontrollersProofs!TypeCorrect`, `SubscriptionsCounted` and
  `RemovedIsSilent` (`TypeOK`, `CountsSubscriptions`, `SilentOnceRemoved`), from
  one invariant `MetaInv`; none of them is inductive alone.  A step on an
  informer makes sense while it runs, it runs because its subscriptions are
  counted (`AllCounted`), and they are counted right because a controller
  subscribes to what it wants in order and closes what it has (`AllInOrder`).
  The handlers' lock is exclusive (`Locked`).
* `MetacontrollersProofs!ImplementsInformers` and
  `ConfigServerProofs!ImplementsInformers`: `Spec => KeepsInformers`, the
  refinement of `SharedInformers`.  That an informer is stopped with its last
  subscription, which the code decides by a count, is where the counts of
  `MetaInv` and `SubsInv` come in (`RunsIfHeld`); that a subscription is made
  only once rests on the order in which constructors subscribe.  The start of a
  controller passes its constructor's subscriptions on and is a stuttering step
  (`PassesOn`).
* `ConfigServerProofs!AlwaysOneLoop` and `NeverForgets`: `Spec => []OneLoop`
  and `Spec => NeverOlder`, for any number of clients, controllers, changes and
  failures.  A step of the server is one of `Discovery` or leaves it alone
  (`StepsOfDiscovery`); of discovery the inductive invariant has `OneCaller`
  (whoever holds the flag or the right to stop holds it alone, since the closed
  channel keeps others from stopping), `NoneLeft` (no goroutine is there when
  one is spawned or has ended) and `FetchedNewer` (an answer at hand is no
  older than what is known, which holds because only one goroutine replaces it).
* `ConfigServerProofs!TypeCorrect`, `SubscriptionsCounted` and `ExitsInOrder`
  (`TypeOK`, `CountsSubscriptions`, `ExitsClean`), from `SubsInv`: the
  subscriptions of the attempt at hand are the first of what its controller
  wants, and it has some only while it works (`ConstructorOK`); a controller
  that is not running has none (`ControllersOK`); what is counted is the sum of
  both.  That the list of loaded configurations is one of configurations is an
  induction over the files and their documents (`FlattenType`).
* `AttachmentsProofs!TypeCorrect`, `OthersAreKept`, `EditsAreKept` and
  `LeavesNoAttachment` (`TypeOK`, `KeepsOthers`, `EditsSurvive`,
  `LeavesNothing`), from one invariant `AttInv`, for any number of generic and
  decorator controllers.  A copy of the
  watched object that claims to be current is, in the cache and in a PUT that is
  due (`CacheCurrent`, `PutCurrent`), so an accepted PUT takes one finalizer off
  the object that is stored.  An attachment that was listed and is not gone has
  the owner it had (`CacheOwner`), every call but a create is about one that was
  listed (`CallsListed`), and what is deleted or updated as desired is one's own
  (`CallsOwn`): that is of the incarnation that was seen, so a name that others
  take over meanwhile is safe.  Between a list that found nothing and the PUT,
  nothing that is its own is made (`NothingLeft`), since who would make it is
  this controller.

Selectors:

* `SelectionProofs!SelectsWhatIsStated`: `Spec => []SelectsAsStated`, for any
  objects and any lists of resources, of any length and with any number of
  terms and requirements.  Each kind of requirement is compared with its
  reading: labels and annotations (`LabelsAgree`), fields with their sanitised
  values (`FieldsAgree`), lists, where `Equals` compares lengths and one
  inclusion and the reading sets, which is a matter of cardinalities
  (`SlicesAgree`, `SameValues`), and references, whose requirements on one key
  override each other (`ReferencesAgree`).  A term is the conjunction of its
  requirements (`TermAgrees`), a list of terms the first that says yes, which
  is some that holds (`RunAgrees`).  A selector per kind is made of the one
  resource of that kind (`GenericSelectors`, `DecoratorSelectors`); that a
  controller has those of the list it was constructed with is the invariant
  (`SelectInv`). `SelectionAssumption` says that a value whose slashes are
  replaced is one labels may have, and so is the code's word for a missing one.

Each inductive invariant was checked by TLC on the instance of its runs before
it was proved.

The provers do not take the library's rules of induction over data, whose
parameter is an operator.  Where an induction was needed, it is stated of a set
of numbers: the rule itself in `ConfigServerProofs` (`SetInduction`), proved
from the well-foundedness of strict inclusion among finite sets, and in
`SelectionProofs` that some number of a set is the least (`MinIn`), for what is
the first answer of a list.

Only model-checked: everything under fairness (`RolloutGoesOn`,
`Settles`, `Dies`, `CatchesUp`, `StopEnds`, `EveryConfigStarts`,
`StopEndsInTime`, `Converges`), since the prover does not do fairness or
ENABLED; and everything of `Reconcile` (`TypeOK`, `MergesPathByPath`,
`CanTakeBack`), as `ApplyMerge` and `Reconcile` recurse over contents: what
merges do at every depth is an induction over data.  Every other property of a
passing run is a theorem.

## Plan

What could come next, in this order:

1. Proofs: the abstract state of `Ownership` extended by who acts, so that
   `ExclusiveClaims` is part of the refinement; what the merge does to a flat
   map, with the fields of `Reconcile` bounded to one level.
2. `Attachments` extended by the labels, annotations and status of the watched
   object, `SkipReconcile`, and an instance with two GenericControllers on one
   watch, for which `LeavesNothing` is proved but nothing else is run.
3. An abstract specification of the handlers of an informer and what they are
   called for, beside `SharedInformers`.

## Not modelled

Webhooks, inline hooks' functions and other I/O; flags, logging and HTTP
endpoints of the process; generated code and data types; the test framework,
examples and manifests.  Of components that are modelled in part: several
workers of one controller (the work queue gives a key to one at a time, and
keys are independent but for what they share in the API server), rate limits,
the delayed resync a hook may ask for, orphaning deletion, and the status,
labels and annotations of watched objects.
