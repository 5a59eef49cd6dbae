------------------------------ MODULE Attachments ------------------------------
(***************************************************************************)
(* One watched object and the controllers that attach others to it:        *)
(* GenericControllers, which may read and write attachments of anybody,    *)
(* and DecoratorControllers, which know theirs by owner and name.  They    *)
(* share the object, the attachments' names and the informers.             *)
(*                                                                         *)
(* The hooks are tables: what a sync hook wants at each version of the     *)
(* object.  Where a name it wants is held by an object of somebody else,   *)
(* a GenericController's hook lists that one in explicitDeletes.  The      *)
(* finalize hook wants nothing and is done once it observes none of its    *)
(* controller's attachments.                                               *)
(***************************************************************************)
EXTENDS Naturals

CONSTANTS
  Job,        \* the controllers, with one key each: the watched object's
  Decorators, \* those that are DecoratorControllers
  Name,       \* attachments
  Field,      \* what an attachment may contain: paths with their values
  Version,    \* specs of the watched object
  Wants,      \* Wants[j][v][n]: the fields a sync hook wants, or None
  Extra,      \* Extra[j][n]: explicitUpdates of a sync hook, or None
  Method,     \* update strategy
  Options,    \* options of a GenericController
  Finalizes,  \* those with a finalize hook
  Resyncing,  \* those whose informer or hook asks for resyncs
  Foreign,    \* names under which users create objects of their own
  First,      \* bound: the version with which it is created
  MaxUid,     \* bound: incarnations of the watched object
  MaxTrouble, \* bound: steps of users after its creation, crashes, failed calls
  None

Uid == 1..MaxUid
Maybe(S) == {None} \union S

Watches == [uid : Uid, ver : Version, matches : BOOLEAN, fins : SUBSET Job,
            deleting : BOOLEAN]

(* by: created-due-to-watch of a GenericController, or the owner reference  *)
(* and the annotation of a decorator; last: the last-applied annotations,   *)
(* one for each watch of GenericControllers, and the common one.            *)
Objects == [by : Maybe([job : Job, uid : Uid]), fields : SUBSET Field,
            last : [Maybe(Uid) -> SUBSET Field], deleting : BOOLEAN]

(* A copy, and whether what it was read from has been written or removed.   *)
WatchCopies == [obj : Watches, lag : {"same", "changed"}]
Copies == [obj : Objects, lag : {"same", "changed", "gone"}]

(* The calls of ClusterStatesController.Apply: deletes, creates and updates, *)
(* explicit updates and explicit deletes, in this order; the fields wanted. *)
Phase == 1..4
Calls == Phase \X Name \X Maybe(SUBSET Field)

(* A sync that is at a call of the API server: the object it is about, the  *)
(* PUT of that object if it is due, the calls due after it, and what became *)
(* of the attachments that were read for them.                              *)
Syncs == [uid : Uid, put : Maybe(WatchCopies), todo : SUBSET Calls,
          saw : [Name -> Maybe([lag : {"same", "changed", "gone"}])],
          current : BOOLEAN, failed : BOOLEAN]

ASSUME AttachmentsAssumption ==
  /\ Job # {} /\ Decorators \subseteq Job /\ Finalizes \subseteq Job
  /\ Wants \in [Job -> [Version -> [Name -> Maybe(SUBSET Field)]]]
  /\ Extra \in [Job -> [Name -> Maybe(SUBSET Field)]]
  /\ Method \in [Job -> {"OnDelete", "InPlace", "Recreate"}]
  /\ Options \in [Job -> SUBSET {"UpdateAny", "DeleteAny", "ReadOnly"}]
  /\ \A j \in Decorators : Options[j] = {} /\ \A n \in Name : Extra[j][n] = None
  /\ Resyncing \subseteq Job /\ Foreign \subseteq Name /\ First \in Version
  /\ MaxUid \in Nat /\ MaxTrouble \in Nat
  /\ None \notin Uid /\ \A s \in SUBSET Field : s # None
  /\ None \notin [obj : Maybe(Watches), lag : {"same", "changed"}]
  /\ None \notin [job : Job, uid : Uid] /\ None \notin [lag : {"same", "changed", "gone"}]
  /\ None \notin Watches /\ None \notin Objects /\ None \notin Copies /\ None \notin Syncs

VARIABLES
  watch, att,     \* API server
  cWatch, cAtt,   \* informer caches
  queued,         \* whether a controller's queue has the key
  sync,           \* the sync each controller runs; "current" is for properties
  nextUid, edits, faults

store  == <<watch, att>>
caches == <<cWatch, cAtt>>
bounds == <<nextUid, edits, faults>>
vars   == <<store, caches, queued, sync, bounds>>

Init ==
  /\ watch = None
  /\ att = [n \in Name |-> None]
  /\ cWatch = [obj |-> None, lag |-> "same"]
  /\ cAtt = [n \in Name |-> None]
  /\ queued = [j \in Job |-> j \in Resyncing]
  /\ sync = [j \in Job |-> None]
  /\ nextUid = 1 /\ edits = 0 /\ faults = 0

-----------------------------------------------------------------------------
(* Writes: every copy of what is written ages, in caches and in syncs. *)
Stored(object) == IF object.deleting /\ object.fins = {} THEN None ELSE object

Age(copy, lag) ==
  IF copy = None \/ copy.lag = "gone" THEN copy ELSE [copy EXCEPT !.lag = lag]

AgedByWatch(object) ==
  IF object = watch THEN sync
  ELSE [k \in Job |-> IF sync[k] = None THEN None
                      ELSE [sync[k] EXCEPT !.put = Age(@, "changed")]]

WriteWatch(object) ==
  /\ watch' = object
  /\ cWatch' = IF object = watch THEN cWatch ELSE Age(cWatch, "changed")

Copy(object) == IF object = None THEN None ELSE [obj |-> object, lag |-> "same"]

Aged(copies, n, object) ==
  IF object = att[n] THEN copies
  ELSE [copies EXCEPT ![n] = Age(@, IF object = None THEN "gone" ELSE "changed")]

AgedByAtt(n, object) ==
  [k \in Job |-> IF sync[k] = None THEN None
                 ELSE [sync[k] EXCEPT !.saw = Aged(@, n, object)]]

WriteAtt(n, object) ==
  /\ att' = [att EXCEPT ![n] = object]
  /\ cAtt' = Aged(cAtt, n, object)

-----------------------------------------------------------------------------
(* What a controller makes of what it reads. *)

(* enqueueWatch and enqueueParentObject, and the guard of every sync. *)
Cares(j, object) == object.matches \/ j \in object.fins

(* An attachment is a controller's own: the UID in created-due-to-watch, or *)
(* the controller reference and the decorator's annotation.                 *)
Mine(j, me, object) ==
  /\ object.by # None
  /\ object.by.uid = me.uid
  /\ IF j \in Decorators THEN object.by.job = j ELSE object.by.job \notin Decorators

(* getObservedAttachments lists what its selectors match, which is all here, *)
(* and getChildren what is its own.  The mutant leaves out what is pending  *)
(* deletion.                                                                *)
ObservedLiving(j, me) ==
  {n \in Name : /\ cAtt[n] # None /\ ~cAtt[n].obj.deleting
                /\ j \in Decorators => Mine(j, me, cAtt[n].obj)}

Observed(j, me) ==
  {n \in Name : cAtt[n] # None /\ (j \in Decorators => Mine(j, me, cAtt[n].obj))}

(* callSyncHook: the finalize hook is also called when the object no longer *)
(* matches.                                                                 *)
Finalizing(j, me) == j \in Finalizes /\ (me.deleting \/ ~me.matches)

(* What the hooks answer. *)
Nothing == [n \in Name |-> None]

Desired(j, me) == IF Finalizing(j, me) THEN Nothing ELSE Wants[j][me.ver]

ExplicitUpdates(j, me) == IF Finalizing(j, me) THEN Nothing ELSE Extra[j]

ExplicitDeletes(j, me) ==
  {n \in Observed(j, me) : Desired(j, me)[n] # None /\ ~Mine(j, me, cAtt[n].obj)}

SaysFinalized(j, me) ==
  /\ Finalizing(j, me)
  /\ \A n \in Observed(j, me) : ~Mine(j, me, cAtt[n].obj)

(* ShouldFinalize and isReconcileAttachments, whose third condition does not *)
(* need the finalizer.                                                      *)
Manages(j, me) ==
  /\ "ReadOnly" \notin Options[j]
  /\ \/ ~me.deleting
     \/ j \in me.fins /\ j \in Finalizes
     \/ j \notin Decorators /\ Finalizing(j, me) /\ ~SaysFinalized(j, me)

-----------------------------------------------------------------------------
(* The three-way merge.  Composite and decorator controllers keep what they *)
(* last applied under one annotation, GenericControllers under one for each *)
(* watch.  The mutant does not remove what is no longer wanted.             *)
Key(j, me) == IF j \in Decorators THEN None ELSE me.uid

MergedOver(j, me, object, want) == object.fields \union want

Merged(j, me, object, want) ==
  (object.fields \ (object.last[Key(j, me)] \ want)) \union want

Updated(j, me, object, want) ==
  [object EXCEPT !.fields = Merged(j, me, object, want), !.last[Key(j, me)] = want]

Created(j, me, want) ==
  [by |-> [job |-> j, uid |-> me.uid], fields |-> want, deleting |-> FALSE,
   last |-> [k \in Maybe(Uid) |-> IF k = Key(j, me) THEN want ELSE {}]]

(* updateChildren compares the annotation too, update only the merge. *)
Differs(j, me, object, want) ==
  \/ Merged(j, me, object, want) # object.fields
  \/ j \in Decorators /\ object.last[None] # want

(* update and updateChildren: whether the object is written at all. *)
Updates(j, me, object, want, any) ==
  /\ object.deleting => j \notin Decorators /\ Finalizing(j, me)
  /\ any \/ Mine(j, me, object)
  /\ Method[j] # "OnDelete"
  /\ Differs(j, me, object, want)

(* Delete and deleteChildren. *)
Deletes(j, me, n) ==
  /\ Desired(j, me)[n] = None
  /\ ~cAtt[n].obj.deleting
  /\ Mine(j, me, cAtt[n].obj) \/ "DeleteAny" \in Options[j]

(* CreateOrUpdate and updateChildren.  The mutant creates what is not       *)
(* observed, wanted or not.                                                 *)
PutsUnseen(j, me, n) ==
  LET want == Desired(j, me)[n]
  IN n \in Observed(j, me) =>
       /\ want # None
       /\ Updates(j, me, cAtt[n].obj, want, "UpdateAny" \in Options[j])

Puts(j, me, n) ==
  LET want == Desired(j, me)[n]
  IN /\ want # None
     /\ n \in Observed(j, me) =>
          Updates(j, me, cAtt[n].obj, want, "UpdateAny" \in Options[j])

(* ExplicitUpdate, with update's UpdateAny set. *)
PutsExplicitly(j, me, n) ==
  LET want == ExplicitUpdates(j, me)[n]
  IN want # None /\ Updates(j, me, cAtt[n].obj, want, TRUE)

Plan(j, me) ==
  LET seen == Observed(j, me)
  IN IF ~Manages(j, me) THEN {}
     ELSE {<<1, n, None>> : n \in {m \in seen : Deletes(j, me, m)}}
          \union {<<2, n, Desired(j, me)[n]>> : n \in {m \in Name : Puts(j, me, m)}}
          \union {<<3, n, ExplicitUpdates(j, me)[n]>> :
                    n \in {m \in seen : PutsExplicitly(j, me, m)}}
          \union {<<4, n, None>> :
                    n \in {m \in ExplicitDeletes(j, me) : ~cAtt[m].obj.deleting}}

-----------------------------------------------------------------------------
(* One sync, from a call of the API server to the next: between two calls   *)
(* it reads caches, which may lag just as much as a step of its own would.  *)
Needs(todo, n) == \E c \in todo : c[2] = n

(* What is left to do once the hook has answered. *)
Planned(j, copy, todo) ==
  LET me   == copy.obj
      done == SaysFinalized(j, me) /\ j \in me.fins
  IN [uid |-> me.uid, put |-> IF done THEN copy ELSE None, todo |-> todo,
      saw |-> [n \in Name |->
                 IF n \in Observed(j, me) /\ Needs(todo, n)
                 THEN [lag |-> cAtt[n].lag] ELSE None],
      current |-> done /\ cAtt = [n \in Name |-> Copy(att[n])], failed |-> FALSE]

(* To the next call or, with none left, to the end, where processNextWorkItem *)
(* puts the key back after an error.                                        *)
Proceed(j, syncs, next, keys) ==
  \E s \in {next} :
    LET ends == s.put = None /\ s.todo = {}
    IN /\ sync' = [syncs EXCEPT ![j] = IF ends THEN None ELSE s]
       /\ queued' = [keys EXCEPT ![j] = @ \/ (ends /\ s.failed)]

Requeue(j) ==
  /\ queued' = [queued EXCEPT ![j] = TRUE]
  /\ sync' = [sync EXCEPT ![j] = None]

(* A resync may come as early as this. *)
Taken(j) == [queued EXCEPT ![j] = j \in Resyncing]

(* The set of one plan has TLC compute it once. *)
Begin(j, syncs, copy) ==
  \E todo \in {Plan(j, copy.obj)} : Proceed(j, syncs, Planned(j, copy, todo), Taken(j))

MaySync(j) ==
  /\ sync[j] = None /\ queued[j]
  /\ cWatch.obj # None /\ Cares(j, cWatch.obj)

SkipSync(j) ==
  /\ sync[j] = None /\ queued[j] /\ ~MaySync(j)
  /\ queued' = Taken(j)
  /\ UNCHANGED <<store, caches, sync, bounds>>

(* Finalizer.SyncObject has nothing to do by the copy. *)
InRightState(j, me) == j \in Finalizes => j \in me.fins \/ me.deleting

Sync(j) ==
  /\ MaySync(j) /\ InRightState(j, cWatch.obj)
  /\ UNCHANGED <<store, caches, bounds>>
  /\ Begin(j, sync, cWatch)

(* AddFinalizer: the object is the one that was read, and is not given a    *)
(* finalizer while it is pending deletion; else the key is put back.        *)
AddsFinalizer(j) ==
  /\ MaySync(j) /\ ~InRightState(j, cWatch.obj)
  /\ watch # None /\ watch.uid = cWatch.obj.uid
  /\ watch.deleting => j \in watch.fins
  /\ WriteWatch([watch EXCEPT !.fins = @ \union {j}])

SyncWithFinalizer(j) ==
  /\ AddsFinalizer(j)
  /\ UNCHANGED <<att, cAtt, bounds>>
  /\ Begin(j, AgedByWatch(watch'), Copy(watch'))

(* The PUT of the whole object without the finalizer, before attachments    *)
(* are managed.  The mutant forgets that another version may be stored.     *)
Stale(me) == watch # None /\ watch.uid = me.obj.uid

Fresh(me) == me.lag = "same"

UpdateWatch(j) ==
  /\ sync[j] # None /\ sync[j].put # None
  /\ LET me  == sync[j].put
         new == Stored([me.obj EXCEPT !.fins = @ \ {j}])
     IN IF Fresh(me)
        THEN /\ WriteWatch(new)
             /\ Proceed(j, AgedByWatch(new), [sync[j] EXCEPT !.put = None, !.current = FALSE],
                        queued)
        ELSE Requeue(j) /\ UNCHANGED <<watch, cWatch>>
  /\ UNCHANGED <<att, cAtt, bounds>>

(* Whose turn it is in Apply and in ManageChildren. *)
Due(j) ==
  IF sync[j] = None \/ sync[j].put # None THEN {}
  ELSE {c \in sync[j].todo : \A e \in sync[j].todo : c[1] <= e[1]}

After(s, c, isError) ==
  LET rest == s.todo \ {c}
  IN [s EXCEPT !.todo = rest, !.failed = @ \/ isError,
               !.saw[c[2]] = IF Needs(rest, c[2]) THEN @ ELSE None]

Writes(j, c, object) ==
  LET syncs == AgedByAtt(c[2], object)
  IN WriteAtt(c[2], object) /\ Proceed(j, syncs, After(syncs[j], c, FALSE), queued)

Errs(j, c, isError) ==
  /\ Proceed(j, sync, After(sync[j], c, isError), queued)
  /\ UNCHANGED <<att, cAtt>>

(* The precondition of a delete is the UID of what was listed; the mutant   *)
(* deletes by name.                                                         *)
DeletesByName(j, n) == att[n] # None

CanDelete(j, n) == att[n] # None /\ sync[j].saw[n].lag # "gone"

(* GenericControllers ignore that an attachment is not found. *)
DeleteAttachment(j, c) ==
  LET n == c[2]
  IN /\ c[1] \in {1, 4}
     /\ IF CanDelete(j, n) THEN Writes(j, c, [att[n] EXCEPT !.deleting = TRUE])
        ELSE Errs(j, c, att[n] # None \/ j \in Decorators)
     /\ UNCHANGED <<watch, cWatch, bounds>>

CreateAttachment(j, c) ==
  /\ c[1] = 2 /\ sync[j].saw[c[2]] = None
  /\ IF att[c[2]] = None THEN Writes(j, c, Created(j, sync[j], c[3])) ELSE Errs(j, c, TRUE)
  /\ UNCHANGED <<watch, cWatch, bounds>>

(* In place, with the version that was read, or by a delete. *)
UpdateAttachment(j, c) ==
  LET n == c[2]
  IN /\ c[1] \in {2, 3} /\ sync[j].saw[n] # None
     /\ \/ /\ Method[j] = "InPlace" /\ sync[j].saw[n].lag = "same"
           /\ Writes(j, c, Updated(j, sync[j], att[n], c[3]))
        \/ /\ Method[j] = "Recreate" /\ CanDelete(j, n)
           /\ Writes(j, c, [att[n] EXCEPT !.deleting = TRUE])
        \/ /\ Method[j] = "InPlace" => sync[j].saw[n].lag # "same"
           /\ Method[j] = "Recreate" => ~CanDelete(j, n)
           /\ Errs(j, c, TRUE)
     /\ UNCHANGED <<watch, cWatch, bounds>>

-----------------------------------------------------------------------------
(* Watch events and their handlers. *)
Wakes(js) == queued' = [j \in Job |-> queued[j] \/ j \in js]

WatchEvent ==
  /\ cWatch.lag = "changed"
  /\ cWatch' = [obj |-> watch, lag |-> "same"]
  /\ LET event == IF watch = None THEN cWatch.obj ELSE watch
     IN Wakes({j \in Job : event # None /\ Cares(j, event)})
  /\ UNCHANGED <<store, cAtt, sync, bounds>>

(* onChildAdd, onChildUpdate, onChildDelete and resolveControllerRef: every *)
(* decorator that cares about the owner is woken.  GenericControllers have  *)
(* no handlers for attachments.  The mutant has none at all.                *)
WokenByNone(object) == {}

Woken(object) ==
  {j \in Decorators :
     /\ object.by # None /\ object.by.job \in Decorators
     /\ cWatch.obj # None /\ cWatch.obj.uid = object.by.uid
     /\ Cares(j, cWatch.obj)}

AttachmentEvent(n) ==
  LET old == cAtt[n]
      new == IF old # None /\ old.lag = "gone" THEN None ELSE Copy(att[n])
  IN /\ old # new
     /\ cAtt' = [cAtt EXCEPT ![n] = new]
     /\ Wakes(Woken((IF new = None THEN old ELSE new).obj))
     /\ UNCHANGED <<store, cWatch, sync, bounds>>

-----------------------------------------------------------------------------
(* Faults. *)
Fault == edits + faults < MaxTrouble /\ faults' = faults + 1

Crash ==
  /\ Fault
  /\ cWatch' = [obj |-> watch, lag |-> "same"]
  /\ cAtt' = [n \in Name |-> Copy(att[n])]
  /\ queued' = [j \in Job |-> j \in Resyncing \/ (watch # None /\ Cares(j, watch))]
  /\ sync' = [j \in Job |-> None]
  /\ UNCHANGED <<store, nextUid, edits>>

(* A hook that fails when the finalizer has been added. *)
HookFails(j) ==
  /\ Fault
  /\ AddsFinalizer(j)
  /\ sync' = AgedByWatch(watch')
  /\ UNCHANGED <<att, cAtt, queued, nextUid, edits>>

UpdateFails(j) ==
  /\ Fault
  /\ sync[j] # None /\ sync[j].put # None
  /\ Requeue(j)
  /\ UNCHANGED <<store, caches, nextUid, edits>>

CallFails(j, c) ==
  /\ Fault
  /\ Errs(j, c, TRUE)
  /\ UNCHANGED <<watch, cWatch, nextUid, edits>>

-----------------------------------------------------------------------------
(* Users, the garbage collector, and whoever finishes deletions. *)
Edit == edits + faults < MaxTrouble /\ edits' = edits + 1

CreateWatch ==
  /\ watch = None /\ nextUid \in Uid
  /\ IF nextUid = 1 THEN UNCHANGED edits ELSE Edit
  /\ WriteWatch([uid |-> nextUid, ver |-> First, matches |-> TRUE, fins |-> {},
                 deleting |-> FALSE])
  /\ nextUid' = nextUid + 1
  /\ UNCHANGED <<att, cAtt, queued, sync, faults>>

(* An edit of the spec, of what the selector looks at, or a delete. *)
ChangedBy(v, m, gone) ==
  Stored([watch EXCEPT !.ver = v, !.matches = m, !.deleting = @ \/ gone])

WatchBecomes(object) ==
  /\ WriteWatch(object)
  /\ sync' = AgedByWatch(object)

EditWatch ==
  /\ Edit
  /\ watch # None
  /\ \/ \E v \in Version \ {watch.ver} : WatchBecomes(ChangedBy(v, watch.matches, FALSE))
     \/ WatchBecomes(ChangedBy(watch.ver, ~watch.matches, FALSE))
     \/ ~watch.deleting /\ WatchBecomes(ChangedBy(watch.ver, watch.matches, TRUE))
  /\ UNCHANGED <<att, cAtt, queued, nextUid, faults>>

AttBecomes(n, object) ==
  /\ WriteAtt(n, object)
  /\ sync' = AgedByAtt(n, object)
  /\ UNCHANGED <<watch, cWatch>>

CreateForeign(n) ==
  /\ Edit
  /\ n \in Foreign /\ att[n] = None
  /\ AttBecomes(n, [by |-> None, fields |-> {}, deleting |-> FALSE,
                    last |-> [k \in Maybe(Uid) |-> {}]])
  /\ UNCHANGED <<queued, nextUid, faults>>

Drain(n) ==
  /\ Edit
  /\ att[n] # None /\ ~att[n].deleting
  /\ AttBecomes(n, [att[n] EXCEPT !.deleting = TRUE])
  /\ UNCHANGED <<queued, nextUid, faults>>

(* Only decorators' attachments refer to the watch as their owner. *)
Collect(n) ==
  /\ att[n] # None /\ ~att[n].deleting
  /\ att[n].by # None /\ att[n].by.job \in Decorators
  /\ watch # None => watch.uid # att[n].by.uid
  /\ AttBecomes(n, [att[n] EXCEPT !.deleting = TRUE])
  /\ UNCHANGED <<queued, bounds>>

(* What the cache has not seen is added to it and deleted from it now: that *)
(* could happen later, but no event may be lost.                            *)
RemoveAttachment(n) ==
  /\ att[n] # None /\ att[n].deleting
  /\ AttBecomes(n, None)
  /\ Wakes(IF cAtt[n] = None \/ cAtt[n].lag = "gone" THEN Woken(att[n]) ELSE {})
  /\ UNCHANGED bounds

-----------------------------------------------------------------------------
Manage(j) ==
  \E c \in Due(j) : DeleteAttachment(j, c) \/ CreateAttachment(j, c) \/ UpdateAttachment(j, c)

Worker(j) ==
  SkipSync(j) \/ Sync(j) \/ SyncWithFinalizer(j) \/ UpdateWatch(j) \/ Manage(j)

Faults ==
  Crash \/ \E j \in Job : HookFails(j) \/ UpdateFails(j) \/ \E c \in Due(j) : CallFails(j, c)

Environment ==
  \/ CreateWatch \/ EditWatch
  \/ \E n \in Name : CreateForeign(n) \/ Drain(n) \/ Collect(n) \/ RemoveAttachment(n)

Next ==
  \/ WatchEvent \/ \E n \in Name : AttachmentEvent(n)
  \/ \E j \in Job : Worker(j)
  \/ Faults \/ Environment

Spec == Init /\ [][Next]_vars

(* Workers go on, and so do the watches, the garbage collector and whoever  *)
(* finishes deletions taken together: no more is needed.                    *)
Progresses(n) == AttachmentEvent(n) \/ Collect(n) \/ RemoveAttachment(n)

Fairness ==
  /\ WF_vars(WatchEvent \/ \E n \in Name : Progresses(n))
  /\ \A j \in Job : WF_vars(Worker(j))

FairSpec == Spec /\ Fairness

-----------------------------------------------------------------------------
(* Every variable has its type, and every call of a plan what it sends. *)
TypeOK ==
  /\ watch \in Maybe(Watches)
  /\ att \in [Name -> Maybe(Objects)]
  /\ cWatch \in [obj : Maybe(Watches), lag : {"same", "changed"}]
  /\ cAtt \in [Name -> Maybe(Copies)]
  /\ queued \in [Job -> BOOLEAN]
  /\ sync \in [Job -> Maybe(Syncs)]
  /\ \A j \in Job : sync[j] # None =>
       \A c \in sync[j].todo : c[3] # None <=> c[1] \in {2, 3}
  /\ nextUid \in 1..(MaxUid + 1)
  /\ edits \in Nat /\ faults \in Nat /\ edits + faults <= MaxTrouble

(* A controller that is not granted any attachment writes and deletes those *)
(* of its own watch only, and the very ones that its hook was shown and     *)
(* listed explicitly: whoever took their name meanwhile is left alone.      *)
Issues(j, c) == c \in Due(j) /\ (sync'[j] = None \/ c \notin sync'[j].todo)

KeepsOthers ==
  [][ \A j \in Job : \A c \in Due(j) :
        Options[j] = {} /\ Issues(j, c)
        => LET n == c[2]
           IN \/ att[n] = None \/ att'[n] = att[n]
              \/ Mine(j, sync[j], att[n])
              \/ c[1] \in {3, 4} /\ sync[j].saw[n].lag # "gone" ]_vars

(* No step of a controller takes an edit of the watched object back, or the *)
(* finalizer of another controller: two of them PUT the whole object.       *)
Edited(object) == <<object.ver, object.matches, object.deleting>>

EditsSurvive ==
  [][ watch # None /\ watch' # None /\ edits' = edits
        => /\ Edited(watch') = Edited(watch)
           /\ \E j \in Job : watch'.fins \ {j} = watch.fins \ {j} ]_vars

(* A controller that has listed the attachments as they were lets go of the *)
(* watched object only when all that it made for it is gone, although it    *)
(* asks no more.  Another GenericController of the same watch, with which   *)
(* it shares the mark of ownership, may be making more.                     *)
MadeBy(j, me, object) == object.by = [job |-> j, uid |-> me.uid]

LeavesNothing ==
  [][ \A j \in Job :
        /\ sync[j] # None /\ sync[j].current /\ watch # None /\ j \in watch.fins
        /\ watch' = None \/ j \notin watch'.fins
        => \A n \in Name : att[n] # None => ~MadeBy(j, watch, att[n]) ]_vars

(* Once nobody edits, an object that matches has what its controllers want  *)
(* and no more: theirs made from their last wishes, with what others update *)
(* explicitly; one that does not is let go, and one being deleted is gone.  *)
Extras(n) == UNION {Extra[k][n] : k \in {k \in Job : Extra[k][n] # None}}

Has(j, n) ==
  LET want == Wants[j][watch.ver][n]
  IN IF want = None THEN att[n] # None => ~Mine(j, watch, att[n])
     ELSE /\ att[n] # None /\ ~att[n].deleting
          /\ Mine(j, watch, att[n])
          /\ att[n].fields = want \union Extras(n)

Settled ==
  IF watch = None
  THEN \A n \in Name : att[n] # None /\ att[n].by # None => att[n].by.job \notin Decorators
  ELSE /\ ~watch.deleting
       /\ watch.fins = IF watch.matches THEN Finalizes ELSE {}
       /\ watch.matches => \A j \in Job, n \in Name : Has(j, n)

Settles == <>[]Settled
=============================================================================
