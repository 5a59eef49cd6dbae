------------------------------- MODULE Reconcile -------------------------------
(* One attachment of several watches, each reconciled by a GenericController: *)
(* a sync lists the attachment if the selectors match it, and creates it,     *)
(* merges what its hook desires into it, or deletes it.  Modelled are the     *)
(* contents: which watch's fields are in the object, and the records of what  *)
(* each applied last, which are annotations of the object.  A sync is one     *)
(* step on the live object; its calls one by one, stale caches and failed     *)
(* calls are in Attachments.                                                  *)
EXTENDS ApplyMerge, Selectors, Integers

CONSTANTS
  Applier,      \* the UIDs of the watches, which are strings
  Watch,        \* the content of each watch
  Resource,     \* what each watch's controller selects the attachment by
  MayUpdateAny, \* the watches whose controllers have UpdateAny
  Wants,        \* the contents that may be desired for each watch, or Nothing
  Edits,        \* what users do to the object: pairs of a path and a content
  MaxEdits      \* bound on the edits and the changes of mind

VARIABLES
  object,   \* the attachment, or Nothing
  wants,    \* what the hook of each watch desires now
  patching, \* the watches whose controllers have the patch strategy
  placed,   \* per watch, the paths in the object that its syncs put there
  due,      \* the watches that are in their queue
  edits     \* edits and changes of mind so far

vars == <<object, wants, patching, placed, due, edits>>

ASSUME ApplierAssumption == Applier \subseteq STRING

------------------------------------------------------------------------------
(* Annotations of the controllers. *)

AttachmentCreateAnnotationKey == "metac.openebs.io/created-due-to-watch"
\* A mutant of LastAppliedKey: one record for all watches.
OneRecord(a) == "gctl-last-applied"

LastAppliedKey(a) == a \o "/gctl-last-applied"
UpdateKey(a) == a \o "/updated-due-to-watch"

Annotate(obj, key, value) == Put(obj, <<"metadata", "annotations", key>>, Scalar(value))

CreatedByWatch(a) ==
  Lookup(object, <<"metadata", "annotations", AttachmentCreateAnnotationKey>>) = Scalar(a)

------------------------------------------------------------------------------
(* Ghosts: the paths of a content, where the step into a list whose items     *)
(* have a key is the item's key.                                              *)

\* The first known key that all items have, if they are maps with one.
ItemKeys(items) ==
  {n \in DOMAIN knownMergeKeys :
     \A i \in DOMAIN items : /\ Kind(items[i]) = "map"
                             /\ knownMergeKeys[n] \in DOMAIN items[i][2]}

RECURSIVE NodesAt(_, _)

\* The nodes at and below a path: the path with a scalar or a plain list, with
\* the mark of a map, or with the keys of a keyed list in their order.
NodesAt(path, t) ==
  CASE Kind(t) = "map" ->
         {<<path, <<"map">>>>}
         \cup UNION {NodesAt(Append(path, k), t[2][k]) : k \in DOMAIN t[2]}
    [] Kind(t) = "list" /\ ItemKeys(t[2]) # {} ->
         LET first == CHOOSE n \in ItemKeys(t[2]) : \A m \in ItemKeys(t[2]) : n <= m
             key(i) == t[2][i][2][knownMergeKeys[first]][2]
         IN {<<path, <<"keyed", [i \in DOMAIN t[2] |-> key(i)]>>>>}
            \cup UNION {NodesAt(Append(path, key(i)), t[2][i]) : i \in DOMAIN t[2]}
    [] OTHER -> {<<path, t>>}

Nodes(t) == IF t \in {Nothing, Null} THEN {} ELSE NodesAt(<< >>, t)
Paths(t) == {n[1] : n \in Nodes(t)}

\* What the controllers and the API server write on their own account, and
\* the status, which a merge leaves alone.
Bookkeeping(path) ==
  \/ path = <<"metadata", "annotations">>
  \/ path # << >> /\ path[1] = "status"
  \/ /\ Len(path) = 3 /\ path[2] = "annotations"
     /\ path[3] \in {AttachmentCreateAnnotationKey}
                    \cup {LastAppliedKey(a) : a \in Applier}
                    \cup {UpdateKey(a) : a \in Applier}
  \/ Len(path) = 2 /\ path[2] \in objectMetaSystemFields

\* The object becomes new.  A path is placed by the sync that puts it into the
\* object, and counts as placed for as long as it stays there.
Place(a, new) ==
  /\ object' = new
  /\ placed' = [b \in Applier |->
                  LET added == IF a = b THEN Paths(new) \ Paths(object) ELSE {}
                  IN {p \in (placed[b] \cup added) \cap Paths(new) : ~ Bookkeeping(p)}]

Others(new) ==
  /\ object' = new
  /\ placed' = [b \in Applier |-> placed[b] \cap Paths(new)]

------------------------------------------------------------------------------
Init ==
  /\ object = Nothing
  /\ wants \in [Applier -> UNION {Wants[a] : a \in Applier}]
  /\ \A a \in Applier : wants[a] \in Wants[a]
  /\ patching \in {{}} \cup {{a} : a \in MayUpdateAny}
  /\ placed = [a \in Applier |-> {}]
  /\ due = Applier
  /\ edits = 0

\* What getObservedAttachments says of the attachment: "error" fails the sync.
Observed(a) ==
  IF object = Nothing THEN "no"
  ELSE MatchAttachmentAgainstWatch(Resource[a], object, Watch[a])

\* The attachment is desired and not observed.  It is recorded what was desired
\* before anything is added; the API server gives it its UID.  While one that
\* does not match has its name, the call fails and changes nothing.
Create(a) ==
  /\ object = Nothing /\ wants[a] # Nothing
  /\ LET recorded == SetLastAppliedByAnnKey(wants[a], wants[a], LastAppliedKey(a))
         created == Annotate(recorded, AttachmentCreateAnnotationKey, a)
     IN Place(a, Put(created, <<"metadata", "uid">>, Scalar("uid of the attachment")))

\* With the patch strategy, what is observed first becomes what was applied
\* last, in the observed object itself.
PreparedFor(a) ==
  IF a \in patching THEN SetLastAppliedByAnnKey(object, object, LastAppliedKey(a))
  ELSE object

\* Apply.Merge up to its comparison.
MergedFor(a) ==
  LET observed == PreparedFor(a)
  IN MergedContent(observed, GetLastAppliedByAnnKey(observed, LastAppliedKey(a)), wants[a])

\* A mutant of WrittenFor: the record stays that of the creation.
RecordOfCreation(a) == Annotate(MergedFor(a), UpdateKey(a), a)

\* The object with the record of what was applied, and of who updates it.
WrittenFor(a) ==
  LET last == SanitizeLastAppliedByAnnKey(wants[a], LastAppliedKey(a))
  IN Annotate(SetLastAppliedByAnnKey(MergedFor(a), last, LastAppliedKey(a)),
              UpdateKey(a), a)

\* The attachment is desired and observed, and the merge changes it: it is
\* updated in place.  Without a change nothing is written, no record either.
Update(a) ==
  /\ Observed(a) = "yes" /\ wants[a] # Nothing
  /\ CreatedByWatch(a) \/ a \in MayUpdateAny
  /\ MergedFor(a) # PreparedFor(a)
  /\ Place(a, WrittenFor(a))

\* The attachment is observed and no longer desired.
Delete(a) ==
  /\ Observed(a) = "yes" /\ wants[a] = Nothing
  /\ CreatedByWatch(a)
  /\ Others(Nothing)

\* The sync has nothing to do, is not allowed to, or fails.
Skip(a) ==
  /\ CASE object = Nothing -> wants[a] = Nothing
       [] Observed(a) # "yes" -> TRUE
       [] wants[a] = Nothing -> ~ CreatedByWatch(a)
       [] OTHER -> CreatedByWatch(a) \/ a \in MayUpdateAny => MergedFor(a) = PreparedFor(a)
  /\ UNCHANGED <<object, placed>>

\* A worker takes the watch from the queue and syncs it.
Runs(a) == a \in due /\ due' = due \ {a}

Sync(a) ==
  /\ Runs(a)
  /\ Create(a) \/ Update(a) \/ Delete(a) \/ Skip(a)
  /\ UNCHANGED <<wants, patching, edits>>

\* The watches are resynced; their attachments have no handlers of their own.
Resync == due = {} /\ due' = Applier

\* The hook of a watch changes its mind.
Rethink(a) ==
  /\ edits < MaxEdits /\ edits' = edits + 1
  /\ \E w \in Wants[a] \ {wants[a]} : wants' = [wants EXCEPT ![a] = w]
  /\ UNCHANGED <<object, patching, placed, due>>

\* A user sets or removes a field, or another controller the status.
Edit ==
  /\ object # Nothing
  /\ edits < MaxEdits /\ edits' = edits + 1
  /\ \E e \in Edits :
       /\ Lookup(object, e[1]) # e[2]
       /\ Others(Put(object, e[1], e[2]))
  /\ UNCHANGED <<wants, patching, due>>

Next ==
  \/ Edit
  \/ Resync /\ UNCHANGED <<object, wants, patching, placed, edits>>
  \/ \E a \in Applier : Sync(a) \/ Rethink(a)

Spec == Init /\ [][Next]_vars

\* Watches are resynced periodically, and a worker syncs what is in the queue.
\* Every step that takes a watch out of the queue is a sync of it.
Fairness == WF_due(Resync) /\ \A a \in Applier : WF_due(Runs(a))

FairSpec == Spec /\ Fairness
------------------------------------------------------------------------------
(* What a merge is to do, path by path. *)

Under(path, roots) == \E n \in 0 .. Len(path) : SubSeq(path, 1, n) \in roots

SystemPaths == {<<"status">>} \cup {<<"metadata", f>> : f \in objectMetaSystemFields}

Keyed(nodes, path) ==
  LET here == {n \in nodes : n[1] = path /\ n[2][1] = "keyed"}
  IN IF here = {} THEN << >> ELSE (CHOOSE n \in here : TRUE)[2][2]

\* What is desired is there; what was applied and is no longer desired is gone
\* with all below it; the rest stays; status and system fields stay as they
\* were; the items of a keyed list keep their order, and new ones come last.
Expected(observed, last, desired) ==
  LET gone == Paths(last) \ Paths(desired)
      stay == {n \in Nodes(observed) : n[1] \notin Paths(desired) /\ ~ Under(n[1], gone)}
      stays(path, k) == Append(path, k) \in {n[1] : n \in stay} \cup Paths(desired)
      joined(n) ==
        LET there == Keyed(Nodes(observed), n[1])
        IN IF n[2][1] # "keyed" THEN n[2]
           ELSE <<"keyed", SelectSeq(there, LAMBDA k : stays(n[1], k))
                           \o SelectSeq(n[2][2], LAMBDA k : ~ Contains(there, k))>>
  IN {n \in stay \cup {<<n[1], joined(n)>> : n \in Nodes(desired)} :
        ~ Under(n[1], SystemPaths)}
     \cup {n \in Nodes(observed) : Under(n[1], SystemPaths)}

------------------------------------------------------------------------------
(* Properties *)

Content == {t \in {object} \cup {wants[a] : a \in Applier} : t # Nothing}

\* Objects and what is desired are maps with metadata, and no merge stores a
\* null in them; a placed path is in the object (revertField, mergeArray).
TypeOK ==
  /\ \A t \in Content : Kind(t) = "map" /\ Kind(Lookup(t, <<"metadata">>)) = "map"
  /\ \A n \in Nodes(object) : n[2] # Null
  /\ \A a \in Applier : wants[a] \in Wants[a] /\ placed[a] \subseteq Paths(object)
  /\ patching \in SUBSET Applier
  /\ edits \in 0 .. MaxEdits

\* Whatever a watch's controller would write now: what its hook desires is in
\* it, what it applied before and no longer desires is gone, whatever else
\* others have put into the object, the status and the system fields are as
\* they were, and lists with keys keep their order (Merge in apply.go and
\* Apply.merge, with the record in the object's own annotations).
MergesPathByPath ==
  \A a \in Applier :
    object # Nothing /\ wants[a] # Nothing =>
      LET observed == PreparedFor(a)
          last == GetLastAppliedByAnnKey(observed, LastAppliedKey(a))
      IN Nodes(MergedFor(a)) = Expected(observed, last, wants[a])

\* What a watch's syncs put into the object is in the record of what it applied
\* last, so that it can take it back: no sync of another watch, no edit and no
\* update that is skipped because nothing changes makes it lose track (the
\* annotations LastAppliedKey in ResourceStatesController.create and update).
\* It is so as long as nobody uses the patch strategy.
CanTakeBack ==
  patching = {} =>
    \A a \in Applier :
      placed[a] \subseteq Paths(IF object = Nothing THEN Null
                                ELSE GetLastAppliedByAnnKey(object, LastAppliedKey(a)))

\* Once users and hooks leave the object alone, the watches stop writing it:
\* their merges do not undo each other, whoever created it (the per-watch
\* annotation in update lets each be applied independently of the others).
\* It speaks of runs in which no watch uses the patch strategy: that puts the
\* annotation into a cached copy, and may send the same merge at every sync.
Converges == patching = {} => <>[][UNCHANGED object]_vars
==============================================================================
