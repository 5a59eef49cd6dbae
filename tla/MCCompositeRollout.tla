------------------------ MODULE MCCompositeRollout ------------------------
(* Small instances of CompositeRollout.                                     *)
EXTENDS CompositeRollout, TLC

CONSTANTS
  A, B,       \* versions
  c1, c2, c3, \* children
  Pods        \* their kind

AllPods == [c \in Child |-> Pods]

RollInPlace == [k \in Kind |-> "RollingInPlace"]
RollRecreate == [k \in Kind |-> "RollingRecreate"]

(* The sync hook wants something else of every child at every version. *)
AllDiffer == [v \in Version |-> [c \in Child |-> v]]

AllChildren == {Child}
AllOrNotC2 == {Child, Child \ {c2}}
StartAtA == [ver |-> A, scale |-> Child]

(* A change of mind, at some number of children, or an edit and a fault     *)
(* while all children are wanted.                                           *)
EditsAndFaults ==
  IF edits = 2 THEN faults = 0 /\ parent.spec.ver = A
  ELSE faults > 0 => parent.spec.scale = Child

(* OneAtATime and RollsOneByOne promise nothing once a sync went astray.    *)
NotAstray == ~astray

(* The actions of others, where only the caches of revisions lag: an edit   *)
(* comes between two syncs, a second one, back to the first spec, once all  *)
(* other events have arrived, and a fault before any edit, or between the   *)
(* writes of the revisions.  Events of the parent and resyncs commute with  *)
(* the steps of a sync, and come between two.                               *)
Edited == parent'.spec # parent.spec

SeenByParent == cParent' # cParent /\ UNCHANGED <<parent, pc>>
Resynced == queued' # queued /\ UNCHANGED <<cache, pc>>

OthersSeen == cParent = Fresh(parent) /\ cChildren = Copies(children)

InTurn ==
  /\ Edited \/ SeenByParent \/ Resynced => pc = "idle"
  /\ Edited => faults = 0
  /\ Edited /\ edits = 1 => ~queued /\ OthersSeen /\ parent'.spec = InitSpec
  /\ faults' # faults => edits = 0 \/ (edits = 1 /\ OthersSeen /\ pc = "planned" /\ ~RevisionsCommitted)

Alike == Permutations({c1, c3})
=============================================================================
