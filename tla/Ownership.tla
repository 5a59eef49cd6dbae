------------------------------ MODULE Ownership ------------------------------
(***************************************************************************)
(* What controller references promise: an object has at most one           *)
(* controller, it gets one only while it has none, and it never passes     *)
(* from one controller to another without having been an orphan between.   *)
(* A controller is known by the UID of its incarnation.                    *)
(***************************************************************************)
CONSTANTS
  Object,  \* names of objects
  Uid,     \* incarnations of controllers
  Orphan,  \* the object exists and nobody controls it
  Absent   \* there is no such object

VARIABLE owner  \* [Object -> Uid, Orphan or Absent]

Owners == Uid \union {Orphan, Absent}

Init == owner = [o \in Object |-> Absent]

Becomes(o, new) == owner' = [owner EXCEPT ![o] = new]

Appear(o) == owner[o] = Absent /\ \E new \in Uid \union {Orphan} : Becomes(o, new)

Adopt(o) == owner[o] = Orphan /\ \E u \in Uid : Becomes(o, u)

Release(o) == owner[o] \in Uid /\ Becomes(o, Orphan)

Vanish(o) == owner[o] # Absent /\ Becomes(o, Absent)

Next == \E o \in Object : Appear(o) \/ Adopt(o) \/ Release(o) \/ Vanish(o)

Spec == Init /\ [][Next]_owner
=============================================================================
