--------------------------- MODULE MCAttachments ---------------------------
(* A small instance of Attachments: a GenericController g and a decorator d *)
(* of one watched object.  Each has an attachment, and g updates that of d  *)
(* explicitly; under the name of its own users create objects of theirs.    *)
EXTENDS Attachments, TLC

CONSTANTS
  g, d,    \* controllers
  a, b,    \* attachments
  f, i, h, \* fields
  v1, v2   \* versions

WantsOf ==
  (g :> [v \in Version |-> (a :> IF v = v1 THEN {f} ELSE {i}) @@ (b :> None)])
  @@ (d :> [v \in Version |-> (a :> None) @@ (b :> IF v = v1 THEN {f} ELSE {i})])

ExtraOf == [j \in Job |-> [n \in Name |-> IF j = g /\ n = b THEN {h} ELSE None]]

MethodOf == (g :> "InPlace") @@ (d :> "Recreate")

NoOptions == [j \in Job |-> {}]
============================================================================
