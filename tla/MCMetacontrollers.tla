------------------------ MODULE MCMetacontrollers ------------------------
(* A small instance of Metacontrollers: a metacontroller of two custom      *)
(* resources.  `Children` is a composite controller with a resync of its    *)
(* own, `Attached` a generic one that hears of what it watches only.        *)
EXTENDS Metacontrollers, TLC

CONSTANTS
  mctl,               \* metacontroller
  one, two,           \* custom resources
  r1, r2,             \* resources
  Children, Attached  \* specs

OwnerOf == [n \in Name |-> mctl]

VersionsOf == (one :> {Children}) @@ (two :> {Attached, Children})

BothExist == (one :> Children) @@ (two :> Attached)

WantsOf == (Children :> <<r1, r2>>) @@ (Attached :> <<r2, r1>>)

HeardOf == (Children :> {1, 2}) @@ (Attached :> {1})
===========================================================================
