---------------------------- MODULE MCChildClaims ----------------------------
(* Small instances of ChildClaims: two parents, and labels that the one,    *)
(* the other, or both of their selectors match.                             *)
EXTENDS ChildClaims, TLC

CONSTANTS p1, p2, x, y, one, two, both

Selectors == (p1 :> {one, both}) @@ (p2 :> {two, both})
Nested == (p1 :> {one, both}) @@ (p2 :> {both})
=============================================================================
