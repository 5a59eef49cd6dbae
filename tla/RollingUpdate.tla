---------------------------- MODULE RollingUpdate ----------------------------
(***************************************************************************)
(* What a rolling update promises of the children it never scales away: a  *)
(* child has one version at a time, is never without one again, and only   *)
(* ever becomes what its version wants.  They move to the version of a     *)
(* decision one by one: beside those that hold what it wants already, one, *)
(* and that only when all the others of that version have it and are not   *)
(* being updated to it any more.                                           *)
(***************************************************************************)
CONSTANTS
  Version,
  Child,
  Template,  \* [Version -> [Child -> what the version wants of the child]]
  None       \* no version, no child

VARIABLES
  owner,     \* [Child -> the version it is to have, or None]
  content,   \* [Child -> what it holds, or None]
  moving,    \* [Child -> the version it is being updated to, or None]
  astray     \* was a decision made on old copies, or stored in part only?

Init ==
  /\ owner = [c \in Child |-> None]
  /\ content = [c \in Child |-> None]
  /\ moving = [c \in Child |-> None]
  /\ astray = FALSE

\* Children may go at any time, and be seen to be gone with a decision only.
MayVanish == \E gone \in SUBSET Child :
  content' = [c \in Child |-> IF c \in gone THEN None ELSE content[c]]

\* The children a version gets for nothing.
Given(v) == {c \in Child : owner[c] = None \/ content[c] = Template[v][c]}

Take(v, taken) ==
  /\ owner' = [c \in Child |-> IF c \in taken THEN v ELSE owner[c]]
  /\ MayVanish
  /\ UNCHANGED moving

\* All but c that are given to v or have it already are settled there.
Settled(v, c) ==
  \A d \in Child \ {c} :
    d \in Given(v) \/ owner[d] = v => content[d] = Template[v][d] /\ moving[d] # v

\* A decision for one version moves one child at most.
Decide(v) == Take(v, Given(v)) \/ \E c \in Child : Settled(v, c) /\ Take(v, Given(v) \union {c})

Update(c) ==
  LET v == owner[c]
  IN /\ v # None /\ content[c] \notin {None, Template[v][c]}
     /\ moving' = [moving EXCEPT ![c] = v]
     /\ content' = [content EXCEPT ![c] = @] \/ content' = [content EXCEPT ![c] = Template[v][c]]
     /\ UNCHANGED owner

Create(c) ==
  /\ owner[c] # None /\ content[c] = None
  /\ content' = [content EXCEPT ![c] = Template[owner[c]][c]]
  /\ moving' = [moving EXCEPT ![c] = IF @ = owner[c] THEN @ ELSE None]
  /\ UNCHANGED owner

\* It is healthy with what it holds.
Settle(c) ==
  /\ moving[c] # None /\ content[c] = Template[moving[c]][c]
  /\ moving' = [moving EXCEPT ![c] = None]
  /\ UNCHANGED <<owner, content>>

Vanish == MayVanish /\ UNCHANGED <<owner, moving>>

Step ==
  \/ Vanish
  \/ \E v \in Version : Decide(v)
  \/ \E c \in Child : Update(c) \/ Create(c) \/ Settle(c)

\* Nothing is promised after a decision on old copies or one stored in part.
Next == astray' \/ (UNCHANGED astray /\ Step)

Spec == Init /\ [][Next]_<<owner, content, moving, astray>>
==============================================================================
