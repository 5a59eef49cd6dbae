--------------------------- MODULE SharedInformers ---------------------------
(***************************************************************************)
(* What the factory of shared informers promises to whoever subscribes:    *)
(* the informer of a resource runs exactly as long as somebody subscribes  *)
(* to it, it is the same one all that time, and what it has listed stays   *)
(* listed: a subscriber never finds the cache it has waited for empty      *)
(* again because another came or went.                                     *)
(***************************************************************************)
CONSTANTS
  Resource,  \* what there may be informers of
  Holder     \* subscriptions

VARIABLES
  open,   \* [Resource -> the subscriptions to it]
  cache   \* [Resource -> "off", "empty" or "listed"]

Init ==
  /\ open = [r \in Resource |-> {}]
  /\ cache = [r \in Resource |-> "off"]

Open(r, h) ==
  /\ \A q \in Resource : h \notin open[q]
  /\ open' = [open EXCEPT ![r] = @ \union {h}]
  /\ cache' = [cache EXCEPT ![r] = IF @ = "off" THEN "empty" ELSE @]

Close(r, h) ==
  /\ h \in open[r]
  /\ open' = [open EXCEPT ![r] = @ \ {h}]
  /\ cache' = [cache EXCEPT ![r] = IF open[r] = {h} THEN "off" ELSE @]

Lists(r) ==
  /\ cache[r] = "empty"
  /\ cache' = [cache EXCEPT ![r] = "listed"]
  /\ UNCHANGED open

Next == \E r \in Resource : Lists(r) \/ \E h \in Holder : Open(r, h) \/ Close(r, h)

Spec == Init /\ [][Next]_<<open, cache>>
==============================================================================
