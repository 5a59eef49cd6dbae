--------------------------- MODULE MCConfigServer ---------------------------
(* Small instances of ConfigServer: two GenericControllers that share a     *)
(* resource, in two files or from a load function.                          *)
EXTENDS ConfigServer, TLC

CONSTANTS
  main, program, \* clients of discovery: the server, and one that embeds it
  c1, c2,        \* GenericControllers
  r1, r2         \* resources

WatchOf == [c \in Config |-> r1]
AttachedOf == (c1 :> <<r2>>) @@ (c2 :> <<>>)
StrategicOf == (c1 :> {r2}) @@ (c2 :> {})

File(kind, docs) == [kind |-> kind, docs |-> docs, readable |-> TRUE]
Directory(slash, files) == [slash |-> slash, files |-> files]

Paths ==
  {Directory(TRUE, <<File("other", <<c2>>), File("yaml", <<None, c1>>), File("json", <<c2>>)>>),
   Directory(TRUE, <<File("yaml", <<c1>>), File("dir", <<>>), File("yaml", <<c1>>)>>),
   Directory(FALSE, <<File("yaml", <<c1>>)>>),
   None}

LoadFn == <<c1, c2>>
=============================================================================
