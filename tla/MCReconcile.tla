----------------------------- MODULE MCReconcile ------------------------------
(* A small instance of Reconcile: the watch w1 wants an attachment with ports *)
(* and arguments, and w2, that may update any, a label, a port and a field of *)
(* a port of its own; each port is a map whose merge key is "port".           *)
EXTENDS Reconcile, TLC

Strings(s) == List([i \in DOMAIN s |-> Scalar(s[i])])
Meta(labels) ==
  Map("name" :> Scalar("n") @@ "namespace" :> Scalar("ns") @@ "labels" :> Map(labels))
Object(labels, spec) == Map("metadata" :> Meta(labels) @@ "spec" :> Map(spec))

Port(p) == "port" :> Scalar(p) @@ "name" :> Scalar("name " \o p)
Ports(s) == List([i \in DOMAIN s |-> Map(s[i])])
App(v) == "app" :> Scalar(v)

First == Object(App("a"), "image" :> Scalar("1") @@ "args" :> Strings(<<"x", "y">>)
                          @@ "ports" :> Ports(<<Port("80"), Port("81")>>))
Second == Map(FieldsOf(Object(App("a"), "image" :> Scalar("2")
                                        @@ "ports" :> Ports(<<Port("82"), Port("80")>>)))
              @@ "status" :> Map("phase" :> Scalar("desired")))
Sidecar == Object("tier" :> Scalar("t"),
                  "ports" :> Ports(<<"port" :> Scalar("83"),
                                     "port" :> Scalar("80") @@ "proto" :> Scalar("tcp")>>))
Bare == Object(<< >>, << >>)

MCWants == "w1" :> {First, Second, Nothing} @@ "w2" :> {Sidecar, Bare}

\* w2 first wants an annotation and then none any more.
Noted == Map("metadata" :> Map("name" :> Scalar("n")
                               @@ "annotations" :> Map("note" :> Scalar("x"))))
NotedWants == "w1" :> {First} @@ "w2" :> {Noted, Bare}

MCEdits == {
  <<<<"metadata", "labels", "app">>, Scalar("b")>>,
  <<<<"metadata", "labels", "own">>, Scalar("a")>>,
  <<<<"spec", "image">>, Nothing>>,
  <<<<"spec", "args">>, Strings(<<"y">>)>>,
  <<<<"spec", "ports">>, Ports(<<Port("84"), Port("80")>>)>>,
  <<<<"status">>, Map("phase" :> Scalar("1/1"))>> }

MCWatch == "w1" :> Map("metadata" :> Map(FieldsOf(Meta(App("a"))) @@ "uid" :> Scalar("w1"))
                       @@ "spec" :> Map("image" :> Scalar("1")))
           @@ "w2" :> Map("metadata" :> Map("name" :> Scalar("n2") @@ "uid" :> Scalar("w2")))

\* Selectors.
Req(key, op, values) == [key |-> key, op |-> op, values |-> values]
Empty == [fields |-> {}, annotations |-> {}, labels |-> {}, slices |-> {}, references |-> << >>]
SameName ==
  [Empty EXCEPT !.references = <<[key |-> <<"metadata", "name">>, op |-> "EqualsName",
                                  refKey |-> NoPath]>>]
Selector(labels, names, terms) ==
  [gvk |-> <<"", "v1", "Pod">>, labels |-> labels, annotations |-> {}, names |-> names,
   terms |-> terms]

MCResource ==
  "w1" :> Selector({}, {"n"}, <<SameName>>)
  @@ "w2" :> Selector({Req("app", "NotIn", <<"b">>)}, {}, << >>)

MCSanitised == "1/1" :> "1fwdslash1"
===============================================================================
