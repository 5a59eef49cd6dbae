----------------------------- MODULE MCSelection ------------------------------
(* A small instance of Selection: an attachment whose labels, annotations,    *)
(* image, arguments and status are there or not, and two watches.             *)
EXTENDS Selection, TLC

Strings(s) == List([i \in DOMAIN s |-> Scalar(s[i])])

\* The fields of a map that are there.
Present(f) == Map([k \in {k \in DOMAIN f : f[k] # Nothing} |-> f[k]])

MCObject ==
  {Present([metadata |-> Present([name |-> Scalar("n"), labels |-> labels,
                                  annotations |-> annotations]),
            spec |-> Present([image |-> image, args |-> args]),
            status |-> status]) :
     labels \in {Nothing, Map("app" :> Scalar("a")),
                 Map("app" :> Scalar("b") @@ "own" :> Scalar("a"))},
     annotations \in {Nothing, Map("created" :> Scalar("w1"))},
     image \in {Nothing, Scalar(""), Scalar("1"), Scalar("n2")},
     args \in {Nothing, Strings(<<"x", "y">>), Strings(<<"y">>)},
     status \in {Nothing, Map("phase" :> Scalar("1/1"))}}

MCWatch ==
  {Map("metadata" :> Map("name" :> Scalar("n") @@ "labels" :> Map("app" :> Scalar("a"))
                         @@ "uid" :> Scalar("w1"))
       @@ "spec" :> Map("image" :> Scalar("1"))),
   Map("metadata" :> Map("name" :> Scalar("n2") @@ "uid" :> Scalar("w2")))}

\* Selector terms.
Req(key, op, values) == [key |-> key, op |-> op, values |-> values]
Ref(key, op, refKey) == [key |-> key, op |-> op, refKey |-> refKey]
Empty == [fields |-> {}, annotations |-> {}, labels |-> {}, slices |-> {}, references |-> << >>]
Image == <<"spec", "image">>
Name == <<"metadata", "name">>

Terms ==
  {[Empty EXCEPT !.fields = {Req(Image, op, <<"1">>)}] : op \in {"In", "NotIn"}}
  \cup {[Empty EXCEPT !.fields = {Req(<<"status", "phase">>, "In", <<"1/1">>)}]}
  \cup {[Empty EXCEPT !.fields = {Req(Image, op, << >>)}] : op \in {"Exists", "DoesNotExist"}}
  \cup {[Empty EXCEPT !.labels = {Req("app", op, <<"a", "c">>), Req("own", "DoesNotExist", << >>)}] :
          op \in {"In", "NotIn"}}
  \cup {[Empty EXCEPT !.annotations = {Req("created", "In", <<"w1">>)}]}
  \cup {[Empty EXCEPT !.slices = {Req(<<"spec", "args">>, op, v)}] :
          op \in {"In", "NotIn", "Equals", "NotEquals"}, v \in {<<"y">>, <<"y", "x">>}}
  \cup {[Empty EXCEPT !.references = <<Ref(Image, op, NoPath)>>] : op \in {"Equals", "NotEquals", ""}}
  \cup {[Empty EXCEPT !.references = <<Ref(Image, "Equals", Name)>>]}
  \cup {[Empty EXCEPT !.references = <<Ref(Name, "EqualsName", NoPath), Ref(Image, "", NoPath)>>],
        [Empty EXCEPT !.references = <<Ref(<<"metadata", "labels", "app">>, "NotEquals", Image)>>,
                      !.fields = {Req(Image, "In", <<"2">>)}],
        [Empty EXCEPT !.labels = {Req("app", "Exists", << >>)},
                      !.slices = {Req(<<"spec", "args">>, "In", <<"x">>)}]}

MCTermLists ==
  {<< >>, <<NilTerm>>} \cup {<<t>> : t \in Terms}
  \cup {<<[Empty EXCEPT !.labels = {Req("app", "In", <<"b">>)}], NilTerm, t>> : t \in Terms}

\* Resources.
Kinds == [v1 |-> <<"apps", "v1", "Set">>, v2 |-> <<"apps", "v2", "Set">>, pod |-> <<"", "v1", "Pod">>]
Kind1(gvk, labels, names, terms) ==
  [gvk |-> gvk, labels |-> labels, annotations |-> {}, names |-> names, terms |-> terms]

MCKnown == {Kinds.v1, Kinds.v2, Kinds.pod}

\* One kind by a list of terms, and several kinds by labels and names.
MCResourceLists ==
  {<<Kind1(Kinds.pod, {}, {}, terms)>> : terms \in MCTermLists}
  \cup {<<Kind1(k, {Req("app", "In", <<"a">>)}, {}, << >>),
          Kind1(Kinds.pod, {Req("own", "Exists", << >>)}, names, << >>)>> :
          k \in {Kinds.v1, Kinds.v2}, names \in {{}, {"n"}, {"m"}}}
  \cup {<<Kind1(Kinds.v1, {Req("app", "NotIn", <<"a">>)}, {}, << >>),
          Kind1(Kinds.v2, {Req("own", "DoesNotExist", << >>)}, {}, << >>)>>}

MCSanitised == "1/1" :> "1fwdslash1"
===============================================================================
