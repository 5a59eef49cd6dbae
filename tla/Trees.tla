-------------------------------- MODULE Trees --------------------------------
(* The content of an unstructured Kubernetes object: scalars, maps from keys  *)
(* to contents, and lists.  A content is a tagged tuple, so that contents of  *)
(* every kind can be compared.                                                *)
EXTENDS Integers, Sequences, SequencesExt, FiniteSets

Scalar(x) == <<"scalar", x>>
Map(f) == <<"map", f>>
List(s) == <<"list", s>>
Null == <<"null">>

\* What a path leads to when a key of it is missing, or when the way leads
\* through something that is not a map.
Nothing == <<"nothing">>
Broken == <<"broken">>

Kind(t) == t[1]

\* The fields of a map and the items of a list.  Every other content passes
\* for the nil map and the nil slice, as a failed type assertion does.
FieldsOf(t) == IF Kind(t) = "map" THEN t[2] ELSE << >>
ItemsOf(t) == IF Kind(t) = "list" THEN t[2] ELSE << >>

\* m[k] of a Go map: null when it is not there.
At(f, k) == IF k \in DOMAIN f THEN f[k] ELSE Null

Without(f, keys) == [k \in DOMAIN f \ keys |-> f[k]]
With(f, k, v) == [j \in DOMAIN f \cup {k} |-> IF j = k THEN v ELSE f[j]]

\* The field k of a content.
Enter(v, k) ==
  IF v = Nothing THEN Nothing
  ELSE IF Kind(v) # "map" THEN Broken
  ELSE IF k \in DOMAIN v[2] THEN v[2][k] ELSE Nothing

\* unstructured.NestedFieldNoCopy
Lookup(t, path) ==
  LET at[n \in 0 .. Len(path)] == IF n = 0 THEN t ELSE Enter(at[n - 1], path[n])
  IN at[Len(path)]

AsString(v) == IF Kind(v) \in {"scalar", "nothing"} THEN v ELSE Broken

AsStrings(v) ==
  IF \/ v = Nothing
     \/ Kind(v) = "list" /\ \A i \in DOMAIN v[2] : Kind(v[2][i]) = "scalar"
  THEN v ELSE Broken

\* unstructured.NestedString and NestedStringSlice: the value, Nothing or Broken.
StringAt(t, path) == AsString(Lookup(t, path))
SliceAt(t, path) == AsStrings(Lookup(t, path))
==============================================================================
