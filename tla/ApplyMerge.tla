------------------------------ MODULE ApplyMerge ------------------------------
(* The merge of `kubectl apply` done on the client: the content of an object  *)
(* as it was observed is brought to what is desired, given what the same      *)
(* applier desired last.  It is a pure function of three contents.            *)
EXTENDS Trees

RECURSIVE Put(_, _, _)

\* unstructured.SetNestedField, and RemoveNestedField for Nothing.
Put(t, path, value) ==
  LET k == Head(path)
      f == FieldsOf(t)
  IN IF Len(path) > 1
     THEN IF value = Nothing /\ Kind(At(f, k)) # "map" THEN t
          ELSE Map(With(f, k, Put(At(f, k), Tail(path), value)))
     ELSE IF value = Nothing THEN Map(Without(f, {k}))
     ELSE Map(With(f, k, value))

\* The merge keys that are guessed, the first that every item has.
knownMergeKeys == <<"containerPort", "port", "name", "uid", "ip">>

NoKey == "none"

\* The merge key of three lists, if all their items are maps that share one.
detectListMapKey(observed, last, desired) ==
  LET all == observed \o last \o desired
      common == {k \in Range(knownMergeKeys) :
                   \A i \in DOMAIN all : k \in DOMAIN FieldsOf(all[i])}
  IN IF all = << >> \/ common = {} THEN NoKey
     ELSE SelectSeq(knownMergeKeys, LAMBDA k : k \in common)[1]

\* stringMergeKey, for keys that are scalars.
MergeKeyOf(item, key) == FieldsOf(item)[key][2]

\* A list as a map.  Of the items with one key the last one stays.
makeMapFromList(key, list) ==
  [v \in {MergeKeyOf(list[i], key) : i \in DOMAIN list} |->
     list[CHOOSE i \in DOMAIN list :
            /\ MergeKeyOf(list[i], key) = v
            /\ \A j \in i + 1 .. Len(list) : MergeKeyOf(list[j], key) # v]]

\* A mutant of ListInOrder: the items as they are desired, then all others.
DesiredFirst(key, merged, observed, desired) ==
  LET names(list) == [i \in DOMAIN list |-> MergeKeyOf(list[i], key)]
      others == SelectSeq(names(observed), LAMBDA v : /\ v \in DOMAIN merged
                                                      /\ ~ Contains(names(desired), v))
      order == names(desired) \o others
  IN [i \in DOMAIN order |-> merged[order[i]]]

\* The map back as a list: the items that were there in their order, then the
\* new ones in the order they are desired in, each once.
ListInOrder(key, merged, observed, desired) ==
  LET keyOf(item) == MergeKeyOf(item, key)
      kept == SelectSeq(observed, LAMBDA i : keyOf(i) \in DOMAIN merged)
      names(list) == [i \in DOMAIN list |-> keyOf(list[i])]
      new == FoldLeft(LAMBDA s, v : IF Contains(s, v) THEN s ELSE Append(s, v),
                      << >>,
                      SelectSeq(names(desired), LAMBDA v : ~ Contains(names(observed), v)))
      order == names(kept) \o new
  IN [i \in DOMAIN order |-> merged[order[i]]]

RECURSIVE merge(_, _, _), mergeMap(_, _, _)

\* Fields that were applied and are no longer desired go, those desired are
\* merged one by one, all others stay.
mergeMap(observed, last, desired) ==
  LET gone == DOMAIN last \ DOMAIN desired
  IN [k \in (DOMAIN observed \ gone) \cup DOMAIN desired |->
        IF k \in DOMAIN desired
        THEN merge(At(observed, k), At(last, k), desired[k])
        ELSE observed[k]]

mergeListMap(key, observed, last, desired) ==
  LET merged == mergeMap(makeMapFromList(key, observed), makeMapFromList(key, last),
                         makeMapFromList(key, desired))
  IN List(ListInOrder(key, merged, observed, desired))

\* What is desired replaces any list whose items have no key; a content of
\* another kind is a nil slice, which is stored as null.
mergeArray(observed, last, desired) ==
  LET key == detectListMapKey(observed, last, ItemsOf(desired))
  IN IF key # NoKey THEN mergeListMap(key, observed, last, ItemsOf(desired))
     ELSE IF Kind(desired) = "list" THEN desired
     ELSE Null

\* The kind of what is observed decides.  That the others are of another kind
\* is no error: they are taken for nil.
merge(observed, last, desired) ==
  CASE Kind(observed) = "map" ->
         Map(mergeMap(FieldsOf(observed), FieldsOf(last), FieldsOf(desired)))
    [] Kind(observed) = "list" ->
         mergeArray(ItemsOf(observed), ItemsOf(last), desired)
    [] OTHER -> desired

objectMetaSystemFields ==
  {"selfLink", "uid", "resourceVersion", "generation", "creationTimestamp",
   "deletionTimestamp"}

\* A mutant of revertField: what was not there becomes null.
NullIfMissing(new, orig, path) ==
  LET was == Lookup(orig, path) IN Put(new, path, IF was = Nothing THEN Null ELSE was)

\* A field is what it was, or is not there if it was not.
revertField(new, orig, path) ==
  LET was == Lookup(orig, path) IN Put(new, path, was)

revertObjectMetaSystemFields(new, orig) ==
  FoldSet(LAMBDA f, t : revertField(t, orig, <<"metadata", f>>),
          new, objectMetaSystemFields)

\* The merged content, before the record of what was applied is renewed.
MergedContent(observed, last, desired) ==
  revertField(revertObjectMetaSystemFields(merge(observed, last, desired), observed),
              observed, <<"status">>)

\* The record of what was last applied, an annotation of its own per applier.
GetLastAppliedByAnnKey(obj, annKey) ==
  LET record == Lookup(obj, <<"metadata", "annotations", annKey>>)
  IN IF Kind(record) = "scalar" THEN record[2] ELSE Null

SetLastAppliedByAnnKey(obj, lastApplied, annKey) ==
  IF FieldsOf(lastApplied) = << >> THEN obj
  ELSE Put(obj, <<"metadata", "annotations", annKey>>, Scalar(lastApplied))

\* A record holds no record of its own applier.
SanitizeLastAppliedByAnnKey(last, annKey) ==
  Put(last, <<"metadata", "annotations", annKey>>, Nothing)
==============================================================================
