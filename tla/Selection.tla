------------------------------ MODULE Selection -------------------------------
(* What selectors select, against what they state.  A controller is           *)
(* constructed with a list of resources and keeps one selector per kind; the  *)
(* objects change after that, and every sync asks of them as they are whether *)
(* they are selected: a GenericController of an attachment and its watch, a   *)
(* DecoratorController of a parent.                                           *)
EXTENDS Selectors

CONSTANTS
  Object,       \* what the attachment or parent may be
  Watch,        \* what the watch may be
  Known,        \* the kinds that are discovered
  ResourceLists \* the lists of resources controllers may be constructed with

\* What stands for a value with a "/" holds none, and neither does the value
\* that stands for a missing one.  A sync has its watch.
ASSUME SelectionAssumption ==
  /\ \A v \in DOMAIN Sanitised : ValidLabelValue(Sanitised[v])
  /\ ValidLabelValue(notFoundValue)
  /\ Nothing \notin Watch

VARIABLES
  object,    \* the attachment or parent
  watch,     \* the watch
  resources, \* what the controllers were constructed with
  generic,   \* the selectors of the GenericController
  decorated  \* those of the DecoratorController

vars == <<object, watch, resources, generic, decorated>>

Init ==
  /\ object \in Object /\ watch \in Watch
  /\ resources = << >> /\ generic = << >> /\ decorated = << >>

\* Controllers are constructed with their selectors, in place of those before.
Construct(list) ==
  /\ resources' = list
  /\ generic' = NewSelectorForAttachments(Known, list)
  /\ decorated' = newDecoratorSelector(Known, list)
  /\ UNCHANGED <<object, watch>>

\* Users and controllers write the object, or the watch.
Changes ==
  /\ object' \in Object /\ watch' \in Watch
  /\ object' = object \/ watch' = watch
  /\ UNCHANGED <<resources, generic, decorated>>

Next == Changes \/ \E list \in ResourceLists : Construct(list)

Spec == Init /\ [][Next]_vars
------------------------------------------------------------------------------
(* The reading of the API types: what each requirement says of an object.     *)

Has(v, values) == v \in {Scalar(x) : x \in Range(values)}

RequirementHolds(r, path, obj) ==
  LET v == Lookup(obj, path)
  IN CASE r.op = "In" -> Has(v, r.values)
       [] r.op = "NotIn" -> ~ Has(v, r.values)
       [] r.op = "Exists" -> v # Nothing
       [] r.op = "DoesNotExist" -> v = Nothing

\* In and Equals are about sets of values: each one asked for is in the list,
\* and for Equals nothing else.
SliceHolds(r, obj) ==
  LET items == ItemsOf(Lookup(obj, r.key))
      has == {items[i][2] : i \in DOMAIN items}
      same == Range(r.values) = has /\ Len(items) = Cardinality(has)
  IN CASE r.op = "In" -> Range(r.values) \subseteq has
       [] r.op = "NotIn" -> ~ (Range(r.values) \subseteq has)
       [] r.op = "Equals" -> same
       [] r.op = "NotEquals" -> ~ same

\* The target has the value of the reference, where one that is missing in the
\* reference counts as empty, and one that is missing in the target as none.
ReferenceHolds(r, obj, reference) ==
  LET path == CASE r.op = "EqualsName" -> <<"metadata", "name">>
                [] r.op = "EqualsUID" -> <<"metadata", "uid">>
                [] r.op = "EqualsNamespace" -> <<"metadata", "namespace">>
                [] r.refKey # NoPath -> r.refKey
                [] OTHER -> r.key
      its == Lookup(reference, path)
      mine == Lookup(obj, r.key)
      same == mine # Nothing /\ mine = IF its = Nothing THEN Scalar("") ELSE its
  IN IF r.op = "NotEquals" THEN ~ same ELSE same

TermHolds(t, obj, reference) ==
  /\ \A r \in t.fields : RequirementHolds(r, r.key, obj)
  /\ \A r \in t.labels : RequirementHolds(r, <<"metadata", "labels", r.key>>, obj)
  /\ \A r \in t.annotations : RequirementHolds(r, <<"metadata", "annotations", r.key>>, obj)
  /\ \A r \in t.slices : SliceHolds(r, obj)
  /\ \A r \in Range(t.references) : ReferenceHolds(r, obj, reference)

AnyTermHolds(terms, obj, reference) ==
  \/ terms = << >>
  \/ \E i \in DOMAIN terms : terms[i] # NilTerm /\ TermHolds(terms[i], obj, reference)

ResourceHolds(r, obj) ==
  /\ \A q \in r.labels : RequirementHolds(q, <<"metadata", "labels", q.key>>, obj)
  /\ \A q \in r.annotations : RequirementHolds(q, <<"metadata", "annotations", q.key>>, obj)

NameHolds(r, obj) ==
  r.names = {} \/ \E n \in r.names : Lookup(obj, <<"metadata", "name">>) = Scalar(n)
------------------------------------------------------------------------------
(* It holds for what is well formed.  The code goes its own ways with the     *)
(* rest, which Selectors has and nothing is said of here.                     *)

IsString(v) == Kind(v) = "scalar" /\ v = Scalar(v[2])

\* A requirement that a matcher can be made of.
IsRequirement(r) == DOMAIN r = {"key", "op", "values"} /\ r.values \in Seq(Range(r.values))

LabelProper(r) == IsRequirement(r) /\ ~ BadRequirement(r)

\* Labels and annotations are maps of strings, if they are there.
LabelsProper(obj, name) ==
  LET v == Lookup(obj, <<"metadata", name>>)
  IN v = Nothing \/ (Kind(v) = "map" /\ \A k \in DOMAIN v[2] : IsString(v[2][k]))

\* One value, which does not become the one that is found by losing its "/".
FieldProper(r, obj) ==
  LET v == Lookup(obj, r.key)
  IN /\ IsRequirement(r)
     /\ v = Nothing \/ IsString(v)
     /\ \/ r.op \in {"Exists", "DoesNotExist"} /\ r.values = << >>
        \/ /\ r.op \in {"In", "NotIn"} /\ Len(r.values) = 1
           /\ IsString(v) /\ sanitiseValue(v[2]) = sanitiseValue(r.values[1]) => v[2] = r.values[1]

\* No value twice; a list of strings, or none.
SliceProper(r, obj) ==
  LET v == Lookup(obj, r.key)
  IN /\ IsRequirement(r) /\ ~ BadSlice(r)
     /\ \A i, j \in DOMAIN r.values : r.values[i] = r.values[j] => i = j
     /\ \/ v = Nothing
        \/ /\ Kind(v) = "list" /\ v[2] \in Seq(Range(v[2]))
           /\ \A i \in DOMAIN v[2] : IsString(v[2][i])

ReferenceProper(r, obj, reference) ==
  LET its == Lookup(reference, RefPath(r))
      mine == Lookup(obj, r.key)
  IN /\ \/ r.op \in Equalities
        \/ r.op \in DOMAIN Attributes /\ r.refKey = NoPath
     /\ its = Nothing \/ (IsString(its) /\ its[2] # notFoundValue)
     /\ mine = Nothing \/ (IsString(mine) /\ ValidLabelValue(mine[2]))

\* References with one requirement for a key.
TermProper(t, obj, reference) ==
  /\ \A r \in t.fields : FieldProper(r, obj)
  /\ \A r \in t.labels \cup t.annotations : LabelProper(r)
  /\ \A r \in t.slices : SliceProper(r, obj)
  /\ t.references \in Seq(Range(t.references))
  /\ \A r \in Range(t.references) : ReferenceProper(r, obj, reference)
  /\ \A i, j \in DOMAIN t.references : t.references[i].key = t.references[j].key => i = j

ObjectProper(obj) ==
  /\ IsString(Lookup(obj, <<"metadata", "name">>))
  /\ LabelsProper(obj, "labels") /\ LabelsProper(obj, "annotations")

\* A kind that is discovered.
ResourceProper(r, obj, reference) ==
  /\ ~ CannotRegister(Known, r)
  /\ \A q \in r.labels \cup r.annotations : IsRequirement(q)
  /\ r.terms \in Seq(Range(r.terms))
  /\ \A t \in Range(r.terms) \ {NilTerm} : TermProper(t, obj, reference)

\* No kind twice.
ListProper(list, obj, reference) ==
  /\ list \in Seq(Range(list))
  /\ \A i, j \in DOMAIN list : list[i].gvk = list[j].gvk => i = j
  /\ \A r \in Range(list) : ResourceProper(r, obj, reference)

OneVersionEach(list) ==
  \A i, j \in DOMAIN list : GroupKind(list[i].gvk) = GroupKind(list[j].gvk) => i = j
------------------------------------------------------------------------------
\* An attachment is selected exactly if some term states of it what it is:
\* terms are ORed, requirements ANDed, and none select everything; and a
\* controller selects by the resource of the object's kind, where a decorator
\* takes all versions of a kind for one (Evaluation.RunMatch, Selection and
\* decoratorSelector).
SelectsAsStated ==
  ObjectProper(object) /\ ListProper(resources, object, watch) =>
    \A gvk \in Known :
      /\ gvk \in DOMAIN generic <=> \E r \in Range(resources) : r.gvk = gvk
      /\ gvk \in DOMAIN generic =>
           MatchAttachmentAgainstWatch(generic[gvk], object, watch)
             = Answer(\E r \in Range(resources) :
                        /\ r.gvk = gvk /\ ResourceHolds(r, object) /\ NameHolds(r, object)
                        /\ AnyTermHolds(r.terms, object, watch))
      /\ OneVersionEach(resources) =>
           (DecoratorMatches(decorated, gvk, object)
            <=> \E r \in Range(resources) :
                  GroupKind(r.gvk) = GroupKind(gvk) /\ ResourceHolds(r, object))
==============================================================================
