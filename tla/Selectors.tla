------------------------------ MODULE Selectors -------------------------------
(* Which objects a controller acts on.  A term of an advanced selector holds  *)
(* requirements on fields, annotations, labels, lists and on what a second    *)
(* object, the reference, has in its fields; they are reduced to the label    *)
(* selectors of Kubernetes.  A GenericController and a DecoratorController    *)
(* keep one selector per kind of their resources.  An answer is "yes", "no"   *)
(* or "error".                                                                *)
EXTENDS Trees

CONSTANT Sanitised  \* the values with a "/", with what stands for each of them

\* A selector term that is nil, and a path that is not given.
NilTerm == << >>
NoPath == << >>

\* A value no object should have, instead of one that is missing.
notFoundValue == "some-value-that-should-never-be-used"

\* A label value holds no "/".  Other values that no label may have, by their
\* characters or their length, are not among the values of this model.
ValidLabelValue(v) == v \notin DOMAIN Sanitised

Answer(b) == IF b THEN "yes" ELSE "no"

(* Label selectors: sets of requirements [key, op, values].                   *)

BadRequirement(r) ==
  CASE r.op \in {"In", "NotIn"} ->
         r.values = << >> \/ ~ \A v \in Range(r.values) : ValidLabelValue(v)
    [] r.op \in {"Exists", "DoesNotExist"} -> r.values # << >>
    [] OTHER -> TRUE

HasLabel(r, set) ==
  LET has == r.key \in DOMAIN set
  IN CASE r.op = "In" -> has /\ set[r.key] \in Range(r.values)
       [] r.op = "NotIn" -> has => set[r.key] \notin Range(r.values)
       [] r.op = "Exists" -> has
       [] r.op = "DoesNotExist" -> ~ has

\* LabelSelectorAsSelector and Matches: no requirement selects everything.
LabelMatch(requirements, set) ==
  IF \E r \in requirements : BadRequirement(r) THEN "error"
  ELSE Answer(\A r \in requirements : HasLabel(r, set))

\* The labels or the annotations of an object, as a set of labels.
LabelsAt(obj, name) ==
  LET f == FieldsOf(Lookup(obj, <<"metadata", name>>))
  IN [k \in DOMAIN f |-> f[k][2]]

(* Fields: a label selector on the strings found at the keys.                 *)

sanitiseValue(v) == IF v \in DOMAIN Sanitised THEN Sanitised[v] ELSE v

\* Only the first value of a requirement is used.
sanitiseLabels(requirements) ==
  {[r EXCEPT !.values = IF @ = << >> THEN @ ELSE <<sanitiseValue(@[1])>>] :
     r \in requirements}

FieldMatch(sel, read) ==
  LET found == {k \in DOMAIN read : read[k] # Nothing}
  IN IF \E k \in DOMAIN read : read[k] = Broken THEN "error"
     ELSE LabelMatch(sel, [k \in found |-> sanitiseValue(read[k][2])])

isFieldMatch(term, target) ==
  FieldMatch(sanitiseLabels(term.fields),
             [k \in {r.key : r \in term.fields} |-> StringAt(target, k)])

(* Lists of strings.                                                          *)

\* A requirement that no matcher can be made of.
BadSlice(r) ==
  \/ r.op \notin {"In", "NotIn", "Equals", "NotEquals"}
  \/ r.values = << >>
  \/ \E v \in Range(r.values) : ~ ValidLabelValue(v)

subsetOfObservedValues(desired, observed) == Range(desired) \subseteq Range(observed)

equalsObservedValues(desired, observed) ==
  Len(observed) = Len(desired) /\ subsetOfObservedValues(desired, observed)

\* SliceMatcher.Match, with the key always there.
MatchSlice(r, observed) ==
  CASE r.op = "In" -> subsetOfObservedValues(r.values, observed)
    [] r.op = "NotIn" -> ~ subsetOfObservedValues(r.values, observed)
    [] r.op = "Equals" -> equalsObservedValues(r.values, observed)
    [] r.op = "NotEquals" -> ~ equalsObservedValues(r.values, observed)

\* A list that is not found counts as an empty one, and its key as there.
ListMatch(slices, read) ==
  LET observed(r) == [i \in DOMAIN ItemsOf(read[r]) |-> ItemsOf(read[r])[i][2]]
  IN IF \E r \in slices : BadSlice(r) \/ read[r] = Broken THEN "error"
     ELSE Answer(\A r \in slices : MatchSlice(r, observed(r)))

isSliceMatch(term, target) ==
  ListMatch(term.slices, [r \in term.slices |-> SliceAt(target, r.key)])

(* References: a sequence of requirements [key, op, refKey], those of         *)
(* MatchReference, which are equalities of one path, behind the expressions.  *)

Equalities == {"Equals", "NotEquals", ""}
Attributes == [EqualsName |-> <<"metadata", "name">>,
               EqualsUID |-> <<"metadata", "uid">>,
               EqualsNamespace |-> <<"metadata", "namespace">>]

\* The value of the reference that a requirement speaks of; Broken where the
\* requirement is an error.  One that is missing is the empty string.
OrEmpty(v) == IF v = Nothing THEN Scalar("") ELSE v

RefPath(r) ==
  IF r.op \in DOMAIN Attributes THEN Attributes[r.op]
  ELSE IF r.refKey = NoPath THEN r.key ELSE r.refKey

RefValue(r, reference) ==
  IF r.op \in Equalities \/ (r.op \in DOMAIN Attributes /\ r.refKey = NoPath)
  THEN OrEmpty(StringAt(reference, RefPath(r)))
  ELSE Broken

\* A mutant of TargetExpression: what is missing counts as the empty string.
EmptyIfMissing(r, v) ==
  [key |-> r.key,
   op |-> IF r.op = "NotEquals" THEN "NotIn" ELSE "In",
   values |-> <<IF v = Nothing THEN "" ELSE v[2]>>]

\* The value v of the target, as a label requirement under its key.
TargetExpression(r, v) ==
  [key |-> r.key,
   op |-> IF r.op = "NotEquals" THEN "NotIn" ELSE "In",
   values |-> <<IF v = Nothing THEN notFoundValue ELSE v[2]>>]

\* The first requirement that is an error ends the walk over all of them: its
\* place, given what the reference and the target have for each.
WalkEnd(its, mine) ==
  Min({i \in DOMAIN its : its[i] = Broken \/ mine[i] = Broken} \cup {Len(its) + 1})

\* The values of the reference become labels, each under the key of the target;
\* the last of several requirements on one key gives the value.
ReferencePairs(refs, end, its) ==
  LET pairs == {i \in DOMAIN refs : i < end \/ (i = end /\ its[i] # Broken)}
  IN [k \in {refs[i].key : i \in pairs} |-> its[Max({i \in pairs : refs[i].key = k})][2]]

\* The error that ended the walk is not looked at: the match is made with what
\* was gathered before it.
ReferenceMatch(refs, its, mine) ==
  LET end == WalkEnd(its, mine)
  IN LabelMatch({TargetExpression(refs[i], mine[i]) : i \in 1 .. end - 1},
                ReferencePairs(refs, end, its))

isReferenceMatch(term, target, reference) ==
  LET refs == term.references
  IN IF refs = << >> THEN "yes"
     ELSE IF reference = Nothing THEN "error"
     ELSE ReferenceMatch(refs, [i \in DOMAIN refs |-> RefValue(refs[i], reference)],
                         [i \in DOMAIN refs |-> StringAt(target, refs[i].key)])

isAnnotationMatch(term, target) == LabelMatch(term.annotations, LabelsAt(target, "annotations"))
isLabelMatch(term, target) == LabelMatch(term.labels, LabelsAt(target, "labels"))

(* Terms are ORed, what a term holds is ANDed, in this order.                 *)

\* The first answer other than the usual one ends the evaluation.
FirstUnlike(usual, answers) ==
  LET unlike == {i \in DOMAIN answers : answers[i] # usual}
  IN IF unlike = {} THEN usual ELSE answers[Min(unlike)]

TermMatch(term, target, reference) ==
  FirstUnlike("yes", <<isFieldMatch(term, target),
                       isAnnotationMatch(term, target),
                       isLabelMatch(term, target),
                       isSliceMatch(term, target),
                       isReferenceMatch(term, target, reference)>>)

RunMatch(terms, target, reference) ==
  IF terms = << >> THEN "yes"
  ELSE FirstUnlike("no", [i \in DOMAIN terms |->
                            IF terms[i] = NilTerm THEN "no"
                            ELSE TermMatch(terms[i], target, reference)])

(* One selector per kind of a controller's resources.  A resource is a        *)
(* record with gvk, its group, version and kind, and what it is selected by:  *)
(* labels, annotations, and for a GenericController names and terms.          *)

GroupKind(gvk) == <<gvk[1], gvk[3]>>

CannotRegister(known, r) ==
  \/ r.gvk \notin known
  \/ \E req \in r.labels \cup r.annotations : BadRequirement(req)

\* The selectors of a GenericController, by group, version and kind: none at
\* all if a resource cannot be registered or is there twice.
NewSelectorForAttachments(known, resources) ==
  LET fails(i) == \/ CannotRegister(known, resources[i])
                  \/ \E j \in 1 .. i - 1 : resources[j].gvk = resources[i].gvk
  IN IF \E i \in DOMAIN resources : fails(i) THEN << >>
     ELSE [gvk \in {r.gvk : r \in Range(resources)} |->
             CHOOSE r \in Range(resources) : r.gvk = gvk]

\* Those of a DecoratorController go by group and kind: of several versions
\* of one kind, the last one is selected by.
newDecoratorSelector(known, resources) ==
  IF \E i \in DOMAIN resources : CannotRegister(known, resources[i]) THEN << >>
  ELSE [gk \in {GroupKind(r.gvk) : r \in Range(resources)} |->
          LET last == CHOOSE i \in DOMAIN resources :
                        /\ GroupKind(resources[i].gvk) = gk
                        /\ \A j \in i + 1 .. Len(resources) :
                             GroupKind(resources[j].gvk) # gk
          IN resources[last]]

BothMatch(r, obj) ==
  /\ LabelMatch(r.labels, LabelsAt(obj, "labels")) = "yes"
  /\ LabelMatch(r.annotations, LabelsAt(obj, "annotations")) = "yes"

DecoratorMatches(selectors, gvk, obj) ==
  GroupKind(gvk) \in DOMAIN selectors /\ BothMatch(selectors[GroupKind(gvk)], obj)

MatchLAN(r, obj) ==
  LET name == Lookup(obj, <<"metadata", "name">>)[2]
  IN BothMatch(r, obj) /\ (r.names = {} \/ name \in r.names)

\* Whether an attachment belongs to a watch, by the selectors r of its kind.
MatchAttachmentAgainstWatch(r, attachment, watch) ==
  FirstUnlike("yes", <<RunMatch(r.terms, attachment, watch), Answer(MatchLAN(r, attachment))>>)
==============================================================================
