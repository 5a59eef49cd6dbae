--------------------------- MODULE SelectionProofs ----------------------------
(* That selectors select what they state, for all constants of Selection:     *)
(* whatever objects there are, and whatever terms and resources controllers   *)
(* are constructed with.  Each kind of requirement, which the code reduces to *)
(* labels and lists, is compared with its reading; terms and resources follow.*)
EXTENDS Selection, FiniteSetTheorems, TLAPS

(* Every set of numbers has a least one.  The rule of induction is stated of  *)
(* a set, since the provers take none with a predicate as its parameter: a    *)
(* number has those below it, which are a finite set.                         *)
LEMMA MinIn ==
  ASSUME NEW S \in SUBSET Nat, S # {}
  PROVE  Min(S) \in S /\ \A x \in S : Min(S) <= x
<1>1. PICK n \in S : TRUE
  OBVIOUS
<1> DEFINE T == {0..k : k \in {j \in 0..n : j \in S}}
           R == StrictSubsetOrdering(0..n)
<1>2. IsWellFoundedOn(R, SUBSET (0..n))
  <2>1. IsFiniteSet(0..n)
    BY FS_Interval
  <2> QED
    BY <2>1, FS_StrictSubsetOrderingWellFounded, FS_FiniteSubsetsOfFinite
<1>3. T \subseteq SUBSET (0..n) /\ T # {}
  <2>1. 0..n \in T
    BY <1>1
  <2>2. \A x \in T : x \subseteq 0..n
    OBVIOUS
  <2> QED
    BY <2>1, <2>2
<1> HIDE DEF R, T
<1>4. PICK x \in T : \A y \in T : <<y, x>> \notin R
  BY <1>2, <1>3, WFMin
<1>5. PICK k \in 0..n : k \in S /\ x = 0..k
  BY <1>4 DEF T
<1>6. ASSUME NEW j \in S, j < k PROVE FALSE
  <2>1. j \in 0..n /\ 0..j \in T
    BY <1>5, <1>6 DEF T
  <2>2. 0..j \subseteq x /\ 0..j # x /\ x \subseteq 0..n
    <3>1. k \in x /\ k \notin 0..j
      BY <1>5, <1>6
    <3>2. 0..j \subseteq x /\ x \subseteq 0..n
      BY <1>5, <1>6
    <3> QED
      BY <3>1, <3>2
  <2>3. <<0..j, x>> \in R
    BY <2>2 DEF R, StrictSubsetOrdering
  <2> QED
    BY <1>4, <2>1, <2>3
<1>7. \A j \in S : k <= j
  BY <1>5, <1>6
<1> QED
  BY <1>5, <1>7 DEF Min

(* The first answer other than the usual one, where there are two of them.    *)
LEMMA FirstOfTwo ==
  ASSUME NEW usual, NEW other, NEW n \in Nat, NEW answers \in [1..n -> {usual, other}]
  PROVE  /\ (\A i \in 1..n : answers[i] = usual) => FirstUnlike(usual, answers) = usual
         /\ (\E i \in 1..n : answers[i] # usual) => FirstUnlike(usual, answers) = other
<1> DEFINE unlike == {i \in DOMAIN answers : answers[i] # usual}
<1>1. DOMAIN answers = 1..n /\ unlike \in SUBSET Nat
  OBVIOUS
<1>2. FirstUnlike(usual, answers) = IF unlike = {} THEN usual ELSE answers[Min(unlike)]
  BY DEF FirstUnlike
<1>3. unlike # {} => Min(unlike) \in unlike
  <2> HIDE DEF unlike
  <2> QED
    BY <1>1, MinIn
<1> QED
  BY <1>1, <1>2, <1>3

-----------------------------------------------------------------------------
(* Paths. *)

(* A path of two or three keys is one step after the other. *)
LEMMA LookupTwo ==
  ASSUME NEW t, NEW a, NEW b
  PROVE  Lookup(t, <<a, b>>) = Enter(Enter(t, a), b)
<1> DEFINE Step(f, n) == IF n = 0 THEN t ELSE Enter(f[n - 1], <<a, b>>[n])
           at[n \in 0 .. 2] == Step(at, n)
           way == [n \in 0 .. 2 |-> IF n = 0 THEN t ELSE IF n = 1 THEN Enter(t, a)
                                    ELSE Enter(Enter(t, a), b)]
<1>1. way = [n \in 0 .. 2 |-> Step(way, n)]
  <2>1. \A n \in 0 .. 2 : way[n] = Step(way, n)
    <3>1. way[0] = t /\ way[1] = Enter(t, a) /\ way[2] = Enter(Enter(t, a), b)
      OBVIOUS
    <3>2. <<a, b>>[1] = a /\ <<a, b>>[2] = b
      OBVIOUS
    <3> HIDE DEF way
    <3>3. \A n \in 0 .. 2 : n = 0 \/ n = 1 \/ n = 2
      OBVIOUS
    <3> QED
      BY <3>1, <3>2, <3>3
  <2> QED
    BY <2>1
<1>2. at = [n \in 0 .. 2 |-> Step(at, n)]
  <2> HIDE DEF way
  <2> DEFINE p(f) == f = [n \in 0 .. 2 |-> Step(f, n)]
  <2>1. p(way)
    BY <1>1
  <2>2. at = CHOOSE f : p(f)
    OBVIOUS
  <2> HIDE DEF p, at
  <2>3. p(at)
    BY <2>1, <2>2, Zenon
  <2> QED
    BY <2>3 DEF p
<1>3. Lookup(t, <<a, b>>) = at[2]
  BY DEF Lookup
<1> HIDE DEF at
<1>4. at[0] = t /\ at[1] = Enter(at[0], a) /\ at[2] = Enter(at[1], b)
  BY <1>2
<1> QED
  BY <1>3, <1>4

LEMMA LookupThree ==
  ASSUME NEW t, NEW a, NEW b, NEW c
  PROVE  Lookup(t, <<a, b, c>>) = Enter(Lookup(t, <<a, b>>), c)
<1> DEFINE Step(f, n) == IF n = 0 THEN t ELSE Enter(f[n - 1], <<a, b, c>>[n])
           at[n \in 0 .. 3] == Step(at, n)
           way == [n \in 0 .. 3 |-> IF n = 0 THEN t ELSE IF n = 1 THEN Enter(t, a)
                                    ELSE IF n = 2 THEN Enter(Enter(t, a), b)
                                    ELSE Enter(Enter(Enter(t, a), b), c)]
<1>1. way = [n \in 0 .. 3 |-> Step(way, n)]
  <2>1. \A n \in 0 .. 3 : way[n] = Step(way, n)
    <3>1. /\ way[0] = t /\ way[1] = Enter(t, a) /\ way[2] = Enter(Enter(t, a), b)
          /\ way[3] = Enter(Enter(Enter(t, a), b), c)
      OBVIOUS
    <3>2. <<a, b, c>>[1] = a /\ <<a, b, c>>[2] = b /\ <<a, b, c>>[3] = c
      OBVIOUS
    <3> HIDE DEF way
    <3>3. \A n \in 0 .. 3 : n = 0 \/ n = 1 \/ n = 2 \/ n = 3
      OBVIOUS
    <3> QED
      BY <3>1, <3>2, <3>3
  <2> QED
    BY <2>1
<1>2. at = [n \in 0 .. 3 |-> Step(at, n)]
  <2> HIDE DEF way
  <2> DEFINE p(f) == f = [n \in 0 .. 3 |-> Step(f, n)]
  <2>1. p(way)
    BY <1>1
  <2>2. at = CHOOSE f : p(f)
    OBVIOUS
  <2> HIDE DEF p, at
  <2>3. p(at)
    BY <2>1, <2>2, Zenon
  <2> QED
    BY <2>3 DEF p
<1>3. Lookup(t, <<a, b, c>>) = at[3]
  BY DEF Lookup
<1> HIDE DEF at
<1>4. at[0] = t /\ at[1] = Enter(at[0], a) /\ at[2] = Enter(at[1], b) /\ at[3] = Enter(at[2], c)
  BY <1>2
<1> QED
  BY <1>3, <1>4, LookupTwo

-----------------------------------------------------------------------------
(* Labels and annotations. *)

(* A scalar is its value; it is neither missing nor broken. *)
LEMMA Scalars ==
  /\ \A x, y : Scalar(x) = Scalar(y) => x = y
  /\ \A x : Scalar(x)[2] = x /\ Kind(Scalar(x)) = "scalar"
  /\ \A x : Scalar(x) # Nothing /\ Scalar(x) # Broken
  /\ Nothing # Broken /\ Kind(Nothing) = "nothing"
BY DEF Scalar, Nothing, Broken, Kind

(* One requirement on a set of labels says what its reading says, if the set *)
(* has the value that the path of the requirement leads to.                  *)
LEMMA OneRequirement ==
  ASSUME NEW r, NEW path, NEW obj, NEW set,
         r.op \in {"In", "NotIn", "Exists", "DoesNotExist"},
         \/ Lookup(obj, path) = Nothing /\ r.key \notin DOMAIN set
         \/ /\ IsString(Lookup(obj, path)) /\ r.key \in DOMAIN set
            /\ Lookup(obj, path) = Scalar(set[r.key])
  PROVE  HasLabel(r, set) <=> RequirementHolds(r, path, obj)
<1> DEFINE v == Lookup(obj, path)
<1>1. v # Nothing <=> r.key \in DOMAIN set
  BY Scalars
<1>2. Has(v, r.values) <=> r.key \in DOMAIN set /\ set[r.key] \in Range(r.values)
  BY Scalars DEF Has
<1> HIDE DEF v
<1>3. CASE r.op = "In"
  BY <1>1, <1>2, <1>3 DEF HasLabel, RequirementHolds, v
<1>4. CASE r.op = "NotIn"
  BY <1>1, <1>2, <1>4 DEF HasLabel, RequirementHolds, v
<1>5. CASE r.op = "Exists"
  BY <1>1, <1>2, <1>5 DEF HasLabel, RequirementHolds, v
<1>6. CASE r.op = "DoesNotExist"
  BY <1>1, <1>2, <1>6 DEF HasLabel, RequirementHolds, v
<1> QED
  BY <1>3, <1>4, <1>5, <1>6

(* A requirement that is not bad has one of the four operators. *)
LEMMA FourOperators ==
  ASSUME NEW r, ~ BadRequirement(r)
  PROVE  r.op \in {"In", "NotIn", "Exists", "DoesNotExist"}
BY DEF BadRequirement

LEMMA LabelsAgree ==
  ASSUME NEW obj, NEW name, LabelsProper(obj, name),
         NEW R, \A r \in R : ~ BadRequirement(r)
  PROVE  LabelMatch(R, LabelsAt(obj, name))
           = Answer(\A r \in R : RequirementHolds(r, <<"metadata", name, r.key>>, obj))
<1> DEFINE v == Lookup(obj, <<"metadata", name>>)
           set == LabelsAt(obj, name)
<1>1. ASSUME NEW r \in R
      PROVE  HasLabel(r, set) <=> RequirementHolds(r, <<"metadata", name, r.key>>, obj)
  <2> DEFINE w == Lookup(obj, <<"metadata", name, r.key>>)
  <2>1. w = Enter(v, r.key)
    BY LookupThree
  <2>2. \/ w = Nothing /\ r.key \notin DOMAIN set
        \/ IsString(w) /\ r.key \in DOMAIN set /\ w = Scalar(set[r.key])
    <3>1. CASE v = Nothing
      <4>1. w = Nothing
        BY <2>1, <3>1 DEF Enter
      <4>2. DOMAIN FieldsOf(v) = {}
        BY <3>1, Scalars DEF FieldsOf
      <4> QED
        BY <4>1, <4>2 DEF LabelsAt
    <3>2. CASE Kind(v) = "map" /\ \A k \in DOMAIN v[2] : IsString(v[2][k])
      <4>1. w = IF r.key \in DOMAIN v[2] THEN v[2][r.key] ELSE Nothing
        BY <2>1, <3>2, Scalars DEF Enter
      <4>2. FieldsOf(v) = v[2]
        BY <3>2 DEF FieldsOf
      <4>3. set = [k \in DOMAIN v[2] |-> v[2][k][2]]
        BY <4>2 DEF LabelsAt
      <4> HIDE DEF v, w, set
      <4> QED
        BY <3>2, <4>1, <4>3 DEF IsString
    <3> QED
      BY <3>1, <3>2 DEF LabelsProper
  <2> HIDE DEF set
  <2> QED
    BY <2>2, FourOperators, OneRequirement
<1>2. ~ \E r \in R : BadRequirement(r)
  OBVIOUS
<1> HIDE DEF set
<1>3. LabelMatch(R, set) = Answer(\A r \in R : HasLabel(r, set))
  BY <1>2 DEF LabelMatch
<1>4. (\A r \in R : HasLabel(r, set))
        <=> \A r \in R : RequirementHolds(r, <<"metadata", name, r.key>>, obj)
  BY <1>1
<1>5. LabelMatch(R, set)
        = Answer(\A r \in R : RequirementHolds(r, <<"metadata", name, r.key>>, obj))
  BY <1>3, <1>4, Zenon DEF Answer
<1> QED
  BY <1>5 DEF set

-----------------------------------------------------------------------------
(* Fields. *)

(* A requirement whose value is sanitised, as sanitiseLabels does. *)
Sane(r) == [r EXCEPT !.values = IF @ = << >> THEN @ ELSE <<sanitiseValue(@[1])>>]

LEMMA SaneFields ==
  ASSUME NEW r, IsRequirement(r)
  PROVE  /\ Sane(r).key = r.key /\ Sane(r).op = r.op
         /\ Sane(r).values = IF r.values = << >> THEN << >> ELSE <<sanitiseValue(r.values[1])>>
BY DEF Sane, IsRequirement

(* What is sanitised is a value that a label may have. *)
LEMMA SanitisedIsValid ==
  ASSUME SelectionAssumption, NEW v
  PROVE  ValidLabelValue(sanitiseValue(v))
BY DEF SelectionAssumption, sanitiseValue, ValidLabelValue

(* A requirement of one value is one of those that a matcher is made of. *)
LEMMA SaneIsGood ==
  ASSUME SelectionAssumption, NEW r, NEW obj, FieldProper(r, obj)
  PROVE  ~ BadRequirement(Sane(r))
<1>1. IsRequirement(r)
  BY DEF FieldProper
<1>2. CASE r.op \in {"Exists", "DoesNotExist"} /\ r.values = << >>
  BY <1>1, <1>2, SaneFields DEF BadRequirement
<1>3. CASE r.op \in {"In", "NotIn"} /\ Len(r.values) = 1
  <2>1. r.values # << >>
    BY <1>3
  <2>2. Sane(r).values = <<sanitiseValue(r.values[1])>> /\ Sane(r).op \in {"In", "NotIn"}
    BY <1>1, <1>3, <2>1, SaneFields
  <2>3. Range(Sane(r).values) = {sanitiseValue(r.values[1])} /\ Sane(r).values # << >>
    BY <2>2 DEF Range
  <2> QED
    BY <2>2, <2>3, SanitisedIsValid DEF BadRequirement
<1> QED
  BY <1>2, <1>3 DEF FieldProper

(* A string, or nothing, is read as it is. *)
LEMMA ReadsStrings ==
  ASSUME NEW t, NEW path, Lookup(t, path) = Nothing \/ IsString(Lookup(t, path))
  PROVE  StringAt(t, path) = Lookup(t, path)
BY Scalars DEF StringAt, AsString, IsString

LEMMA OneField ==
  ASSUME NEW r, NEW obj, NEW set, FieldProper(r, obj),
         r.key \in DOMAIN set <=> Lookup(obj, r.key) # Nothing,
         r.key \in DOMAIN set => set[r.key] = sanitiseValue(Lookup(obj, r.key)[2])
  PROVE  HasLabel(Sane(r), set) <=> RequirementHolds(r, r.key, obj)
<1> DEFINE v == Lookup(obj, r.key)
           q == Sane(r)
<1>1. q.key = r.key /\ q.op = r.op
  BY SaneFields DEF FieldProper
<1>2. CASE r.op = "Exists"
  BY <1>1, <1>2 DEF HasLabel, RequirementHolds
<1>3. CASE r.op = "DoesNotExist"
  BY <1>1, <1>3 DEF HasLabel, RequirementHolds
<1>4. CASE r.op \in {"In", "NotIn"}
  <2> DEFINE x == r.values[1]
  <2>1. Len(r.values) = 1 /\ r.values \in Seq(Range(r.values))
    BY <1>4 DEF FieldProper, IsRequirement
  <2>2. Range(r.values) = {x} /\ r.values # << >>
    BY <2>1 DEF Range
  <2>3. Range(q.values) = {sanitiseValue(x)}
    <3>1. q.values = <<sanitiseValue(x)>>
      BY <2>2, SaneFields DEF FieldProper
    <3> HIDE DEF q
    <3> QED
      BY <3>1 DEF Range
  <2>4. IsString(v) /\ sanitiseValue(v[2]) = sanitiseValue(x) => v[2] = x
    BY <1>4 DEF FieldProper
  <2>5. v = Nothing \/ IsString(v)
    BY DEF FieldProper
  <2>6. Has(v, r.values) <=> v = Scalar(x)
    BY <2>2 DEF Has
  <2> HIDE DEF v, x, q
  <2>7. Has(v, r.values)
          <=> r.key \in DOMAIN set /\ set[r.key] \in Range(q.values)
    <3>1. CASE v = Nothing
      BY <2>6, <3>1, Scalars DEF v
    <3>2. CASE IsString(v)
      <4>1. r.key \in DOMAIN set /\ set[r.key] = sanitiseValue(v[2])
        BY <3>2, Scalars DEF IsString, v
      <4>2. v = Scalar(x) <=> v[2] = x
        BY <3>2, Scalars DEF IsString
      <4> QED
        BY <2>3, <2>4, <2>6, <3>2, <4>1, <4>2
    <3> QED
      BY <2>5, <3>1, <3>2
  <2>8. CASE r.op = "In"
    BY <1>1, <2>7, <2>8 DEF HasLabel, RequirementHolds, v, q
  <2>9. CASE r.op = "NotIn"
    BY <1>1, <2>7, <2>9 DEF HasLabel, RequirementHolds, v, q
  <2> QED
    BY <1>4, <2>8, <2>9
<1> QED
  BY <1>2, <1>3, <1>4 DEF FieldProper

LEMMA FieldsAgree ==
  ASSUME SelectionAssumption, NEW term, NEW obj, \A r \in term.fields : FieldProper(r, obj)
  PROVE  isFieldMatch(term, obj) = Answer(\A r \in term.fields : RequirementHolds(r, r.key, obj))
<1> DEFINE sel == sanitiseLabels(term.fields)
           read == [k \in {r.key : r \in term.fields} |-> StringAt(obj, k)]
           found == {k \in DOMAIN read : read[k] # Nothing}
           set == [k \in found |-> sanitiseValue(read[k][2])]
<1>1. sel = {Sane(r) : r \in term.fields}
  BY DEF sanitiseLabels, Sane
<1>2. ~ \E q \in sel : BadRequirement(q)
  BY <1>1, SaneIsGood
<1>3. ASSUME NEW r \in term.fields
      PROVE  /\ r.key \in DOMAIN read /\ read[r.key] = Lookup(obj, r.key)
             /\ Lookup(obj, r.key) = Nothing \/ IsString(Lookup(obj, r.key))
  BY ReadsStrings DEF FieldProper
<1>4. ~ \E k \in DOMAIN read : read[k] = Broken
  <2>1. \A k \in DOMAIN read : \E r \in term.fields : k = r.key
    OBVIOUS
  <2> HIDE DEF read
  <2> QED
    BY <1>3, <2>1, Scalars DEF IsString
<1>5. ASSUME NEW r \in term.fields
      PROVE  HasLabel(Sane(r), set) <=> RequirementHolds(r, r.key, obj)
  <2>1. /\ r.key \in DOMAIN set <=> Lookup(obj, r.key) # Nothing
        /\ r.key \in DOMAIN set => set[r.key] = sanitiseValue(Lookup(obj, r.key)[2])
    <3> HIDE DEF read
    <3> QED
      BY <1>3
  <2> HIDE DEF set
  <2> QED
    BY <2>1, OneField
<1>6. isFieldMatch(term, obj) = LabelMatch(sel, set)
  BY <1>4 DEF isFieldMatch, FieldMatch
<1> HIDE DEF sel, set
<1>7. LabelMatch(sel, set) = Answer(\A q \in sel : HasLabel(q, set))
  BY <1>2 DEF LabelMatch
<1>8. (\A q \in sel : HasLabel(q, set))
        <=> \A r \in term.fields : RequirementHolds(r, r.key, obj)
  BY <1>1, <1>5
<1> QED
  BY <1>6, <1>7, <1>8, Zenon DEF Answer

-----------------------------------------------------------------------------
(* Lists of strings. *)

(* Two lists of one length, of which the first has no value twice and none    *)
(* that the second has not, have the same values, and none of them twice.     *)
LEMMA SameValues ==
  ASSUME NEW S, NEW T, NEW a \in Seq(S), NEW b \in Seq(T),
         \A i, j \in DOMAIN a : a[i] = a[j] => i = j
  PROVE  Len(b) = Len(a) /\ Range(a) \subseteq Range(b)
           <=> Range(a) = Range(b) /\ Len(b) = Cardinality(Range(b))
<1>1. a \in Bijection(1..Len(a), Range(a))
  <2>1. a \in [1..Len(a) -> Range(a)] /\ DOMAIN a = 1..Len(a)
    BY DEF Range
  <2>2. \A y \in Range(a) : \E i \in 1..Len(a) : a[i] = y
    BY <2>1 DEF Range
  <2>3. \A i, j \in 1..Len(a) : a[i] = a[j] => i = j
    BY <2>1
  <2>4. a \in Injection(1..Len(a), Range(a)) /\ a \in Surjection(1..Len(a), Range(a))
    BY <2>1, <2>2, <2>3 DEF Injection, IsInjective, Surjection
  <2> QED
    BY <2>4 DEF Bijection
<1>2. b \in Surjection(1..Len(b), Range(b))
  <2>1. b \in [1..Len(b) -> Range(b)] /\ DOMAIN b = 1..Len(b)
    BY DEF Range
  <2>2. \A y \in Range(b) : \E i \in 1..Len(b) : b[i] = y
    BY <2>1 DEF Range
  <2> QED
    BY <2>1, <2>2 DEF Surjection
<1>3. /\ IsFiniteSet(1..Len(a)) /\ Cardinality(1..Len(a)) = Len(a)
      /\ IsFiniteSet(1..Len(b)) /\ Cardinality(1..Len(b)) = Len(b)
  <2>1. \A n \in Nat : IsFiniteSet(1..n) /\ Cardinality(1..n) = n
    <3> SUFFICES ASSUME NEW n \in Nat PROVE IsFiniteSet(1..n) /\ Cardinality(1..n) = n
      OBVIOUS
    <3>1. 1 \in Int /\ n \in Int /\ (IF 1 > n THEN 0 ELSE n - 1 + 1) = n
      OBVIOUS
    <3>2. IsFiniteSet(1..n) /\ Cardinality(1..n) = IF 1 > n THEN 0 ELSE n - 1 + 1
      BY <3>1, FS_Interval, Zenon
    <3> QED
      BY <3>1, <3>2
  <2>2. Len(a) \in Nat /\ Len(b) \in Nat
    OBVIOUS
  <2> QED
    BY <2>1, <2>2
<1>4. IsFiniteSet(Range(a)) /\ Cardinality(Range(a)) = Len(a)
  <2>1. ExistsBijection(1..Len(a), Range(a))
    BY <1>1 DEF ExistsBijection
  <2> QED
    BY <1>3, <2>1, FS_Bijection
<1>5. IsFiniteSet(Range(b)) /\ Cardinality(Range(b)) <= Len(b)
  BY <1>2, <1>3, FS_Surjection
<1>6. ASSUME Len(b) = Len(a), Range(a) \subseteq Range(b)
      PROVE  Range(a) = Range(b) /\ Len(b) = Cardinality(Range(b))
  <2>1. Range(a) \in SUBSET Range(b)
    BY <1>6
  <2>2. Cardinality(Range(a)) <= Cardinality(Range(b))
    BY <1>5, <2>1, FS_Subset
  <2>3. Cardinality(Range(b)) \in Nat
    BY <1>5, FS_CardinalityType
  <2>4. Cardinality(Range(b)) = Cardinality(Range(a))
    BY <1>4, <1>5, <1>6, <2>2, <2>3
  <2>5. Range(a) = Range(b)
    BY <1>5, <2>1, <2>4, FS_Subset
  <2> QED
    BY <1>4, <1>6, <2>5
<1>7. ASSUME Range(a) = Range(b), Len(b) = Cardinality(Range(b))
      PROVE  Len(b) = Len(a) /\ Range(a) \subseteq Range(b)
  BY <1>4, <1>7
<1> QED
  BY <1>6, <1>7

(* A list of strings, or nothing, is read as it is. *)
LEMMA ReadsLists ==
  ASSUME NEW t, NEW path,
         LET v == Lookup(t, path)
         IN v = Nothing \/ (Kind(v) = "list" /\ \A i \in DOMAIN v[2] : IsString(v[2][i]))
  PROVE  SliceAt(t, path) = Lookup(t, path) /\ SliceAt(t, path) # Broken
BY Scalars DEF SliceAt, AsStrings, IsString, Broken, Kind

(* The values of the items of a content. *)
ValuesOf(v) == [i \in DOMAIN ItemsOf(v) |-> ItemsOf(v)[i][2]]

LEMMA OneSlice ==
  ASSUME NEW r, NEW obj, SliceProper(r, obj)
  PROVE  MatchSlice(r, ValuesOf(Lookup(obj, r.key))) <=> SliceHolds(r, obj)
<1> DEFINE v == Lookup(obj, r.key)
           items == ItemsOf(v)
           has == {items[i][2] : i \in DOMAIN items}
           same == Range(r.values) = has /\ Len(items) = Cardinality(has)
           b == ValuesOf(v)
<1>1. \E S : items \in Seq(S)
  <2>1. CASE v = Nothing
    <3>1. items = << >>
      BY <2>1, Scalars DEF ItemsOf
    <3> HIDE DEF items
    <3> QED
      BY <3>1
  <2>2. CASE Kind(v) = "list" /\ v[2] \in Seq(Range(v[2]))
    <3>1. items = v[2]
      BY <2>2 DEF ItemsOf
    <3> HIDE DEF items, v
    <3> QED
      BY <2>2, <3>1
  <2> QED
    BY <2>1, <2>2 DEF SliceProper
<1>2. b \in Seq(has) /\ Len(b) = Len(items) /\ Range(b) = has
  <2>1. PICK S : items \in Seq(S)
    BY <1>1
  <2>2. b = [i \in 1..Len(items) |-> items[i][2]] /\ DOMAIN items = 1..Len(items)
    BY <2>1 DEF ValuesOf
  <2> HIDE DEF items, b
  <2>3. Len(items) \in Nat
    BY <2>1
  <2> QED
    BY <2>2, <2>3 DEF Range
<1> HIDE DEF items, has, b, v
<1>3. r.values \in Seq(Range(r.values)) /\ \A i, j \in DOMAIN r.values : r.values[i] = r.values[j] => i = j
  BY DEF SliceProper, IsRequirement
<1>4. equalsObservedValues(r.values, b) <=> same
  BY <1>2, <1>3, SameValues DEF equalsObservedValues, subsetOfObservedValues
<1>5. subsetOfObservedValues(r.values, b) <=> Range(r.values) \subseteq has
  BY <1>2 DEF subsetOfObservedValues
<1>6. r.op \in {"In", "NotIn", "Equals", "NotEquals"}
  BY DEF SliceProper, BadSlice
<1>7. SliceHolds(r, obj) = CASE r.op = "In" -> Range(r.values) \subseteq has
                             [] r.op = "NotIn" -> ~ (Range(r.values) \subseteq has)
                             [] r.op = "Equals" -> same
                             [] r.op = "NotEquals" -> ~ same
  BY DEF SliceHolds, items, has, v
<1> HIDE DEF same
<1>8. MatchSlice(r, b) <=> SliceHolds(r, obj)
  BY <1>4, <1>5, <1>6, <1>7 DEF MatchSlice
<1> QED
  BY <1>8 DEF b, v

LEMMA SlicesAgree ==
  ASSUME NEW term, NEW obj, \A r \in term.slices : SliceProper(r, obj)
  PROVE  isSliceMatch(term, obj) = Answer(\A r \in term.slices : SliceHolds(r, obj))
<1> DEFINE read == [r \in term.slices |-> SliceAt(obj, r.key)]
<1>1. \A r \in term.slices : read[r] = Lookup(obj, r.key) /\ read[r] # Broken
  BY ReadsLists DEF SliceProper
<1> HIDE DEF read
<1>2. ~ \E r \in term.slices : BadSlice(r) \/ read[r] = Broken
  BY <1>1 DEF SliceProper
<1>3. ListMatch(term.slices, read) = Answer(\A r \in term.slices : MatchSlice(r, ValuesOf(read[r])))
  BY <1>2, Zenon DEF ListMatch, ValuesOf
<1>4. (\A r \in term.slices : MatchSlice(r, ValuesOf(read[r])))
        <=> \A r \in term.slices : SliceHolds(r, obj)
  BY <1>1, OneSlice
<1> QED
  BY <1>3, <1>4, Zenon DEF isSliceMatch, Answer, read

-----------------------------------------------------------------------------
(* References. *)

(* The reference's value that is compared, and what the target has. *)
LEMMA ReferenceValues ==
  ASSUME NEW r, NEW obj, NEW reference, ReferenceProper(r, obj, reference)
  PROVE  /\ RefValue(r, reference) = OrEmpty(Lookup(reference, RefPath(r)))
         /\ IsString(RefValue(r, reference)) /\ RefValue(r, reference) # Broken
         /\ RefValue(r, reference)[2] # notFoundValue
         /\ StringAt(obj, r.key) = Lookup(obj, r.key) /\ Lookup(obj, r.key) # Broken
<1> DEFINE its == Lookup(reference, RefPath(r))
           mine == Lookup(obj, r.key)
<1>1. its = Nothing \/ (IsString(its) /\ its[2] # notFoundValue)
  BY DEF ReferenceProper
<1>2. mine = Nothing \/ IsString(mine)
  BY DEF ReferenceProper
<1>3. StringAt(reference, RefPath(r)) = its
  BY <1>1, ReadsStrings
<1>4. RefValue(r, reference) = OrEmpty(its)
  BY <1>3 DEF RefValue, ReferenceProper
<1> HIDE DEF its
<1>5. /\ IsString(OrEmpty(its)) /\ OrEmpty(its) # Broken
      /\ OrEmpty(its)[2] # notFoundValue
  <2>1. CASE its = Nothing
    <3>1. OrEmpty(its) = Scalar("")
      BY <2>1 DEF OrEmpty
    <3> QED
      BY <3>1, Scalars DEF IsString, notFoundValue
  <2>2. CASE its # Nothing
    BY <1>1, <2>2, Scalars DEF OrEmpty, IsString
  <2> QED
    BY <2>1, <2>2
<1>6. StringAt(obj, r.key) = mine /\ mine # Broken
  BY <1>2, ReadsStrings, Scalars DEF IsString
<1> QED
  BY <1>4, <1>5, <1>6 DEF its

LEMMA OneReference ==
  ASSUME SelectionAssumption, NEW r, NEW obj, NEW reference,
         ReferenceProper(r, obj, reference),
         NEW set, r.key \in DOMAIN set, set[r.key] = RefValue(r, reference)[2]
  PROVE  LET T == TargetExpression(r, StringAt(obj, r.key))
         IN ~ BadRequirement(T) /\ (HasLabel(T, set) <=> ReferenceHolds(r, obj, reference))
<1> DEFINE its == Lookup(reference, RefPath(r))
           mine == Lookup(obj, r.key)
           T == TargetExpression(r, mine)
           x == IF mine = Nothing THEN notFoundValue ELSE mine[2]
           same == mine # Nothing /\ mine = IF its = Nothing THEN Scalar("") ELSE its
<1>1. /\ T.key = r.key /\ T.values = <<x>>
      /\ T.op = IF r.op = "NotEquals" THEN "NotIn" ELSE "In"
  BY DEF TargetExpression
<1>2. mine = Nothing \/ (IsString(mine) /\ ValidLabelValue(mine[2]))
  BY DEF ReferenceProper
<1>3. ReferenceHolds(r, obj, reference) <=> (IF r.op = "NotEquals" THEN ~ same ELSE same)
  <2>1. CASE r.op \in Equalities
    <3>1. /\ r.op \notin DOMAIN Attributes
          /\ r.op # "EqualsName" /\ r.op # "EqualsUID" /\ r.op # "EqualsNamespace"
      BY <2>1 DEF Equalities, Attributes
    <3>2. CASE r.refKey = NoPath
      BY <3>1, <3>2 DEF ReferenceHolds, RefPath
    <3>3. CASE r.refKey # NoPath
      BY <3>1, <3>3 DEF ReferenceHolds, RefPath
    <3> QED
      BY <3>2, <3>3
  <2>2. CASE r.op \in DOMAIN Attributes /\ r.refKey = NoPath
    <3>1. DOMAIN Attributes = {"EqualsName", "EqualsUID", "EqualsNamespace"}
      BY DEF Attributes
    <3>2. CASE r.op = "EqualsName"
      <4>1. Attributes["EqualsName"] = <<"metadata", "name">>
        BY DEF Attributes
      <4>2. RefPath(r) = <<"metadata", "name">>
        BY <3>1, <3>2, <4>1 DEF RefPath
      <4> QED
        BY <3>2, <4>2, <2>2 DEF ReferenceHolds
    <3>3. CASE r.op = "EqualsUID"
      <4>1. Attributes["EqualsUID"] = <<"metadata", "uid">>
        BY DEF Attributes
      <4>2. RefPath(r) = <<"metadata", "uid">>
        BY <3>1, <3>3, <4>1 DEF RefPath
      <4> QED
        BY <3>3, <4>2, <2>2 DEF ReferenceHolds
    <3>4. CASE r.op = "EqualsNamespace"
      <4>1. Attributes["EqualsNamespace"] = <<"metadata", "namespace">>
        BY DEF Attributes
      <4>2. RefPath(r) = <<"metadata", "namespace">>
        BY <3>1, <3>4, <4>1 DEF RefPath
      <4> QED
        BY <3>4, <4>2, <2>2 DEF ReferenceHolds
    <3> QED
      BY <2>2, <3>1, <3>2, <3>3, <3>4
  <2> QED
    BY <2>1, <2>2 DEF ReferenceProper
<1>4. same <=> RefValue(r, reference)[2] = x
  <2>1. /\ RefValue(r, reference) = IF its = Nothing THEN Scalar("") ELSE its
        /\ IsString(RefValue(r, reference)) /\ RefValue(r, reference)[2] # notFoundValue
    BY ReferenceValues DEF OrEmpty
  <2> HIDE DEF its, mine
  <2> QED
    BY <1>2, <2>1, Scalars DEF IsString
<1>5. Range(T.values) = {x} /\ T.values # << >>
  BY <1>1 DEF Range
<1>6. ValidLabelValue(x)
  BY <1>2 DEF SelectionAssumption
<1> HIDE DEF T, x, same, its, mine
<1>7. ~ BadRequirement(T)
  BY <1>1, <1>5, <1>6 DEF BadRequirement
<1>8. HasLabel(T, set) <=> ReferenceHolds(r, obj, reference)
  BY <1>1, <1>3, <1>4, <1>5 DEF HasLabel
<1> QED
  BY <1>7, <1>8, ReferenceValues DEF T, mine

LEMMA ReferencesAgree ==
  ASSUME SelectionAssumption, NEW term, NEW obj, NEW reference, reference # Nothing,
         TermProper(term, obj, reference)
  PROVE  isReferenceMatch(term, obj, reference)
           = Answer(\A r \in Range(term.references) : ReferenceHolds(r, obj, reference))
<1> DEFINE refs == term.references
           n == Len(refs)
           its == [i \in DOMAIN refs |-> RefValue(refs[i], reference)]
           mine == [i \in DOMAIN refs |-> StringAt(obj, refs[i].key)]
           set == ReferencePairs(refs, n + 1, its)
           R == {TargetExpression(refs[i], mine[i]) : i \in 1 .. n}
<1>1. n \in Nat /\ DOMAIN refs = 1..n /\ refs \in Seq(Range(refs))
  BY DEF TermProper
<1>2. CASE refs = << >>
  <2>1. Range(refs) = {}
    BY <1>2 DEF Range
  <2> QED
    BY <1>2, <2>1 DEF isReferenceMatch, Answer
<1>3. CASE refs # << >>
  <2>1. \A i \in 1..n : ReferenceProper(refs[i], obj, reference)
    BY <1>1 DEF TermProper, Range
  <2>2. \A i \in 1..n : its[i] # Broken /\ mine[i] # Broken
    BY <1>1, <2>1, ReferenceValues
  <2>3. DOMAIN its = 1..n /\ Len(its) = n
    BY <1>1
  <2>4. WalkEnd(its, mine) = n + 1
    <3> DEFINE S == {i \in DOMAIN its : its[i] = Broken \/ mine[i] = Broken} \cup {Len(its) + 1}
    <3>1. S = {n + 1}
      <4> HIDE DEF its, mine, n
      <4> QED
        BY <2>2, <2>3
    <3>2. Min(S) = n + 1
      <4> HIDE DEF S, n
      <4>1. S \in SUBSET Nat /\ S # {}
        BY <1>1, <3>1
      <4>2. Min(S) \in S
        BY <4>1, MinIn
      <4> QED
        BY <3>1, <4>2
    <3> QED
      BY <3>2 DEF WalkEnd
  <2>5. isReferenceMatch(term, obj, reference) = LabelMatch(R, set)
    <3>1. isReferenceMatch(term, obj, reference) = ReferenceMatch(refs, its, mine)
      BY <1>3 DEF isReferenceMatch
    <3> HIDE DEF its, mine, n
    <3>2. ReferenceMatch(refs, its, mine)
            = LabelMatch({TargetExpression(refs[i], mine[i]) : i \in 1 .. WalkEnd(its, mine) - 1},
                         ReferencePairs(refs, WalkEnd(its, mine), its))
      BY Zenon DEF ReferenceMatch
    <3>3. 1 .. WalkEnd(its, mine) - 1 = 1 .. n
      BY <1>1, <2>4
    <3> QED
      BY <2>4, <3>1, <3>2, <3>3, Zenon
  <2>6. ASSUME NEW i \in 1..n
        PROVE  refs[i].key \in DOMAIN set /\ set[refs[i].key] = its[i][2]
    <3> DEFINE pairs == {j \in DOMAIN refs : j < n + 1 \/ (j = n + 1 /\ its[j] # Broken)}
               on(k) == {j \in pairs : refs[j].key = k}
    <3>1. pairs = 1..n
      BY <1>1
    <3>2. on(refs[i].key) = {i}
      <4>1. \A j \in 1..n : refs[j].key = refs[i].key => j = i
        BY <1>1 DEF TermProper
      <4> HIDE DEF pairs
      <4> QED
        BY <3>1, <4>1
    <3>3. Max({i}) = i
      BY <1>1 DEF Max
    <3>4. set = [k \in {refs[j].key : j \in pairs} |-> its[Max(on(k))][2]]
      BY DEF ReferencePairs
    <3> HIDE DEF pairs, on, set, its, n
    <3>5. refs[i].key \in {refs[j].key : j \in pairs}
      BY <3>1
    <3> QED
      BY <3>2, <3>3, <3>4, <3>5
  <2>7. ASSUME NEW i \in 1..n
        PROVE  /\ ~ BadRequirement(TargetExpression(refs[i], mine[i]))
               /\ HasLabel(TargetExpression(refs[i], mine[i]), set)
                    <=> ReferenceHolds(refs[i], obj, reference)
    <3>1. mine[i] = StringAt(obj, refs[i].key) /\ its[i] = RefValue(refs[i], reference)
      BY <1>1
    <3> HIDE DEF set, its, mine
    <3> QED
      BY <2>1, <2>6, <3>1, OneReference
  <2> HIDE DEF set, its, mine
  <2>8. ~ \E q \in R : BadRequirement(q)
    BY <2>7
  <2>9. (\A q \in R : HasLabel(q, set))
          <=> \A r \in Range(refs) : ReferenceHolds(r, obj, reference)
    <3>1. (\A q \in R : HasLabel(q, set))
            <=> \A i \in 1..n : ReferenceHolds(refs[i], obj, reference)
      BY <2>7
    <3>2. Range(refs) = {refs[i] : i \in 1..n}
      BY <1>1 DEF Range
    <3> QED
      BY <3>1, <3>2
  <2> HIDE DEF R
  <2>10. LabelMatch(R, set) = Answer(\A q \in R : HasLabel(q, set))
    BY <2>8 DEF LabelMatch
  <2> QED
    BY <2>5, <2>9, <2>10, Zenon DEF Answer
<1> QED
  BY <1>2, <1>3

-----------------------------------------------------------------------------
(* Terms and resources. *)

LEMMA Answers ==
  ASSUME NEW b \in BOOLEAN
  PROVE  Answer(b) \in {"yes", "no"} /\ (Answer(b) = "yes" <=> b)
BY DEF Answer

LEMMA TermAgrees ==
  ASSUME SelectionAssumption, NEW term, NEW obj, NEW reference, reference # Nothing,
         ObjectProper(obj), TermProper(term, obj, reference)
  PROVE  TermMatch(term, obj, reference) = Answer(TermHolds(term, obj, reference))
<1> DEFINE fields == \A r \in term.fields : RequirementHolds(r, r.key, obj)
           annotations ==
             \A r \in term.annotations :
               RequirementHolds(r, <<"metadata", "annotations", r.key>>, obj)
           labels ==
             \A r \in term.labels : RequirementHolds(r, <<"metadata", "labels", r.key>>, obj)
           slices == \A r \in term.slices : SliceHolds(r, obj)
           refs == \A r \in Range(term.references) : ReferenceHolds(r, obj, reference)
           answers == <<Answer(fields), Answer(annotations), Answer(labels),
                        Answer(slices), Answer(refs)>>
<1>1. isFieldMatch(term, obj) = Answer(fields)
  BY FieldsAgree DEF TermProper
<1>2. isAnnotationMatch(term, obj) = Answer(annotations)
  BY LabelsAgree DEF TermProper, LabelProper, ObjectProper, isAnnotationMatch
<1>3. isLabelMatch(term, obj) = Answer(labels)
  BY LabelsAgree DEF TermProper, LabelProper, ObjectProper, isLabelMatch
<1>4. isSliceMatch(term, obj) = Answer(slices)
  BY SlicesAgree DEF TermProper
<1>5. isReferenceMatch(term, obj, reference) = Answer(refs)
  BY ReferencesAgree
<1>6. TermHolds(term, obj, reference) <=> fields /\ annotations /\ labels /\ slices /\ refs
  BY DEF TermHolds
<1>7. TermMatch(term, obj, reference) = FirstUnlike("yes", answers)
  <2> HIDE DEF fields, annotations, labels, slices, refs
  <2> QED
    BY <1>1, <1>2, <1>3, <1>4, <1>5, Zenon DEF TermMatch
<1> HIDE DEF fields, annotations, labels, slices, refs
<1>8. /\ answers \in [1..5 -> {"yes", "no"}]
      /\ (\A i \in 1..5 : answers[i] = "yes")
           <=> fields /\ annotations /\ labels /\ slices /\ refs
  <2> DEFINE a == Answer(fields)
             b == Answer(annotations)
             c == Answer(labels)
             d == Answer(slices)
             e == Answer(refs)
  <2>1. /\ a \in {"yes", "no"} /\ (a = "yes" <=> fields)
        /\ b \in {"yes", "no"} /\ (b = "yes" <=> annotations)
        /\ c \in {"yes", "no"} /\ (c = "yes" <=> labels)
        /\ d \in {"yes", "no"} /\ (d = "yes" <=> slices)
        /\ e \in {"yes", "no"} /\ (e = "yes" <=> refs)
    BY Zenon DEF Answer
  <2>2. answers = <<a, b, c, d, e>>
    OBVIOUS
  <2> HIDE DEF a, b, c, d, e, answers
  <2>3. answers \in [1..5 -> {"yes", "no"}]
    BY <2>1, <2>2
  <2>4. \A i \in 1..5 : i = 1 \/ i = 2 \/ i = 3 \/ i = 4 \/ i = 5
    OBVIOUS
  <2>5. answers[1] = a /\ answers[2] = b /\ answers[3] = c /\ answers[4] = d /\ answers[5] = e
    BY <2>2
  <2>6. (\A i \in 1..5 : answers[i] = "yes")
          <=> a = "yes" /\ b = "yes" /\ c = "yes" /\ d = "yes" /\ e = "yes"
    BY <2>4, <2>5
  <2> QED
    BY <2>1, <2>3, <2>6, Zenon
<1> HIDE DEF answers
<1>9. FirstUnlike("yes", answers)
        = IF \A i \in 1..5 : answers[i] = "yes" THEN "yes" ELSE "no"
  <2> DEFINE n == 5
  <2>1. n \in Nat
    OBVIOUS
  <2> HIDE DEF n
  <2>2. answers \in [1..n -> {"yes", "no"}]
    BY <1>8 DEF n
  <2>3. /\ (\A i \in 1..n : answers[i] = "yes") => FirstUnlike("yes", answers) = "yes"
        /\ (\E i \in 1..n : answers[i] # "yes") => FirstUnlike("yes", answers) = "no"
    BY <2>1, <2>2, FirstOfTwo, Zenon
  <2> QED
    BY <2>3, Zenon DEF n
<1> QED
  BY <1>6, <1>7, <1>8, <1>9, Zenon DEF Answer

LEMMA RunAgrees ==
  ASSUME SelectionAssumption, NEW terms, NEW obj, NEW reference, reference # Nothing,
         ObjectProper(obj), terms \in Seq(Range(terms)),
         \A t \in Range(terms) \ {NilTerm} : TermProper(t, obj, reference)
  PROVE  RunMatch(terms, obj, reference) = Answer(AnyTermHolds(terms, obj, reference))
<1>1. CASE terms = << >>
  BY <1>1 DEF RunMatch, AnyTermHolds, Answer
<1>2. CASE terms # << >>
  <2> DEFINE n == Len(terms)
             holds(i) == terms[i] # NilTerm /\ TermHolds(terms[i], obj, reference)
             answers == [i \in DOMAIN terms |->
                           IF terms[i] = NilTerm THEN "no"
                           ELSE TermMatch(terms[i], obj, reference)]
  <2>1. n \in Nat /\ DOMAIN terms = 1..n
    OBVIOUS
  <2>2. ASSUME NEW i \in 1..n
        PROVE  answers[i] = IF holds(i) THEN "yes" ELSE "no"
    <3>1. CASE terms[i] = NilTerm
      BY <2>1, <3>1
    <3>2. CASE terms[i] # NilTerm
      <4>1. TermProper(terms[i], obj, reference)
        BY <2>1, <3>2 DEF Range
      <4>2. TermMatch(terms[i], obj, reference) = Answer(TermHolds(terms[i], obj, reference))
        BY <4>1, TermAgrees
      <4>3. answers[i] = TermMatch(terms[i], obj, reference)
        BY <2>1, <3>2
      <4> HIDE DEF answers
      <4> QED
        BY <3>2, <4>2, <4>3, Zenon DEF Answer
    <3> QED
      BY <3>1, <3>2
  <2>3. RunMatch(terms, obj, reference) = FirstUnlike("no", answers)
    BY <1>2, Zenon DEF RunMatch
  <2>4. DOMAIN answers = 1..n /\ answers = [i \in DOMAIN answers |-> answers[i]]
    BY <2>1
  <2> HIDE DEF answers, n
  <2>5. answers \in [1..n -> {"yes", "no"}]
    BY <2>2, <2>4
  <2> HIDE DEF holds
  <2>6. FirstUnlike("no", answers) = IF \E i \in 1..n : holds(i) THEN "yes" ELSE "no"
    <3>1. /\ (\A i \in 1..n : answers[i] = "no") => FirstUnlike("no", answers) = "no"
          /\ (\E i \in 1..n : answers[i] # "no") => FirstUnlike("no", answers) = "yes"
      <4>1. answers \in [1..n -> {"no", "yes"}]
        BY <2>5
      <4> QED
        BY <2>1, <4>1, FirstOfTwo
    <3> QED
      BY <2>2, <3>1
  <2>7. AnyTermHolds(terms, obj, reference) <=> \E i \in 1..n : holds(i)
    BY <1>2, <2>1 DEF AnyTermHolds, holds
  <2> QED
    BY <2>3, <2>6, <2>7, Zenon DEF Answer
<1> QED
  BY <1>1, <1>2

LEMMA BothAgree ==
  ASSUME NEW r, NEW obj, ObjectProper(obj), ~ CannotRegister(Known, r)
  PROVE  BothMatch(r, obj) <=> ResourceHolds(r, obj)
<1>1. /\ \A q \in r.labels : ~ BadRequirement(q)
      /\ \A q \in r.annotations : ~ BadRequirement(q)
  BY DEF CannotRegister
<1>2. LabelMatch(r.labels, LabelsAt(obj, "labels"))
        = Answer(\A q \in r.labels : RequirementHolds(q, <<"metadata", "labels", q.key>>, obj))
  BY <1>1, LabelsAgree DEF ObjectProper
<1>3. LabelMatch(r.annotations, LabelsAt(obj, "annotations"))
        = Answer(\A q \in r.annotations :
                   RequirementHolds(q, <<"metadata", "annotations", q.key>>, obj))
  BY <1>1, LabelsAgree DEF ObjectProper
<1> QED
  BY <1>2, <1>3, Zenon DEF BothMatch, ResourceHolds, Answer

LEMMA ResourceAgrees ==
  ASSUME SelectionAssumption, NEW r, NEW obj, NEW reference, reference # Nothing,
         ObjectProper(obj), ResourceProper(r, obj, reference)
  PROVE  MatchAttachmentAgainstWatch(r, obj, reference)
           = Answer(/\ ResourceHolds(r, obj) /\ NameHolds(r, obj)
                    /\ AnyTermHolds(r.terms, obj, reference))
<1> DEFINE name == Lookup(obj, <<"metadata", "name">>)
           own == MatchLAN(r, obj)
           any == AnyTermHolds(r.terms, obj, reference)
           answers == <<Answer(any), Answer(own)>>
<1>1. own <=> ResourceHolds(r, obj) /\ NameHolds(r, obj)
  <2>1. name = Scalar(name[2])
    BY DEF ObjectProper, IsString
  <2> HIDE DEF name
  <2>2. NameHolds(r, obj) <=> r.names = {} \/ name[2] \in r.names
    BY <2>1, Scalars DEF NameHolds, name
  <2>3. own <=> BothMatch(r, obj) /\ (r.names = {} \/ name[2] \in r.names)
    BY DEF MatchLAN, name
  <2> QED
    BY <2>2, <2>3, BothAgree DEF ResourceProper
<1>2. MatchAttachmentAgainstWatch(r, obj, reference) = FirstUnlike("yes", answers)
  <2>1. RunMatch(r.terms, obj, reference) = Answer(any)
    BY RunAgrees DEF ResourceProper
  <2> HIDE DEF any, own
  <2> QED
    BY <2>1, Zenon DEF MatchAttachmentAgainstWatch, own
<1> HIDE DEF any, own
<1>3. /\ answers \in [1..2 -> {"yes", "no"}]
      /\ (\A i \in 1..2 : answers[i] = "yes") <=> any /\ own
  <2> DEFINE a == Answer(any)
             b == Answer(own)
  <2>1. /\ a \in {"yes", "no"} /\ (a = "yes" <=> any)
        /\ b \in {"yes", "no"} /\ (b = "yes" <=> own)
    BY Zenon DEF Answer
  <2>2. answers = <<a, b>>
    OBVIOUS
  <2> HIDE DEF a, b, answers
  <2> QED
    BY <2>1, <2>2
<1> HIDE DEF answers
<1>4. FirstUnlike("yes", answers)
        = IF \A i \in 1..2 : answers[i] = "yes" THEN "yes" ELSE "no"
  <2>1. /\ (\A i \in 1..2 : answers[i] = "yes") => FirstUnlike("yes", answers) = "yes"
        /\ (\E i \in 1..2 : answers[i] # "yes") => FirstUnlike("yes", answers) = "no"
    <3>1. 2 \in Nat
      OBVIOUS
    <3>2. answers \in [1..2 -> {"yes", "no"}]
      BY <1>3
    <3> QED
      BY <3>1, <3>2, FirstOfTwo
  <2> QED
    BY <2>1
<1>5. MatchAttachmentAgainstWatch(r, obj, reference) = IF any /\ own THEN "yes" ELSE "no"
  BY <1>2, <1>3, <1>4
<1> DEFINE stated == /\ ResourceHolds(r, obj) /\ NameHolds(r, obj)
                     /\ AnyTermHolds(r.terms, obj, reference)
<1>6. any /\ own <=> stated
  BY <1>1 DEF any
<1> HIDE DEF stated
<1>7. MatchAttachmentAgainstWatch(r, obj, reference) = Answer(stated)
  BY <1>5, <1>6, Zenon DEF Answer
<1> QED
  BY <1>7 DEF stated

-----------------------------------------------------------------------------
(* The selectors of the controllers. *)

(* A GenericController has a selector for each kind of its list, and it is    *)
(* made of the one resource of that kind.                                     *)
LEMMA GenericSelectors ==
  ASSUME NEW list, NEW obj, NEW reference, ListProper(list, obj, reference), NEW gvk
  PROVE  LET selectors == NewSelectorForAttachments(Known, list)
         IN /\ gvk \in DOMAIN selectors <=> \E r \in Range(list) : r.gvk = gvk
            /\ gvk \in DOMAIN selectors =>
                 /\ selectors[gvk] \in Range(list) /\ selectors[gvk].gvk = gvk
                 /\ \A r \in Range(list) : r.gvk = gvk => r = selectors[gvk]
<1> DEFINE selectors == NewSelectorForAttachments(Known, list)
           by == [k \in {r.gvk : r \in Range(list)} |-> CHOOSE r \in Range(list) : r.gvk = k]
<1>1. DOMAIN list = 1..Len(list) /\ Len(list) \in Nat
  BY DEF ListProper
<1>2. \A i \in DOMAIN list : list[i] \in Range(list)
  BY DEF Range
<1>3. \A r \in Range(list) : \E i \in DOMAIN list : r = list[i]
  BY DEF Range
<1>4. \A i, j \in DOMAIN list : list[i].gvk = list[j].gvk => i = j
  BY DEF ListProper
<1>5. \A i \in DOMAIN list : ~ CannotRegister(Known, list[i])
  BY <1>2 DEF ListProper, ResourceProper
<1>6. \A i \in DOMAIN list : \A j \in 1 .. i - 1 : list[j].gvk # list[i].gvk
  <2> SUFFICES ASSUME NEW i \in DOMAIN list, NEW j \in 1 .. i - 1, list[j].gvk = list[i].gvk
               PROVE  FALSE
    OBVIOUS
  <2>1. j \in DOMAIN list /\ j # i
    BY <1>1
  <2> QED
    BY <1>4, <2>1
<1>7. selectors = by
  BY <1>5, <1>6, Zenon DEF NewSelectorForAttachments
<1>8. gvk \in DOMAIN by <=> \E r \in Range(list) : r.gvk = gvk
  OBVIOUS
<1>9. ASSUME gvk \in DOMAIN by
      PROVE  /\ by[gvk] \in Range(list) /\ by[gvk].gvk = gvk
             /\ \A r \in Range(list) : r.gvk = gvk => r = by[gvk]
  <2>1. by[gvk] = CHOOSE r \in Range(list) : r.gvk = gvk
    BY <1>9
  <2>2. \E r \in Range(list) : r.gvk = gvk
    BY <1>8, <1>9
  <2> HIDE DEF by
  <2>3. by[gvk] \in Range(list) /\ by[gvk].gvk = gvk
    BY <2>1, <2>2
  <2>4. \A r, q \in Range(list) : r.gvk = q.gvk => r = q
    BY <1>3, <1>4
  <2> QED
    BY <2>3, <2>4
<1> HIDE DEF by, selectors
<1>10. /\ gvk \in DOMAIN selectors <=> \E r \in Range(list) : r.gvk = gvk
       /\ gvk \in DOMAIN selectors =>
            /\ selectors[gvk] \in Range(list) /\ selectors[gvk].gvk = gvk
            /\ \A r \in Range(list) : r.gvk = gvk => r = selectors[gvk]
  BY <1>7, <1>8, <1>9
<1> QED
  BY <1>10 DEF selectors

(* A DecoratorController has one for each group and kind: that of the only    *)
(* version there is in the list.                                              *)
LEMMA DecoratorSelectors ==
  ASSUME NEW list, NEW obj, NEW reference, ListProper(list, obj, reference),
         OneVersionEach(list), NEW gk
  PROVE  LET selectors == newDecoratorSelector(Known, list)
         IN /\ gk \in DOMAIN selectors <=> \E r \in Range(list) : GroupKind(r.gvk) = gk
            /\ gk \in DOMAIN selectors =>
                 /\ selectors[gk] \in Range(list) /\ GroupKind(selectors[gk].gvk) = gk
                 /\ \A r \in Range(list) : GroupKind(r.gvk) = gk => r = selectors[gk]
<1> DEFINE selectors == newDecoratorSelector(Known, list)
           IsLast(i, k) == /\ GroupKind(list[i].gvk) = k
                           /\ \A j \in i + 1 .. Len(list) : GroupKind(list[j].gvk) # k
           by == [k \in {GroupKind(r.gvk) : r \in Range(list)} |->
                    list[CHOOSE i \in DOMAIN list : IsLast(i, k)]]
<1>1. DOMAIN list = 1..Len(list) /\ Len(list) \in Nat
  BY DEF ListProper
<1>2. \A i \in DOMAIN list : list[i] \in Range(list)
  BY DEF Range
<1>3. \A r \in Range(list) : \E i \in DOMAIN list : r = list[i]
  BY DEF Range
<1>4. \A i, j \in DOMAIN list : GroupKind(list[i].gvk) = GroupKind(list[j].gvk) => i = j
  BY Zenon DEF OneVersionEach
<1>5. \A i \in DOMAIN list : ~ CannotRegister(Known, list[i])
  BY <1>2 DEF ListProper, ResourceProper
<1>6. selectors = by
  BY <1>5, Zenon DEF newDecoratorSelector
<1>7. gk \in DOMAIN by <=> \E r \in Range(list) : GroupKind(r.gvk) = gk
  OBVIOUS
<1>8. ASSUME gk \in DOMAIN by
      PROVE  /\ by[gk] \in Range(list) /\ GroupKind(by[gk].gvk) = gk
             /\ \A r \in Range(list) : GroupKind(r.gvk) = gk => r = by[gk]
  <2> DEFINE last == CHOOSE i \in DOMAIN list : IsLast(i, gk)
  <2>1. by[gk] = list[last]
    BY <1>8
  <2>2. PICK r \in Range(list) : GroupKind(r.gvk) = gk
    BY <1>7, <1>8
  <2>3. PICK i \in DOMAIN list : r = list[i]
    BY <1>3
  <2>4. IsLast(i, gk)
    <3> SUFFICES ASSUME NEW j \in i + 1 .. Len(list), GroupKind(list[j].gvk) = gk PROVE FALSE
      BY <2>2, <2>3
    <3>1. j \in DOMAIN list /\ j # i
      BY <1>1
    <3> QED
      BY <1>4, <2>2, <2>3, <3>1
  <2> HIDE DEF IsLast
  <2>5. last \in DOMAIN list /\ IsLast(last, gk)
    BY <2>4
  <2> HIDE DEF by, last
  <2>6. last \in DOMAIN list /\ GroupKind(list[last].gvk) = gk
    BY <2>5 DEF IsLast
  <2> QED
    BY <1>2, <1>3, <1>4, <2>1, <2>6
<1> HIDE DEF by, selectors
<1>9. /\ gk \in DOMAIN selectors <=> \E r \in Range(list) : GroupKind(r.gvk) = gk
      /\ gk \in DOMAIN selectors =>
           /\ selectors[gk] \in Range(list) /\ GroupKind(selectors[gk].gvk) = gk
           /\ \A r \in Range(list) : GroupKind(r.gvk) = gk => r = selectors[gk]
  BY <1>6, <1>7, <1>8
<1> QED
  BY <1>9 DEF selectors

-----------------------------------------------------------------------------
(* The invariant. *)

(* The selectors are those of the resources the controllers have now, or are *)
(* yet to be made.                                                            *)
SelectInv ==
  /\ watch \in Watch
  /\ \/ resources = << >> /\ generic = << >> /\ decorated = << >>
     \/ /\ generic = NewSelectorForAttachments(Known, resources)
        /\ decorated = newDecoratorSelector(Known, resources)

LEMMA SelectStep ==
  ASSUME SelectInv, [Next]_vars
  PROVE  SelectInv'
<1>1. ASSUME NEW list \in ResourceLists, Construct(list)
      PROVE  SelectInv'
  BY <1>1 DEF Construct, SelectInv
<1>2. CASE Changes
  BY <1>2 DEF Changes, SelectInv
<1>3. CASE UNCHANGED vars
  BY <1>3 DEF vars, SelectInv
<1> QED
  BY <1>1, <1>2, <1>3 DEF Next

(* What a controller answers for an object of a kind is what its resources    *)
(* state.                                                                     *)
LEMMA GenericAgrees ==
  ASSUME SelectionAssumption, SelectInv, ObjectProper(object),
         ListProper(resources, object, watch), NEW gvk \in DOMAIN generic
  PROVE  MatchAttachmentAgainstWatch(generic[gvk], object, watch)
           = Answer(\E r \in Range(resources) :
                      /\ r.gvk = gvk /\ ResourceHolds(r, object) /\ NameHolds(r, object)
                      /\ AnyTermHolds(r.terms, object, watch))
<1> DEFINE states(r) == /\ ResourceHolds(r, object) /\ NameHolds(r, object)
                        /\ AnyTermHolds(r.terms, object, watch)
<1>1. generic = NewSelectorForAttachments(Known, resources)
  BY DEF SelectInv
<1>2. /\ generic[gvk] \in Range(resources) /\ generic[gvk].gvk = gvk
      /\ \A r \in Range(resources) : r.gvk = gvk => r = generic[gvk]
  BY <1>1, GenericSelectors
<1>3. ResourceProper(generic[gvk], object, watch) /\ watch # Nothing
  BY <1>2 DEF ListProper, SelectInv, SelectionAssumption
<1>4. MatchAttachmentAgainstWatch(generic[gvk], object, watch) = Answer(states(generic[gvk]))
  BY <1>3, ResourceAgrees
<1> HIDE DEF states
<1>5. states(generic[gvk]) <=> \E r \in Range(resources) : r.gvk = gvk /\ states(r)
  BY <1>2
<1>6. MatchAttachmentAgainstWatch(generic[gvk], object, watch)
        = Answer(\E r \in Range(resources) : r.gvk = gvk /\ states(r))
  BY <1>4, <1>5, Zenon DEF Answer
<1> QED
  BY <1>6, Zenon DEF states

LEMMA DecoratorAgrees ==
  ASSUME SelectInv, ObjectProper(object), ListProper(resources, object, watch),
         OneVersionEach(resources), NEW gvk
  PROVE  DecoratorMatches(decorated, gvk, object)
           <=> \E r \in Range(resources) :
                 GroupKind(r.gvk) = GroupKind(gvk) /\ ResourceHolds(r, object)
<1> DEFINE gk == GroupKind(gvk)
<1>1. /\ gk \in DOMAIN decorated <=> \E r \in Range(resources) : GroupKind(r.gvk) = gk
      /\ gk \in DOMAIN decorated =>
           /\ decorated[gk] \in Range(resources) /\ GroupKind(decorated[gk].gvk) = gk
           /\ \A r \in Range(resources) : GroupKind(r.gvk) = gk => r = decorated[gk]
  <2>1. CASE resources = << >> /\ decorated = << >>
    BY <2>1 DEF Range
  <2>2. CASE decorated = newDecoratorSelector(Known, resources)
    BY <2>2, DecoratorSelectors
  <2> QED
    BY <2>1, <2>2 DEF SelectInv
<1> HIDE DEF gk
<1>2. gk \in DOMAIN decorated => (BothMatch(decorated[gk], object) <=> ResourceHolds(decorated[gk], object))
  BY <1>1, BothAgree DEF ListProper, ResourceProper
<1>3. DecoratorMatches(decorated, gvk, object)
        <=> gk \in DOMAIN decorated /\ BothMatch(decorated[gk], object)
  BY Zenon DEF DecoratorMatches, gk
<1>4. DecoratorMatches(decorated, gvk, object)
        <=> \E r \in Range(resources) : GroupKind(r.gvk) = gk /\ ResourceHolds(r, object)
  BY <1>1, <1>2, <1>3
<1> QED
  BY <1>4, Zenon DEF gk

(* Whatever a controller is constructed with, an object is selected exactly   *)
(* if the resource of its kind states of it what it is (SelectsAsStated).     *)
THEOREM SelectsWhatIsStated == Spec => []SelectsAsStated
<1>1. Init => SelectInv
  BY DEF Init, SelectInv
<1>2. SelectInv /\ [Next]_vars => SelectInv'
  BY SelectStep
<1>3. SelectInv => SelectsAsStated
  <2> SUFFICES ASSUME SelectInv, ObjectProper(object), ListProper(resources, object, watch),
                      NEW gvk \in Known
               PROVE  /\ gvk \in DOMAIN generic <=> \E r \in Range(resources) : r.gvk = gvk
                      /\ gvk \in DOMAIN generic =>
                           MatchAttachmentAgainstWatch(generic[gvk], object, watch)
                             = Answer(\E r \in Range(resources) :
                                 /\ r.gvk = gvk /\ ResourceHolds(r, object) /\ NameHolds(r, object)
                                 /\ AnyTermHolds(r.terms, object, watch))
                      /\ OneVersionEach(resources) =>
                           (DecoratorMatches(decorated, gvk, object)
                            <=> \E r \in Range(resources) :
                                  GroupKind(r.gvk) = GroupKind(gvk) /\ ResourceHolds(r, object))
    BY Zenon DEF SelectsAsStated
  <2>1. gvk \in DOMAIN generic <=> \E r \in Range(resources) : r.gvk = gvk
    <3>1. CASE resources = << >> /\ generic = << >>
      BY <3>1 DEF Range
    <3>2. CASE generic = NewSelectorForAttachments(Known, resources)
      BY <3>2, GenericSelectors
    <3> QED
      BY <3>1, <3>2 DEF SelectInv
  <2> QED
    BY <2>1, SelectionAssumption, GenericAgrees, DecoratorAgrees
<1> QED
  BY <1>1, <1>2, <1>3, PTL DEF Spec
=============================================================================
