SPECIFICATION Spec
CONSTANTS
  A = A
  B = B
  c1 = c1
  c2 = c2
  c3 = c3
  Pods = Pods
  None = None
  Version = {A, B}
  Content = {A, B}
  Child = {c1, c2, c3}
  Kind = {Pods}
  KindOf <- AllPods
  Method <- RollInPlace
  Template <- AllDiffer
  Scale <- AllOrNotC2
  InitSpec <- StartAtA
  Reporting = {Pods}
  MaxEdits = 2
  MaxFaults = 1
CONSTRAINTS EditsAndFaults NotAstray
SYMMETRY Alike
INVARIANTS OneAtATime
PROPERTIES RollsOneByOne
