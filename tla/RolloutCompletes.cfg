SPECIFICATION EventSpec
CONSTANTS
  A = A
  B = B
  c1 = c1
  c2 = c2
  c3 = c3
  Pods = Pods
  None = None
  Version = {A, B}
  Content = {A, B}
  Child = {c1, c2}
  Kind = {Pods}
  KindOf <- AllPods
  Method <- RollInPlace
  Template <- AllDiffer
  Scale <- AllChildren
  InitSpec <- StartAtA
  Reporting = {Pods}
  MaxEdits = 2
  MaxFaults = 1
ACTION_CONSTRAINT InTurn
INVARIANTS TypeOK CommittedBeforeActing
PROPERTIES NeverUnclaimed LatestWins StatusTruth RolloutGoesOn
