SPECIFICATION FairSpec
CONSTANTS
  g = g
  d = d
  a = a
  b = b
  f = f
  i = i
  h = h
  v1 = v1
  v2 = v2
  None = None
  Job = {g, d}
  Decorators = {d}
  Name = {a, b}
  Field = {f, i, h}
  Version = {v1, v2}
  Wants <- WantsOf
  Extra <- ExtraOf
  Method <- MethodOf
  Options <- NoOptions
  Finalizes = {g, d}
  Resyncing = {g}
  First = v1
  Foreign = {a}
  MaxUid = 2
  MaxTrouble = 2
CHECK_DEADLOCK FALSE
INVARIANTS TypeOK
PROPERTIES KeepsOthers EditsSurvive LeavesNothing Settles
