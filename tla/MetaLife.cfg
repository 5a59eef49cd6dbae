SPECIFICATION FairSpec
CONSTANTS
  mctl = mctl
  one = one
  two = two
  r1 = r1
  r2 = r2
  Children = Children
  Attached = Attached
  None = None
  Meta = {mctl}
  Name = {one, two}
  Owner <- OwnerOf
  Resource = {r1, r2}
  CRSpec = {Children, Attached}
  Versions <- VersionsOf
  InitCRs <- BothExist
  InitObjects = {r1}
  Wants <- WantsOf
  Heard <- HeardOf
  Ticking = {Children}
  MaxChanges = 1
CHECK_DEADLOCK FALSE
INVARIANTS TypeOK SilentOnceRemoved
PROPERTIES KeepsInformers CatchesUp StopEnds
