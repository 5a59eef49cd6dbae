SPECIFICATION FairSpec
CONSTANTS
  p1 = p1
  p2 = p2
  x = x
  y = y
  one = one
  two = two
  both = both
  Orphan = Orphan
  None = None
  Parent = {p1, p2}
  Child = {}
  Revision = {x}
  Label = {one, two, both}
  Selects <- Selectors
  MaxUid = 2
  MaxEdits = 4
CHECK_DEADLOCK FALSE
PROPERTY RevisionsAdopted
