SPECIFICATION FairSpec
CONSTANTS
  p1 = p1
  p2 = p2
  x = x
  y = y
  one = one
  two = two
  both = both
  Orphan = Orphan
  None = None
  Parent = {p1, p2}
  Child = {x}
  Revision = {y}
  Label = {one, both}
  Selects <- Nested
  MaxUid = 2
  MaxEdits = 4
CHECK_DEADLOCK FALSE
INVARIANTS TypeOK ExclusiveClaims
PROPERTIES DoomedNeverAdopts TouchesWhatItListed OwnershipHolds Settles
