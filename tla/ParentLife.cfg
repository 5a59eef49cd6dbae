SPECIFICATION FairSpec
CONSTANTS
  Child = {1, 2}
  MaxUid = 1
  MaxUpsets = 3
  None = None
CHECK_DEADLOCK FALSE
PROPERTIES CleansUp TeardownOrder LeavesNothing Dies
