SPECIFICATION FairSpec
CONSTANTS
  Applier = {"w1", "w2"}
  Watch <- MCWatch
  Resource <- MCResource
  MayUpdateAny = {"w2"}
  Wants <- MCWants
  Edits <- MCEdits
  MaxEdits = 3
  Sanitised <- MCSanitised
CHECK_DEADLOCK FALSE
INVARIANTS TypeOK MergesPathByPath CanTakeBack
PROPERTIES Converges
