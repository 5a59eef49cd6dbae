SPECIFICATION Spec
CONSTANTS
  Applier = {"w1", "w2"}
  Watch <- MCWatch
  Resource <- MCResource
  MayUpdateAny = {"w2"}
  Wants <- NotedWants
  Edits <- MCEdits
  MaxEdits = 2
  Sanitised <- MCSanitised
CHECK_DEADLOCK FALSE
INVARIANT CanTakeBack
