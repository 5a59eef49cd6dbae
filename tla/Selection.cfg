SPECIFICATION Spec
CONSTANTS
  Object <- MCObject
  Watch <- MCWatch
  Known <- MCKnown
  ResourceLists <- MCResourceLists
  Sanitised <- MCSanitised
INVARIANTS SelectsAsStated
