CONSTANTS
  None = None
  AugmentKinds = {returning, stuck}
  IncidentKinds = {failure}
  HistoryLimit = 2
  RedoLimit = 2
  DismissThreshold = 1
  MaxWeight = 1
  HasStore = FALSE
  MaxNodes = 7
SPECIFICATION Spec
INVARIANT StaleClickIsHarmless
CHECK_DEADLOCK FALSE
