CONSTANTS
  None = None  Returning = Returning  Stuck = Stuck  Failing = Failing
  Absences = {5, 60}
  Shapes = {p, q}
  MaxBumps = 2
  MaxAways = 2
  MaxLooks = 1
  MaxIdles = 1
  MaxRefusals = 1
  MaxAttempts = 2
  MaxClients = 2
  MaxBodies = 3
  Embedded = FALSE
  Strict = FALSE
  MaxNodes = 7
  HistoryLimit = 2
  RedoLimit = 2
  DismissThreshold = 1
  HasStore = TRUE
  MaxWeight = 2
SPECIFICATION AllSpec
INVARIANTS ReportsAddUp BodyIsTheServers StacksFit LessonsBalance
PROPERTIES ReloadRestores
CHECK_DEADLOCK FALSE
