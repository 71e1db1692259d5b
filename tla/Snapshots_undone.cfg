SPECIFICATION Spec
CONSTANTS
  Lane = Lane
  Reversers = {r1, r2}
  Connections = 2
  MaxSteps = 3
  MaxLives = 1
  MaxFailures = 0
INVARIANTS
  UndoneStaysUndone
CHECK_DEADLOCK FALSE
