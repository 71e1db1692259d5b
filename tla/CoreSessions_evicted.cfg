SPECIFICATION Spec
CONSTANTS
  Sessions = {"a", "b", "c"}
  MaxSessions = 2
  MaxEvents = 3
  MaxLives = 2
INVARIANT NeverInterleaved
CHECK_DEADLOCK FALSE
