CONSTANTS
  Sessions = {"a", "b"}
  MaxSessions = 1
  MaxEvents = 3
  MaxLives = 0
  Lane = Lane  Reversers = {"r", "q"}  Connections = 2  MaxSteps = 3  MaxStarts = 2  MaxFailures = 1
SPECIFICATION AllSpec
INVARIANTS RunsKeepApart MemoryAddsUp LogsAgree
PROPERTIES SnapshotsAgree
CHECK_DEADLOCK FALSE
