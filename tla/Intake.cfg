CONSTANTS
  s1 = s1  s2 = s2
  Sessions = {s1}
  Events = {1, 2, 3, 4, 5}
  SessionOf <- OwnerOf
  Tick = Tick
  NoJob = NoJob
  Limit = 2
  IdsPerSession = 5
  SeenSessions = 1
  LossSessions = 1
  Burst = 1
  MaxTickets = 7
  LaneLimit = 6
  MaxArrivals = 5
SPECIFICATION AllSpec
INVARIANTS TypeOK RunsInOrder NoStalledLane NothingVanishes RefusedWasTaken MemoriesOfTwo QuietMeansCaughtUp
PROPERTIES KeepsThePromise
CHECK_DEADLOCK FALSE
