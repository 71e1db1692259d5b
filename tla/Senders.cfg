CONSTANTS
  None = None  Failed = Failed
  Browsing = Browsing  Page = Page  Tabs = {"t1"}
  MaxChanges = 2  MaxEvents = 2  MaxWakes = 2  MaxUnanswered = 1
  Runtimes = {"p", "q"}  Sessions = {"a", "b"}  First = "p"
  IdsPerSession = 1  SeenSessions = 1
  MaxMessages = 3  MaxLives = 2  MaxDeaths = 1  MaxMoves = 2  Retries = TRUE
  Branches = {"main", "topic"}
  FirstBranch = "main"
  MaxPending = 2
  MaxSeen = 4
  MaxUnread = 1
  MaxFailures = 1
  MaxLate = 1
  MaxLetGo = 2
  MaxRestarts = 1
SPECIFICATION AllSpec
INVARIANTS InOrder LossesAreTold SettledBeliefIsTrue ConsentIsFollowed DeliveredOnceInOrder
PROPERTIES OutagesAreTold
CHECK_DEADLOCK FALSE
