CONSTANTS
  Limit = 1
  MaxEvents = 5
SPECIFICATION FairSpec
PROPERTY CatchesUp
CHECK_DEADLOCK FALSE
