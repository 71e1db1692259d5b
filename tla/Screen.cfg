CONSTANTS
  None = None
  Listed = {"chat", "desk"}
  Other = "other"
  Interval = 2
  MaxWaiting = 2
  MaxShots = 4
  MaxTime = 4
SPECIFICATION AllSpec
INVARIANTS OnePerInterval PicturesAreKept PageIsToldSafely
CHECK_DEADLOCK FALSE
