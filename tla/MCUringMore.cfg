SPECIFICATION FairSpec
CONSTANTS
  Client = {c1}
  Upstream = {}
  Depth = 2
  MaxGen = 2
  MaxBytes = 4
  MaxReads = 1
  MaxPauses = 2
  MaxCq = 2
  FlushFails = TRUE
  DrainFails = TRUE
  None = None
CHECK_DEADLOCK FALSE
INVARIANTS TypeOK InflightExact DrainedAtEnd PinnedOneSend ReadsHeld
PROPERTIES PinnedStill
