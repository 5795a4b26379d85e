SPECIFICATION Spec
CONSTANTS
  Client = {c1}
  Upstream = {u1}
  Depth = 2
  MaxGen = 1
  MaxBytes = 1
  MaxReads = 1
  MaxPauses = 1
  MaxCq = 1
  FlushFails = TRUE
  DrainFails = TRUE
  None = None
CHECK_DEADLOCK FALSE
INVARIANTS ReadsHeld
