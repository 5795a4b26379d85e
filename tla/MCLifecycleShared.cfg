SPECIFICATION Spec
CONSTANTS
  Client = {c1, c2}
  Venue = {a}
  FirstVenue = a
  Translated = {}
  NUp = 5
  MaxReq = 1
  MaxTok = 1
  Segment = 2
  Kinds = {"w", "x", "sl", "t", "z"}
  Versions = {"keep10", "close"}
  Expects = TRUE
  Policy = FALSE
  MaxAttempts = 3
  PoolCap = 1
  MaxBuffered = 0
  PauseAbove = 1
  StreamCap = 2
  NoClient = NoClient
CHECK_DEADLOCK FALSE
SYMMETRY Symmetric
INVARIANTS ClientsReadTheirReplies RecordedOnce NoOrphan
