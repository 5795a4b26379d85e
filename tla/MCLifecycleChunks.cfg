SPECIFICATION Spec
CONSTANTS
  Client = {c1}
  Venue = {a}
  FirstVenue = a
  Translated = {a}
  NUp = 4
  MaxReq = 2
  MaxTok = 1
  Segment = 2
  Kinds = {"sc", "t", "f"}
  Versions = {"keep"}
  Expects = FALSE
  Policy = FALSE
  MaxAttempts = 3
  PoolCap = 1
  MaxBuffered = 0
  PauseAbove = 0
  StreamCap = 0
  NoClient = NoClient
CHECK_DEADLOCK FALSE
INVARIANTS ChunksFramed
