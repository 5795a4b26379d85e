SPECIFICATION Spec
CONSTANTS
  Client = {c1}
  Venue = {a}
  FirstVenue = a
  Translated = {}
  NUp = 4
  MaxReq = 1
  MaxTok = 1
  Segment = 1
  Kinds = {"w"}
  Versions = {"keep"}
  Expects = TRUE
  Policy = FALSE
  MaxAttempts = 3
  PoolCap = 1
  MaxBuffered = 0
  PauseAbove = 0
  StreamCap = 0
  NoClient = NoClient
CHECK_DEADLOCK FALSE
INVARIANTS EveryRequestRecorded
