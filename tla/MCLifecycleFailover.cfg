SPECIFICATION Spec
CONSTANTS
  Client = {c1}
  Venue = {a, b}
  FirstVenue = a
  Translated = {}
  NUp = 5
  MaxReq = 3
  MaxTok = 1
  Segment = 1
  Kinds = {"w", "a", "b", "h"}
  Versions = {"keep"}
  Expects = TRUE
  Policy = TRUE
  MaxAttempts = 3
  PoolCap = 2
  MaxBuffered = 0
  PauseAbove = 0
  StreamCap = 0
  NoClient = NoClient
CHECK_DEADLOCK FALSE
INVARIANTS TypeOK AsksBounded PipelineKept Linked PooledFit
PROPERTIES NeverResendAnswered
