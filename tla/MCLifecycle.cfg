SPECIFICATION FairSpec
CONSTANTS
  Client = {c1}
  Venue = {a, b}
  FirstVenue = a
  Translated = {a}
  NUp = 4
  MaxReq = 2
  MaxTok = 1
  Segment = 2
  Kinds = {"w", "a", "b", "h", "sc", "se", "t", "z", "y", "e", "f"}
  Versions = {"keep"}
  Expects = TRUE
  Policy = TRUE
  MaxAttempts = 3
  PoolCap = 1
  MaxBuffered = 0
  PauseAbove = 0
  StreamCap = 0
  NoClient = NoClient
CHECK_DEADLOCK FALSE
INVARIANTS ClientsReadTheirReplies NoLostWakeup
PROPERTIES NeverResendAnswered RequestsEnd
