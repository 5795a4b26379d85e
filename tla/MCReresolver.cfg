SPECIFICATION FairSpec
CONSTANTS
  NVenue = 2
  Named = {1, 2}
  p = p
  q = q
  Addr <- Addresses
  NoIp = NoIp
  MinWait = 2
  MaxWait = 3
  MaxNow = 2
  MemoryFails = TRUE
CHECK_DEADLOCK FALSE
INVARIANTS OnePlace
PROPERTIES RateLimited AnswerComes ShutdownEnds
