CONSTANTS
  MaxDepth = 3
  MaxNodes = 9
  MaxKeys = 3
  CallTail = 5
  TrigTail = 24
  Lead = 2
  MaxObject = 60
  MaxHeld = 2
  MaxTriggers = 2
  MaxMore = 4
  MaxLine = 5
  MaxLines = 3
  MaxConnections = 1
  MaxKeyHeaders = 2
  MaxHead = 3
  MaxFragments = 2
  MaxHeaderLen = 24
  MaxBodyLen = 2
  MaxSizeLine = 3
  MaxSseLine = 2
  MaxEvent = 4
  MaxBlocks = 2
  MaxHeads = 3
  MaxBody = 12
  MaxNoise = 2
  MaxNext = 5
  MaxText = 7
  MaxEvents = 4
  MaxReplies = 2
CONSTANT EventLines <- MCEventLines
CONSTANT AskedLines <- MCHeadLines
CONSTANT Routes <- MCRoutes
CONSTANT Seeds <- MCSeeds
CONSTANT BodyWords <- MCWords
CONSTANT Overrides <- MCOverrides
CONSTANT Venues <- MCVenues
SPECIFICATION Spec
CHECK_DEADLOCK FALSE
INVARIANT TokenScoped
