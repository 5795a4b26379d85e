SPECIFICATION FairSpec
CONSTANTS
  Legs = 3
  MaxTokens = 2
CHECK_DEADLOCK FALSE
INVARIANT OneServes
INVARIANT LegsSettled
INVARIANT LegsRecorded
PROPERTY WaitEnds
