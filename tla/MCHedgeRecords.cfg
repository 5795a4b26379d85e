SPECIFICATION Spec
CONSTANTS
  Legs = 2
  MaxTokens = 2
CHECK_DEADLOCK FALSE
INVARIANT EveryLegRecorded
