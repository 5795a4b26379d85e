SPECIFICATION Spec
CONSTANTS
  MaxDepth = 3
  MaxNodes = 9
  MaxKeys = 3
  MaxFailovers = 2
  Cases <- MCCases
  Decisions <- MCDecisions
  Venues = {0, 1, 2}
  Translating = {2}
  MaxRead = 1
INVARIANT OptionsRefused
CHECK_DEADLOCK FALSE
