SPECIFICATION WebFairSpec
CONSTANTS
  MaxChunks = 6
  MaxRead = 2
CHECK_DEADLOCK FALSE
INVARIANTS
  SuccessMeansEverything
PROPERTIES
  WebGetEnds
