SPECIFICATION FairSpec
CONSTANTS
  Byte = {a, b}
  NoStorage = NoStorage
  Room = 2
  IovMax = 2
  MaxViews = 3
  MaxLen = 2
CHECK_DEADLOCK FALSE
INVARIANTS
  NothingLostNothingTwice
  ResultTellsTruth
PROPERTIES
  WriteEnds
