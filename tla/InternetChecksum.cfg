SPECIFICATION ChecksumSpec
CONSTANTS
  B = 4
  MaxAdded = 16
  MaxPiece = 3
  MaxInitial = 135
INVARIANTS
  ValueIsTheChecksum
  ChecksumVerifies
