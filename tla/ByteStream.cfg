SPECIFICATION Spec
CONSTANTS
  Byte = {a, b}
  Capacity = 2
  SizeMod = 8
  MaxBytes = 5
  MaxLen = 3
SYMMETRY ByteSymmetry
INVARIANTS
  TypeOK
  WithinCapacity
  StreamOrder
  Accounting
  ReadReturnsTheSlice
