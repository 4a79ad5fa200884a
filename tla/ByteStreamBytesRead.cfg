SPECIFICATION Spec
CONSTANTS
  Byte = {a, b}
  Capacity = 2
  SizeMod = 8
  MaxBytes = 4
  MaxLen = 3
INVARIANTS
  BytesReadIsBytesPopped
