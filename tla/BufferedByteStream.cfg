SPECIFICATION Spec
CONSTANTS
  Byte = {a, b}
  NoStorage = NoStorage
  Capacity = 2
  SizeMod = 8
  MaxBytes = 4
  MaxLen = 2
  MaxBuffers = 3
INVARIANTS
  OnlyTheFrontIsPartlyRead
  RetainedWithinTwiceCapacity
PROPERTIES
  ImplementsByteStream
