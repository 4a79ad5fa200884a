SPECIFICATION Spec
CONSTANTS
  Handle = {h1, h2, h3}
  None = None
  MaxFd = 1
  MaxFiles = 3
  CountMod = 2
  MaxWritev = 2
SYMMETRY HandleSymmetry
CHECK_DEADLOCK FALSE
INVARIANTS
  TypeOK
  LiveWhileReferenced
  NoLeak
  OpenWhileReferenced
  OwnFileOnly
