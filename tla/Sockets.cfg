SPECIFICATION Spec
CONSTANTS
  Peer = {p1, p2}
  Client = {c1, c2}
  None = None
  Mtu = 1
  Sizes = {0, 1, 2}
  MaxRcv = 2
  Backlog = 2
  FdLimit = 3
CHECK_DEADLOCK FALSE
INVARIANTS
  TypeOK
  ReceivedAsSent
  AnswersGoToTheSender
PROPERTIES
  WaitingIsAccepted
