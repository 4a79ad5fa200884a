SPECIFICATION Spec
CONSTANTS
  socket = socket
  pipe = pipe
  reader = reader
  writer = writer
  watcher = watcher
  Fd = {socket, pipe}
  Pipe = {pipe}
  RuleId = {reader, writer, watcher}
  Restless = {writer}
  Offered <- ThreeRules
  MaxData <- OneChunk
CHECK_DEADLOCK FALSE
PROPERTIES
  NoCallPastTheEnd
