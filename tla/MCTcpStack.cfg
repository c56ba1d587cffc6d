SPECIFICATION FairSpec
CONSTANTS
  Conn = {c1}
  NoConn = NoConn
  SocketSize = 1
  BufferSize = 1
  MaxSockets = 1
INVARIANTS StreamsWhole
PROPERTIES WaitersWoken Served
CHECK_DEADLOCK FALSE
