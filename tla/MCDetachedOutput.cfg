CONSTANTS
  CwndSize = 1
  CirBufSize = 3
  MaxPacketSize = 1
  MaxStream = 2
  ReadWindow = 1
  ReadSize = 1
  MaxConns = 2
  MaxCrashes = 0
  HandlerLags = FALSE
  StatRaces = FALSE
SPECIFICATION DetachedSpec
CHECK_DEADLOCK FALSE
PROPERTIES DetachedOutputIsBuffered
