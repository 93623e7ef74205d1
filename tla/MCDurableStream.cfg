CONSTANTS
  CwndSize = 2
  CirBufSize = 2
  MaxPacketSize = 2
  MaxStream = 3
  ReadWindow = 2
  ReadSize = 2
  MaxConns = 2
  MaxCrashes = 1
  HandlerLags = TRUE
  StatRaces = FALSE
SPECIFICATION Spec
CHECK_DEADLOCK FALSE
INVARIANTS TypeOK BytesInOrder Accounted NoOverrun SenderAwake
PROPERTIES DropsOnlyReceived RefinesJobLog
CONSTRAINT TwoUnderWay
