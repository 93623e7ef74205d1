CONSTANTS
  CwndSize = 1
  CirBufSize = 2
  MaxPacketSize = 2
  MaxStream = 2
  ReadWindow = 1
  ReadSize = 1
  MaxConns = 2
  MaxCrashes = 0
  HandlerLags = FALSE
  StatRaces = TRUE
SPECIFICATION FairSpec
CHECK_DEADLOCK FALSE
INVARIANTS NoSilentDiscard
PROPERTIES EveryByteStored EndIsSeen
CONSTRAINT TwoUnderWay
