SPECIFICATION FairSpec
CONSTANTS
  S1 = S1
  S2 = S2
  Sessions = {S1, S2}
  NoSession = NoSession
  Times = {1, 2}
  Cap = 3
  MaxSeq = 3
  MaxItems = 4
  AnyCaller = FALSE
  ClockTies = FALSE
INVARIANTS TypeOK RoomForAll EachOnce DueInTime
PROPERTIES NothingOvertaken Patient EveryInputHandled
CHECK_DEADLOCK FALSE
