SPECIFICATION Spec
CONSTANTS
  b1 = b1  b2 = b2
  Blocks = {b1, b2}
  Start = {b1}
  MaxHandlers = 2
  MaxReloads = 1
  MaxPushes = 1
INVARIANTS TypeOK AppliedOnce SettledAgrees
CONSTRAINT StillTelling
CHECK_DEADLOCK FALSE
