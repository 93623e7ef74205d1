CONSTANTS
  MaxSize = 4
  MaxChunk = 3
  MaxStream = 10
SPECIFICATION Spec
INVARIANTS TypeOK RingHoldsTail NoLostWakeup AsyncWithinWindow
PROPERTIES HeadMonotone RefinesTailBuffer
