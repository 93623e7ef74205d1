SPECIFICATION Spec
CONSTANTS
  b1 = b1  b2 = b2  b3 = b3
  Blocks = {b1, b2, b3}
  Saved <- SavedTrees
  MaxCreated = 3
  IndexArrs <- At
  Splits <- SomeSplits
  DropSides <- SomeSides
  MaxUnderWay = 2
  MaxGestures = 1
  MaxChildren = 2
INVARIANTS TypeOK IdsUnique NoneLost
PROPERTIES NodesStay
CHECK_DEADLOCK FALSE
