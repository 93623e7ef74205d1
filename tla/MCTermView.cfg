SPECIFICATION Spec
CONSTANTS
  MaxFile = 2
  MinDataForCache = 1
  MaxBytes = 3
  MaxTruncates = 1
  MaxViews = 4
  MaxSaves = 3
CONSTRAINT StillTelling
INVARIANTS TypeOK QuietLoadsAreExact
CHECK_DEADLOCK FALSE
