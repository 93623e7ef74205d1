SPECIFICATION Spec
CONSTANTS
  A = A
  B = B
  C = C
  Workspaces = {A, B, C}
  Saved = {A}
  FirstTabs <- MCFirstTabs
  Elsewhere = {C}
  MaxTab = 5
  MaxCacheSize = 1
  MaxRequests = 5
  MaxFailures = 1
  Loops = {1, 2}
INVARIANTS TypeOK Serialized QuietAgrees ViewsAccounted
CHECK_DEADLOCK FALSE
