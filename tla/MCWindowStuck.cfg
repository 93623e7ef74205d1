SPECIFICATION Spec
CONSTANTS
  A = A
  B = B
  C = C
  Workspaces = {A, B, C}
  Saved = {A}
  FirstTabs <- MCFirstTabs
  Elsewhere = {C}
  MaxTab = 5
  MaxCacheSize = 1
  MaxRequests = 3
  MaxFailures = 0
  Loops = {1, 2}
INVARIANT HeadInProcess
CHECK_DEADLOCK FALSE
