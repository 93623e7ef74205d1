CONSTANTS
    Scopes = {x, y}
    AllScopes = all
    MaxConns = 2
    MaxChanges = 2
    MaxTries = 1
SPECIFICATION FairSpec
INVARIANTS TypeOK QuietRoute QuietSubs
PROPERTIES BecomesReachable
CHECK_DEADLOCK FALSE
