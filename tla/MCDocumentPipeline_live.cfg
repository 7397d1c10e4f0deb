SPECIFICATION FairSpec
CONSTANTS
    d1 = d1
    d2 = d2
    r1 = r1
    NoDoc = NoDoc
    NoTask = NoTask
    Docs <- MCOneDoc
    Hostile <- MCNone
    Malformed <- MCNone
    Legacy <- MCOneDoc
    Outdated <- MCNone
    Interrupted <- MCOneDoc
    Commands <- MCOneCommand
    MaxAttempts = 2
    RetryBudget = 1
    RestartGap = "long"
    MaxCrashes = 1
    MaxLost = 0
    MaxTrash = 0
CHECK_DEADLOCK FALSE
PROPERTIES
    DecisionReached
    
    ClaimsResolve
