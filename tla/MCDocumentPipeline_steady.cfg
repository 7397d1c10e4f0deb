SPECIFICATION Spec
CONSTANTS
    d1 = d1
    d2 = d2
    r1 = r1
    NoDoc = NoDoc
    NoTask = NoTask
    Docs <- MCDocs
    Hostile <- MCNone
    Malformed <- MCSecond
    Legacy <- MCOneDoc
    Outdated <- MCSecond
    Interrupted <- MCNone
    Commands <- MCOneCommand
    MaxAttempts = 2
    RetryBudget = 1
    RestartGap = "any"
    MaxCrashes = 1
    MaxLost = 1
    MaxTrash = 0
CHECK_DEADLOCK FALSE
INVARIANTS
    NoOrphan

    
