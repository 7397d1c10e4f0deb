SPECIFICATION Spec
CONSTANTS
    d1 = d1
    d2 = d2
    r1 = r1
    NoDoc = NoDoc
    NoTask = NoTask
    Docs <- MCDocs
    Hostile <- MCSecond
    Malformed <- MCNone
    Legacy <- MCOneDoc
    Outdated <- MCNone
    Interrupted <- MCNone
    Commands <- MCOneCommand
    MaxAttempts = 2
    RetryBudget = 1
    RestartGap = "any"
    MaxCrashes = 1
    MaxLost = 0
    MaxTrash = 1
CHECK_DEADLOCK FALSE
INVARIANTS
    TypeOK
    PublishedIsClean
    
