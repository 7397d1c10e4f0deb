SPECIFICATION FairSpec
CONSTANTS
    t1 = t1
    t2 = t2
    k1 = k1
    k2 = k2
    q1 = q1
    q2 = q2
    Targets <- MCTargets
    Keys <- MCKeys
    TargetOf <- MCOwn
    Requests <- MCOneRequest
    Barrier = TRUE
    MaxCrashes = 2
    MaxFaults = 3
CHECK_DEADLOCK FALSE
INVARIANTS
    TypeOK
    FileOutlivesRows
    LeftoversJournaled
    CompletedIsGone

    
