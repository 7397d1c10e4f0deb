SPECIFICATION Spec
CONSTANTS
    t1 = t1
    t2 = t2
    k1 = k1
    k2 = k2
    q1 = q1
    q2 = q2
    Targets <- MCOneTarget
    Keys <- MCKeys
    TargetOf <- MCSame
    Requests <- MCRequests
    Barrier = FALSE
    MaxCrashes = 2
    MaxFaults = 1
CHECK_DEADLOCK FALSE
INVARIANTS
    FailClosed
