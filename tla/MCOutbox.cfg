SPECIFICATION FairSpec
CONSTANTS
    k1 = k1
    k2 = k2
    w1 = w1
    w2 = w2
    NoTask = NoTask
    Keys <- MCKeys
    Workers <- MCWorkers
    Unsupported <- MCUnsupported
    MaxAttempts = 3
    BaseRetry = 1
    Lease = 3
    RunBound = 2
    AgeCap = 4
    MaxAbandons = 2
    MaxRecoveries = 2
INVARIANTS
    TypeOK
    ExclusiveHolder
    DeliveryBudget
    VerdictEarned
PROPERTIES
    TerminalIsFinal
    BackoffKept
    
    ImplementsLedger
