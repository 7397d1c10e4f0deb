SPECIFICATION Spec
CONSTANTS
    r1 = r1
    r2 = r2
    k1 = k1
    k2 = k2
    k3 = k3
    t1 = t1
    t2 = t2
    t3 = t3
    c1 = c1
    c2 = c2
    c3 = c3
    NoOne = NoOne
    Requests <- MCTwo
    RecoveryKeys <- MCCommands
    Sends <- MCSends
    RetryBudget = 1
CHECK_DEADLOCK FALSE
INVARIANTS
    TypeOK
    AnswersStand
    ResultTellsTruth
    BudgetOverrun
    LocksOwned
SYMMETRY MCSymmetry
