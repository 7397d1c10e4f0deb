SPECIFICATION FairSpec
CONSTANTS
    r1 = r1
    r2 = r2
    k1 = k1
    a = a
    b = b
    c = c
    t = t
    Fresh = Fresh
    Target = t
    Requests <- MCRequests
    Keys <- MCKeys
    Units <- MCUnits
    Edges <- MCEdges
    Histories <- MCHistories
    MaxAttempts = 2
    MaxOutside = 1
    MaxOverlaps = 1
CHECK_DEADLOCK FALSE
INVARIANTS
    TypeOK
    
    DiagnosisSound

    
