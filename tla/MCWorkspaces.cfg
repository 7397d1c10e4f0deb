SPECIFICATION Spec
CONSTANTS
    r1 = r1
    r2 = r2
    k1 = k1
    k2 = k2
    Requests <- MCRequests
    Keys <- MCKeys
    MaxCourses = 2
    MaxSelections = 3
    MaxVersions = 2
INVARIANTS
    TypeOK
    Startable
    ReceiptsTell
SYMMETRY MCSymmetry
