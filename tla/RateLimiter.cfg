SPECIFICATION Spec
CONSTANTS
    p1 = p1
    p2 = p2
    k1 = k1
    k2 = k2
    None = None
    Procs <- MCProcs
    Keys <- MCKeys
    Limit = 2
    Window = 2
    MaxDelay = 1
    MaxTime = 6
    MaxRequests = 7
SYMMETRY Symmetric
INVARIANTS
    TypeOK
    AdmissionsBounded
    TableSwept
PROPERTIES
    RefusalEarned
\* Time and requests run out.
CHECK_DEADLOCK FALSE
