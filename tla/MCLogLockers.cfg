SPECIFICATION Spec
CONSTANTS
    p1 = p1
    p2 = p2
    p3 = p3
    lA = lA
    lB = lB
    lC = lC
    None = None
    Procs <- MCProcs
    Logs <- MCLogs
    MaxLocks = 2
    MaxRequests = 4
INVARIANTS
    TypeOK
    AppendsExclusive
PROPERTIES
    LeaseResolves
