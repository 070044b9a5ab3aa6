\* AppendRecords whose client cancels ctx; the catalog database itself never fails.
CONSTANTS
    a1 = a1
    a2 = a2
    r1 = r1
    Appenders <- MCOneAppender
    Readers <- MCReaders
    None = None
    ChunkCap = 2
    Sizes = {1, 3}
    MaxBatch = 2
    MaxRecords = 3
    MaxFaults = 0
    FaultKinds = {}
    MaxRecordsLimit = 3
    MaxBunchSize = 2
    Limits = {1, 3}
    StartIds = {0, 2, 4}
    CacheLoadRace = FALSE
    MaxRestarts = 0

SPECIFICATION Spec
INVARIANT NoPanicOnCancel
