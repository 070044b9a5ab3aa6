\* Count exactness: two appenders and a reader that counts, every failure
\* but a failing boundary scan.
CONSTANTS
    a1 = a1
    a2 = a2
    r1 = r1
    Appenders <- MCAppenders
    Readers <- MCReaders
    None = None
    ChunkCap = 2
    Sizes = {1, 3}
    MaxBatch = 2
    MaxRecords = 3
    MaxFaults = 1
    FaultKinds = {"write", "last", "upsert", "read"}
    MaxRecordsLimit = 3
    MaxBunchSize = 2
    Limits = {1, 3}
    StartIds = {0, 1, 2, 4}
    CacheLoadRace = FALSE
    MaxRestarts = 0

SPECIFICATION Spec
INVARIANT CountExact
