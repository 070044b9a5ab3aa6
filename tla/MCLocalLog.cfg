\* Two concurrent appenders and one reader on one log, chunks of 2 units,
\* records of 1 or 3 units (3 never fits a chunk), every failure kind.
CONSTANTS
    a1 = a1
    a2 = a2
    r1 = r1
    Appenders <- MCAppenders
    Readers <- MCReaders
    None = None
    ChunkCap = 2
    Sizes = {1, 3}
    MaxBatch = 2
    MaxRecords = 3
    MaxFaults = 1
    FaultKinds = {"write", "last", "upsert", "read", "scan"}
    MaxRecordsLimit = 3
    MaxBunchSize = 2
    Limits = {1, 3}
    StartIds = {0, 2, 4}
    CacheLoadRace = FALSE
    MaxRestarts = 0

SPECIFICATION SafetySpec
INVARIANT TypeOK
INVARIANT CatalogConsistent
INVARIANT QueryResultValid
INVARIANT QueryComplete
INVARIANT AckedIndexed
PROPERTY AppendLogRefined
