\* One appender, no reader; the catalog upsert may fail once, and the
\* process is started again after the panic.  Chunks of 3 units, so the
\* chunk of the lost write takes the next append.
CONSTANTS
    a1 = a1
    a2 = a2
    r1 = r1
    Appenders <- MCOneAppender
    Readers = {}
    None = None
    ChunkCap = 3
    Sizes = {1}
    MaxBatch = 1
    MaxRecords = 3
    MaxFaults = 1
    FaultKinds = {"upsert"}
    MaxRecordsLimit = 3
    MaxBunchSize = 2
    Limits = {1}
    StartIds = {0}
    CacheLoadRace = FALSE
    MaxRestarts = 1

SPECIFICATION Spec
INVARIANT AckedIndexed
