\* Liveness of AppendRecords: two appenders contending for the log lock,
\* with every failure an append can meet (readers take no lock and are left
\* out).
CONSTANTS
    a1 = a1
    a2 = a2
    r1 = r1
    Appenders <- MCAppenders
    Readers = {}
    None = None
    ChunkCap = 2
    Sizes = {1, 3}
    MaxBatch = 2
    MaxRecords = 3
    MaxFaults = 1
    FaultKinds = {"write", "last", "upsert"}
    MaxRecordsLimit = 3
    MaxBunchSize = 2
    Limits = {1, 3}
    StartIds = {0, 2, 4}
    CacheLoadRace = FALSE
    MaxRestarts = 1

SPECIFICATION Spec
PROPERTY AppendTerminates
