SPECIFICATION Spec
CONSTANTS
    l1 = l1
    l2 = l2
    l3 = l3
    Logs <- MCLogs
    Sizes = {1, 2}
    MaxRecords = 3
    MaxRecordsLimit = 2
    MaxBunchSize = 2
    MaxLogsToMerge = 2
    Requests <- MCRequests
INVARIANTS
    PagesInOrder
    PagesComplete
PROPERTIES
    PagingTerminates
