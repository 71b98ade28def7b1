CONSTANTS
    Capacity = 3
    OS_TRACE_MAX_BATCH_RECORDS = 4
    UINT32_MAX = 8
    PopBound = 4
SPECIFICATION Spec
INVARIANTS
    BatchesWhole
    AttemptsAccounted
    ReportsExact
PROPERTIES
    ImplementsLog
