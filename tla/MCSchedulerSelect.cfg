SPECIFICATION Spec
CONSTANTS
    OS_MAX_USER_TASKS = 3
    OS_MAX_TIME_INTERVAL = 3
    UINT32_MAX = 3
    UINT64_MAX = 3
    Tables <- AllTables
INVARIANTS
    BestSoFar
    ScanIsSelect
