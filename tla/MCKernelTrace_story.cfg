SPECIFICATION TracedSpec
CONSTANTS
    OS_MAX_USER_TASKS = 2
    OS_MAX_TIME_INTERVAL = 9
    UINT32_MAX = 7
    UINT64_MAX = 40
    Configs <- TraceConfigs
    SleepTicks = {1}
    HeapBlocks = 1
    TickBound = 2
    ReclaimBound = 1
INVARIANTS
    TraceTellsState
    IntervalsCoverCharges
    RecordsDecode
PROPERTIES
    JobsTold
\* Time stops at TickBound; a system of idle or finished tasks then stops too.
CHECK_DEADLOCK FALSE
