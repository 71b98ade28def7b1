SPECIFICATION LabsSpec
CONSTANTS
    OS_MAX_USER_TASKS = 4
    OS_MAX_TIME_INTERVAL = 1000000
    UINT32_MAX = 99
    UINT64_MAX = 9999999
    Configs = {}
    SleepTicks = {}
    HeapBlocks = 4
    TickBound = 70
    ReclaimBound = 9
    LateBound = 2
INVARIANTS
    RequirementsHold
    NoTickSleptThrough
PROPERTIES
    ImplementsPipeline
    LabsEnd
\* An application that has ended waits in WFI for ever.
CHECK_DEADLOCK FALSE
