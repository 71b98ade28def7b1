SPECIFICATION Spec
CONSTANTS
    OS_MAX_USER_TASKS = 2
    OS_MAX_TIME_INTERVAL = 3
    UINT32_MAX = 2
    UINT64_MAX = 5
    Configs <- EdgeConfigs
    SleepTicks = {3}
    HeapBlocks = 2
    TickBound = 6
    ReclaimBound = 2
INVARIANTS
    TypeOK
    KernelInv
    SlotsConsistent
    OnlyTimeRangePanics
    TimePanicsNearTheEnd
PROPERTIES
    ImplementsLifecycle
\* Time stops at TickBound; a system of idle or finished tasks then stops too.
CHECK_DEADLOCK FALSE
