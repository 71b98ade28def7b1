SPECIFICATION FairSpec
CONSTANTS
    OS_MAX_USER_TASKS = 2
    OS_MAX_TIME_INTERVAL = 9
    UINT32_MAX = 7
    UINT64_MAX = 40
    Configs <- LiveConfigs
    SleepTicks = {1}
    HeapBlocks = 0
    TickBound = 2
    ReclaimBound = 1
PROPERTIES
    ExitsAreReclaimed
    SleepersWake
    RequestsAreServed
\* Time stops at TickBound; a system of idle or finished tasks then stops too.
CHECK_DEADLOCK FALSE
