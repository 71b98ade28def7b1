SPECIFICATION Spec
CONSTANTS
    OS_MAX_USER_TASKS = 2
    OS_MAX_TIME_INTERVAL = 9
    UINT32_MAX = 7
    UINT64_MAX = 40
    Configs <- MixedConfigs
    SleepTicks = {1}
    HeapBlocks = 0
    TickBound = 4
    ReclaimBound = 1
INVARIANTS
    SwitchPromised
    NothingOverdue
    JobsConserved
    MissLatchedInTime
    TicksChargedOnce
PROPERTIES
    ReleasesKeepPhase
\* Time stops at TickBound; a system of idle or finished tasks then stops too.
CHECK_DEADLOCK FALSE
