CONSTANTS
    Capacity = 3
    OS_TRACE_MAX_BATCH_RECORDS = 2
    UINT32_MAX = 6
    PopBound = 0
    EmitBound = 6
SPECIFICATION FairRuntimeSpec
INVARIANTS
    AcceptedIsComplete
    CompleteIsAccepted
PROPERTY
    FinishEnds
CHECK_DEADLOCK FALSE
