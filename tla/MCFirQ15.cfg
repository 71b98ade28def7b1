CONSTANTS
    LANE = 4
    ACCUMULATOR = 64
    UINTPTR_MAX = 31
    AYMOS_FIR_Q15_MAX_TAPS = 3
    Inputs <- AllInputs
SPECIFICATION Spec
INVARIANTS
    AcceptsExactly
    OutputsExact
\* A call that has returned does nothing more.
CHECK_DEADLOCK FALSE
