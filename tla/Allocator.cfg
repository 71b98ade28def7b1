CONSTANTS
    Owners = {1, 2}
    Sizes = {1, 2, 3, 6}
    OS_MEMORY_ALIGNMENT = 2
    BLOCK_SIZE = 2
    ArenaBegin = 3
    ArenaEnd = 25
SPECIFICATION Spec
INVARIANTS
    AlwaysValid
    FullyCoalesced
PROPERTIES
    ImplementsMemory
