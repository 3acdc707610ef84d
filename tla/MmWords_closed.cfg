SPECIFICATION Unbounded
CONSTANTS
    Base = 64
    MAX_HEAP = 24
    Ids = {0, 1}
    Sizes = {0, 1, 10}
    OutsideWords = {1}
    MaxCalls = 0
INVARIANTS
    MemorySound
    FreeListExact
    FailsOnlyWhenFull
