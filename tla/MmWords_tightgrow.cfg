SPECIFICATION Anything
CONSTANTS
    Base = 64
    MAX_HEAP = 36
    Ids = {0, 1}
    Sizes = {1, 6, 8, 10}
    OutsideWords = {1}
    MaxCalls = 7
INVARIANTS
    WalkStaysInHeap
CHECK_DEADLOCK FALSE
