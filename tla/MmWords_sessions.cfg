SPECIFICATION Bounded
CONSTANTS
    Base = 64
    MAX_HEAP = 36
    Ids = {0, 1}
    Sizes = {0, 1, 6, 14}
    OutsideWords = {1}
    MaxCalls = 7
INVARIANTS
    PayloadsIntact
PROPERTIES
    BlocksSpec
CHECK_DEADLOCK FALSE
