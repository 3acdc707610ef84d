SPECIFICATION Spec
CONSTANTS
    Base = 64
    MAX_HEAP = 44
    a = a
    b = b
    c = c
    Ids <- MCIds
    Sizes <- MCSizes
SYMMETRY MCSymmetry
INVARIANTS
    TypeOK
    HeapWellFormed
    PayloadsHeld
    FreedHeapIsWhole
PROPERTIES
    PromiseSpec
