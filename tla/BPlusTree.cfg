SPECIFICATION SpecCalled
VIEW TreeView
CONSTANTS
    Order = 4
    Keys = {1, 2, 3, 4, 5, 6, 7, 8, 9, 10}
    Info <- OneInfo
    Unset = 0
INVARIANTS
    WellFormed
    SeparatorsExact
    ChainExact
PROPERTIES
    KeySetSpec
    LostOnlyWhenEmpty
\* A root that points anywhere ends the model.
CHECK_DEADLOCK FALSE
