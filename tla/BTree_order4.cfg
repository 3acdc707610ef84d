SPECIFICATION SpecCalled
VIEW TreeView
CONSTANTS
    Order = 4
    Keys = {1, 2, 3, 4, 5, 6, 7, 8, 9, 10}
    Junk = {0}
    Height = 3
INVARIANTS
    WellFormed
    SearchAgrees
PROPERTIES
    KeySetSpec
