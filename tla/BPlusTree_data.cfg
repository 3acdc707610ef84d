SPECIFICATION SpecCalled
VIEW TreeView
CONSTANTS
    Order = 4
    Keys = {1, 2, 3, 4, 5}
    Info <- OwnInfo
    Unset = 0
INVARIANTS
    DataKept
CHECK_DEADLOCK FALSE
