SPECIFICATION ServedLoaded
CONSTANTS
    Order = 5
    Keys = {1, 2, 3, 4, 5, 6, 7, 8, 9, 10, 11, 12, 13, 14, 15, 16, 17, 18, 19, 20, 21, 22}
    Junk = {0}
    Height = 3
    Loaded = 22
    MaxDeletes = 3
INVARIANTS
    WellFormed
PROPERTIES
    OthersStay
