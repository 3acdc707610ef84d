SPECIFICATION AnyLoaded
CONSTANTS
    Order = 5
    Keys = {1, 2, 3, 4, 5, 6, 7, 8, 9, 10, 11}
    Junk = {0}
    Height = 3
    Loaded = 11
    MaxDeletes = 3
PROPERTIES
    OthersStay
