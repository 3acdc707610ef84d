SPECIFICATION Small
CONSTANTS
    WordValues = 2
    K = 2
    MaxSamples = 3
    EpsNum = 1
    EpsDen = 4
    Runs = 2
    TickCosts = {0, 2}
    Timers = {"fcyc", "ftimer"}
    TraceLists <- Lists
    Indices = {0, 1}
    Limit = 6
    Alignment = 2
    ByteValues = 2
    SignedChar = TRUE
    Honesty = {TRUE, FALSE}
INVARIANTS
    TypeOK
    RangesExact
    RangesApart
    ReportsRight
    PointersCurrent
    HighWaterMark
    TimingExact
PROPERTIES
    Finishes
\* The program ends.
CHECK_DEADLOCK FALSE
