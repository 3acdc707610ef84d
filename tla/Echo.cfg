SPECIFICATION Spec
CONSTANTS
    MAXLINE = 4
    RIO_BUFSIZE = 2
    ShortWrites = TRUE
    Clients = {c1, c2}
    Inputs <- SomeInputs
    None = None
INVARIANTS
    EchoFaithful
    StuckOnlyWhenCut
    OneLineUnderWay
    ServerOutlives
PROPERTIES
    ClientsEnd
\* Client and server may wait for each other, see StuckOnlyWhenCut.
CHECK_DEADLOCK FALSE
