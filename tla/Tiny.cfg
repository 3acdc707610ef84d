SPECIFICATION Spec
CONSTANTS
    First = First
    Second = Second
    Clients = {First, Second}
    Scenarios <- SomeScenarios
    Uris <- SomeUris
    Names <- SomeNames
    FilesAtStart <- AtStart
    FilesLater <- Later
    MaxMishaps = 1
    Restless = {First}
    None = None
INVARIANTS
    ChildrenWaitedFor
    OneResponse
    DoneMeansAnswered
    BrokenOffOnlyUnread
    BodyIsTheFile
    ServerLostOnly
PROPERTIES
    EveryoneEnds
\* The server may be lost, see ServerLostOnly.
CHECK_DEADLOCK FALSE
