SPECIFICATION FairSpec
CONSTANTS
    Window = 1
    Queue = 2
    SockCap = 1
    PipeCap = 1
    MaxIn = 2
    MaxOut = 2
    MaxUnits = 2
    Status = {ok}
    Killed = killed
    None = none
INVARIANTS
    RelayIsExact
PROPERTIES
    EndsTogether
CHECK_DEADLOCK FALSE
