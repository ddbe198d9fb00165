SPECIFICATION FairSpec
CONSTANTS
    o1 = o1
    o2 = o2
    None = None
    Owner <- Owners
    Operation <- Operations
    Intent <- Intents
    Outcome = {}
    Command <- Commands
    CommandCount = 1
    TTL = 1
    MaxTime = 1
    MaxGeneration = 2
    MaxUpsets = 3
INVARIANTS
    TakeoverIsSafe
PROPERTIES
    CommandsAreEffects
    TakeoversEnd
CHECK_DEADLOCK FALSE
