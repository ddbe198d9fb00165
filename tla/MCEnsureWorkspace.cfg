CONSTANTS
    p1 = p1
    o1 = o1
    o2 = o2
    i1 = i1
    i2 = i2
    w1 = w1
    w2 = w2
    None = None
    Create = Create
    Owner <- Owners
    Operation <- Operations
    Intent <- Intents
    Outcome = {}
    Worker <- Workers
    TTL = 1
    MaxTime = 1
    MaxGeneration = 2
    MaxPerformed = 2
SPECIFICATION FairSpecAll
INVARIANTS
    FenceHoldsOffTakeover
    EvidenceIsTrue
    OneRealWorkspace
PROPERTIES
    ImplementsEffectOnce
    FenceIsReleased
    ConfigNeverGoesBack
    JournalTellsTheTruth
