CONSTANTS
    o1 = o1
    o2 = o2
    p1 = p1
    i1 = i1
    r1 = r1
    k1 = k1
    v1 = v1
    v2 = v2
    f1 = f1
    None = None
    Owner <- Owners
    Operation <- Operations
    Intent <- Intents
    Outcome <- Outcomes
    Key <- Keys
    Value <- Values
    Path <- Paths
    Published <- Cursors
    TTL = 1
    MaxTime = 1
    MaxEvents = 5
    MaxNotes = 2
SYMMETRY Symmetry
SPECIFICATION Spec
INVARIANTS
    TypeOK
    EpochsAreTenures
    MovedByItsEpoch
    TablesMatchLog
PROPERTIES
    OperationsOnlyAdvance
