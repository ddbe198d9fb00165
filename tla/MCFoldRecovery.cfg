SPECIFICATION Spec
CONSTANTS
    Name = {a, b}
    a = a
    b = b
    None = None
    MaxAsks = 3
    MaxFaults = 1
    MaxTrouble = 2
INVARIANTS
    RecordsAreTrue
    RecoveryStaysEnabled
PROPERTIES
    OnlyConfirmedEnd
    FoldsAreKept
