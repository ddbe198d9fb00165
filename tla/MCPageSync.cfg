SPECIFICATION FairSpec
CONSTANTS
    Page = {1, 2}
    Tab = {a, b, c}
    Live = {a, b}
    Saved = {a}
    None = none
    Conflict = conflict
    MaxEdits = 2
    MaxUpsets = 1
INVARIANTS
    NoObsoleteName
PROPERTIES
    OnlyTouchedTabsChange
    RecordsMoveForward
    PagesSettle
CHECK_DEADLOCK FALSE
