CONSTANTS
    v1 = v1
    v2 = v2
    None = None
    Terminal <- TwoPages
    First = v1
    Budgets <- TwoEvents
SPECIFICATION FairSpec
INVARIANTS
    OneOwner
PROPERTIES
    SizesSettle
    PagesFollow
CHECK_DEADLOCK FALSE
