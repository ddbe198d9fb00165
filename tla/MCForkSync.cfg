SPECIFICATION ForkFairSpec
CONSTANTS
    Tabs = {1, 2, 3}
    Selections = {a, b}
    NoSnapshot = NoSnapshot
    StorageWorks = TRUE
    Scenarios <- BothScenarios
    MaxSequence = 2
    MaxPosted = 1
INVARIANTS
    TabsAgree
PROPERTIES
    NeverBack
    SelectionSpreads
CHECK_DEADLOCK FALSE
