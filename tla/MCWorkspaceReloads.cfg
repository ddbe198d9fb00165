CONSTANTS
    a = a
    b = b
    c = c
    d = d
    w1 = w1
    w2 = w2
    g1 = g1
    g2 = g2
    p1 = p1
    p2 = p2
    Nothing = Nothing
    Session <- Sessions
    LiveAtFirst <- LiveSessions
    Dead <- DeadSessions
    Workspace <- Workspaces2
    Group <- Groups
    Pane <- Panes
    Files <- FilesFound
    MaxTabs = 3
    MaxStoreEdits = 1
SYMMETRY Same
SPECIFICATION StoreSpec
INVARIANTS
    AlwaysReloads
CHECK_DEADLOCK FALSE
