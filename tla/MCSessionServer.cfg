CONSTANTS
    Name = {s1}
    Request = {r1, r2}
    b1 = b1
    b2 = b2
    t1 = t1
    t2 = t2
    Browser = {b1, b2}
    Task = {t1, t2}
    None = None
    Settle = 1
    Uses <- InUse
    MaxIdentity = 2
    MaxEpisodes = 1
    MaxFaults = 1
SPECIFICATION FairSpec
INVARIANTS
    ReadsWhatWasShown
PROPERTIES
    LaunchesAreEffects
    EndsAsAsked
    EventsReachBrowsers
CHECK_DEADLOCK FALSE
