SPECIFICATION FairSpec
CONSTANTS
    Units = {a, b}
    Parts = 2
    Interval = 2
    Retry = 1
    Scheduler = scheduler
    Manuals = {m1}
    Clis = {c1}
    MaxFaults = 2
    NoUnit = NoUnit
    Nobody = Nobody
INVARIANTS
    CursorHonest
    RepeatsNeedBreak
    OneOpenRun
PROPERTIES
    RetryRespected
    AlwaysServed
