SPECIFICATION WebFairSpec
CONSTANTS
    c1 = c1
    c2 = c2
    h1 = h1
    h2 = h2
    Coins = {c1, c2}
    ByYear <- MCByYear
    Watched = {c1}
    Hosts = {h1, h2}
    Sells <- MCSells
    Visitors = {v1}
    Job = job
    PerRun = 1
    MaxRefusals = 1
PROPERTIES
    WatchedServed
    AloneAnswers
