SPECIFICATION MCSpec
CONSTANTS
    Listings = {l1, l2}
    Searches = {market, hot}
    MaxFailures = 2
    Nothing = Nothing
    Runs = {r1, r2, r3}
    Jobs = {market, check}
    Checks = check
    Budget = 2
    MaxWork = 1
PROPERTIES
    DroppedForGood
    QueueDrains
    BudgetKept
