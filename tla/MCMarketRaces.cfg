SPECIFICATION RaceSpec
CONSTANTS
    Users = {u1, u2}
    Items = {i1, i2}
    Listings = {l1}
    Offers = {o1, o2}
    Prices = {2}
    AskingPrices = {2}
    FaceValue = 2
    FreeActiveListings = 1
    MaxEvents = 2
    Workers = {w1, w2}
    Idle = Idle
    Nobody = Nobody
    NoItem = NoItem
    NoListing = NoListing
SYMMETRY Symmetry
INVARIANTS
    RealisedOnce
    ClosedLeavesNoAsk
CHECK_DEADLOCK FALSE
