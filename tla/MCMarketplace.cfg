SPECIFICATION Spec
CONSTANTS
    Users = {u1, u2}
    Items = {i1, i2}
    Listings = {l1, l2}
    Offers = {o1, o2}
    Prices = {1, 2}
    AskingPrices = {2}
    FaceValue = 2
    FreeActiveListings = 1
    MaxEvents = 2
    Nobody = Nobody
    NoItem = NoItem
    NoListing = NoListing
SYMMETRY Symmetry
INVARIANTS
    SettledOnce
    VerifiedBeforeSold
    ProvenanceUnbroken
    MarketDataAgrees
PROPERTIES
    LedgerSpec
CHECK_DEADLOCK FALSE
