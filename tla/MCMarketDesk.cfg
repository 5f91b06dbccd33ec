SPECIFICATION FairSpec
CONSTANTS
    near = near
    far = far
    ebay = ebay
    web = web
    Markets <- MCMarkets
    Users = {u1}
    Alerts = {a1}
    Thresholds <- MCThresholds
    Runs = {server, cli}
    Server = server
    Months = 2
    Threshold = 20
INVARIANTS
    DealsBacked
PROPERTIES
    ToldOnce
    WordArrives
CHECK_DEADLOCK FALSE
