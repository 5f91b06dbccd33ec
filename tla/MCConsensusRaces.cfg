SPECIFICATION FairSpec
CONSTANTS
    Types = {t1, t2}
    Ecb = Ecb
    Numista = Numista
    Rank <- MCRank
    a = a
    b = b
    Values = {a, b}
    Norm <- MCNorm
    MaxClaims = 2
    NoType = NoType
    NoValue = NoValue
    Reconciler = reconcile
    MaxAborts = 1
    Idle = Idle
PROPERTIES
    AloneRepairs
    Settles
