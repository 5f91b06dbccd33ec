SPECIFICATION HeardSpec
CONSTANTS
    Types = {t1, t2}
    Ecb = Ecb
    Numista = Numista
    Rank <- MCRank
    a = a
    a2 = a2
    b = b
    Values = {a, a2, b}
    Norm <- MCNorm
    MaxClaims = 6
    NoType = NoType
    NoValue = NoValue
INVARIANTS
    AuthorityWins
    LastWordShown
PROPERTIES
    RevisionTold
SYMMETRY Symmetry
