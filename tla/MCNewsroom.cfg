SPECIFICATION Spec
CONSTANTS
    Coins = {a, b}
    Reports = {r1}
    Experts = {x1, x2, x3, x4}
    Ballots = {b1, b2}
    Publishers = {server, cli}
    Quorum = 2
    Limit = 1
    MaxEvents = 2
    Gone = Gone
    Readers = {u1, u2}
    Markets <- MCMarkets
SYMMETRY Symmetry
CONSTRAINT Apart
INVARIANTS
    VerdictsEarned
    NextRunTells
PROPERTIES
    AloneDecides
    OneBulletinADay
