SPECIFICATION FairSpec
CONSTANTS
    Users = {u1, u2}
    Requests = {q1, q2}
    Hours = {1, 2}
    Cadence = 2
    Retry = 2
    SecretKeys = {k1, k2}
    EnvKey = FALSE
    MaxPatches = 2
    None = None
INVARIANTS
    SwitchInForce
PROPERTIES
    KeepsAnOwner
    KeyTakesEffect
