SPECIFICATION MCSpec
CONSTANTS
    plain = plain
    proof = proof
    n1 = n1
    n2 = n2
    n3 = n3
    Variants = {plain, proof}
    Plain = plain
    Placeholders <- MCPlaceholders
    NumistaIssues = {n1, n2, n3}
    VariantOf <- MCVariantOf
    Answers <- MCAnswers
    MaxRows = 4
    Observations = {o1, o2}
    Pieces = {p1}
    MaxFaults = 1
    NoVariant = NoVariant
    NoIssue = NoIssue
    NoRow = NoRow
    Idle = Idle
    coin1 = coin1
    coin2 = coin2
    list1 = list1
    list2 = list2
    Coins = {coin1, coin2}
    Listings = {list1, list2, stray, edition}
    Editions = {edition}
    Classics = {list2}
    LinkThreshold = 70
    PairThreshold = 45
    LeftoverThreshold = 25
    DuplicateThreshold = 60
    Truth <- MCTruth
    Levels <- MCLevels
    NoCoin = NoCoin
    NoTitles = NoTitles
INVARIANTS
    LostOnlyWhenLate
    AloneGoesThrough
    TitlesDecide
PROPERTIES
    SameVariant
SYMMETRY Symmetry
