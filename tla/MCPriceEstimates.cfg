SPECIFICATION MCSpec
CONSTANTS
    Sales = {s1, s2}
    Asks = {a1}
    Grades = {unc, circulated}
    MinSample = 1
    WidenBelow = 2
    MaxFaults = 1
    normal = normal
    roll = roll
    coloured = coloured
    design = design
    edition = edition
    Issues = {normal, roll, coloured}
    Designs = {design, edition}
    NoDesign = NoDesign
    NoFigures = NoFigures
    DesignOf <- MCDesignOf
    FinishOf <- MCFinishOf
    PlaceOf <- MCPlaceOf
    Base <- MCBase
    Circulating = {}
    Special = {edition}
    Buckets <- MCBuckets
    Factor <- MCFactor
    Common = 500
    MinSales = 2
    MinClass = 2
    Mintages = {0, 10, 400}
    Prices = {150, 900}
INVARIANTS
    OutlivesOneRun
    ScarcityTells
PROPERTIES
    RestsOnEvidence
    SoldStaleWithdrawn
