SPECIFICATION FairSpec
CONSTANTS
    a = a
    b = b
    Ticker = {a}
    MaxPrice = 3
    Cash = 1
    MaxForeign = 1
    Tolerance = 0
    CostBasis = 3
    HaltLevel = 2
    Day = 2
    Events = {"outage", "owed", "fail", "torn", "dry"}
INVARIANTS
    TypeOK
PROPERTIES
    DriftIsExplained
    WarnsOnDrawdown
    HaltsOnLoss
