SPECIFICATION Spec
CONSTANTS
    a = a
    b = b
    Ticker = {a, b}
    MaxPrice = 3
    Cash = 0
    MaxForeign = 0
    Tolerance = 0
    CostBasis = 4
    HaltLevel = 2
    Day = 2
    Events = {"outage"}
PROPERTY HaltOnlyOnLoss
