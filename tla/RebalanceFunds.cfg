SPECIFICATION Spec
CONSTANTS
    a = a
    b = b
    c = c
    Ticker = {a, b, c}
    Unit = 20
    SleeveTrump = 10
    SleeveLeopold = 10
    TopN = 2
    FloorPct = 2
    FloorUsd = 1
    Cap = 8
    DriftPct = 1
    DriftUsd = 10
    Equities = {3, 40}
    MaxTrump = 2
    MaxLeopold = 5
    MaxCycle = 1
CHECK_DEADLOCK FALSE
INVARIANTS
    TypeOK
    CapIsWaterFill
    NoWeightLeaks
    CapConverges
    FloorSurvivorsStay
    RebalanceSettles
