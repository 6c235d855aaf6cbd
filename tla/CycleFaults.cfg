SPECIFICATION Spec
CONSTANTS
    a = a
    b = b
    Ticker = {a, b}
    TrumpDisabled = FALSE
    Events = {"dry", "force", "kill", "crash", "torn", "garble"}
    MaxFiling = 2
    MaxDisclosure = 1
SYMMETRY TickerSymmetry
INVARIANT CachesMatchFilings
