SPECIFICATION Spec
CONSTANTS
    a = a
    b = b
    Ticker = {a, b}
    TrumpDisabled = FALSE
    Events = {}
    MaxFiling = 2
    MaxDisclosure = 2
SYMMETRY TickerSymmetry
INVARIANTS
    TypeOK
    OnlyApprovedBought
    NoSpuriousExit
    QuietMeansMirrored
