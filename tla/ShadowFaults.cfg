SPECIFICATION Spec
CONSTANTS
    a = a
    b = b
    Ticker = {a, b}
    Long = {a}
    MaxPrice = 2
    MaxNotional = 1
    Scale = 2
    Rate = 1
    MaxDay = 2
    MaxFiling = 2
    Events = {"missing", "crash", "skip"}
CHECK_DEADLOCK FALSE
INVARIANTS
    TypeOK
    PnlFromFrozenBasis
    RowMatchesState
