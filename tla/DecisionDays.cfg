SPECIFICATION Spec
CONSTANTS
    a = a
    b = b
    c = c
    Ticker = {a, b, c}
    Budget = 2
    MaxDay = 1
    MaxFiling = 2
    MaxCrash = 2
SYMMETRY Symmetry
INVARIANTS
    TypeOK
    BudgetHolds
    EventsMatchVerdicts
