SPECIFICATION Spec
CONSTANTS
    a = a
    b = b
    Ticker = {a, b}
    Trigger = {"f1"}
    NoneTrigger = {"f1"}
    Grain = 1
    MaxForeign = 1
    Faults = {"owner", "requote", "veto"}
    MaxFaults = 1
    MaxTarget = 2
    MinNotional = 1
    PollMax = 2
    CleanMax = 1
    InitCash = 2
SYMMETRY TickerSymmetry
INVARIANTS
    LedgerMatchesHoldings
    NeverSellsForeign
    OverdraftHasACause
    AtMostOneOrderAfterKill
