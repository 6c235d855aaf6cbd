SPECIFICATION Spec
CONSTANTS
    a = a
    b = b
    Ticker = {a}
    Trigger = {"f1"}
    NoneTrigger = {}
    Grain = 1
    MaxForeign = 1
    Faults = {"slow"}
    MaxFaults = 2
    MaxTarget = 1
    MinNotional = 1
    PollMax = 2
    CleanMax = 1
    InitCash = 1
INVARIANT NeverSellsForeign
