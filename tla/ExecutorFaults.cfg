SPECIFICATION FairSpec
CONSTANTS
    a = a
    b = b
    Ticker = {a}
    Trigger = {"f1"}
    NoneTrigger = {}
    Grain = 2
    MaxForeign = 1
    Faults = {"slow", "reply", "poll", "crash", "torn", "noid", "reread", "owner", "requote"}
    MaxFaults = 2
    MaxTarget = 2
    MinNotional = 1
    PollMax = 2
    CleanMax = 1
    InitCash = 1
INVARIANTS
    TypeOK
    SellWithinLedger
    SavedKeysAreJustified
    NoSecondOrderForKey
PROPERTY CycleEnds
