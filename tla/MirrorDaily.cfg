SPECIFICATION MirrorFairSpec
CONSTANTS
    a = a
    b = b
    Ticker = {a, b}
    Trigger = {"none", "f1", "f2"}
    NoneTrigger = {"none", "f1", "f2"}
    NoFiling = "none"
    Goals <- MCGoals
    OwnNav = 2
    Grain = 1
    MaxForeign = 0
    Faults = {"reread"}
    MaxFaults = 1
    MaxTarget = 2
    MinNotional = 1
    PollMax = 1
    CleanMax = 1
    InitCash = 2
PROPERTIES
    FollowsFiling
    FilingReachesBook
CHECK_DEADLOCK FALSE
