SPECIFICATION FairSpec
CONSTANTS
    MaxCall = 2
    Retries = 2
    ThrottleMax = 2
    CallTimeout = 2
    Slack = 0
    Backoff = 1
    ConnectTime = 1
    CallTime = 1
    Throttle = 2
CHECK_DEADLOCK FALSE
INVARIANTS
    TypeOK
    CallerNotOrphaned
    OneSession
    ClosedAfterExit
    SendsBounded
PROPERTIES
    CallReturns
    OrderCallSpec
