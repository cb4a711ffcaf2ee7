SPECIFICATION FairSpec
CONSTANTS
    j1 = j1
    j2 = j2
    b1 = b1
    Requests = {j1, j2, b1}
    Blocks = {b1}
    Gpus <- OneBig
    Limit = 2
    MaxFaults = 2
INVARIANTS
    LimitHolds
    RunningIsHeld
PROPERTIES
    QuotaComesBack
    ImplementsQuota
CHECK_DEADLOCK FALSE
