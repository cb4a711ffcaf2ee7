SPECIFICATION FairSpec
CONSTANTS
    a1 = a1
    a2 = a2
    s1 = s1
    w1 = w1
    w2 = w2
    c1 = c1
    c2 = c2
    Null = Null
    TenantOf <- OneTenant
    Keys = {a1, s1}
    AsyncKeys = {a1}
    PairOf <- OnePair
    Workers = {w1}
    Callers = {c1}
    MaxAttempts = 2
    MaxRunning = 2
    PerTenantCap = 1
    MaxFaults = 1
    MaxCalls = 2
INVARIANTS
    SlotsFollowClaims
    CapsHold
PROPERTIES
    AcceptedSettles
    RunIsAccounted
    RunSettles
    SlotIsFreed
