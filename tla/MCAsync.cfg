SPECIFICATION Spec
CONSTANTS
    a1 = a1
    a2 = a2
    s1 = s1
    w1 = w1
    w2 = w2
    c1 = c1
    c2 = c2
    Null = Null
    TenantOf <- OneTenant
    Keys = {a1, a2}
    AsyncKeys = {a1, a2}
    PairOf <- OnePair
    Workers = {w1, w2}
    Callers = {}
    MaxAttempts = 2
    MaxRunning = 1
    PerTenantCap = 1
    MaxFaults = 1
    MaxCalls = 0
SYMMETRY WorkerSymmetry
INVARIANTS
    FencedClaims
    ExclusivePair
    AttemptsEnd
PROPERTIES
    ImplementsLedger
