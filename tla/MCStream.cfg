SPECIFICATION Spec
CONSTANTS
    r1 = r1
    r2 = r2
    t1 = t1
    t2 = t2
    t3 = t3
    None = None
    Replicas = {r1, r2}
    Tokens = {t1, t2, t3}
    Res = 2
    Ttl = 5
    MaxTime = 11
    MaxFaults = 1
SYMMETRY Symmetry
INVARIANTS
    LeaderHoldsKey
    OverlapNeedsOverrun
    LostRunIsTold
    StrayKeyIsGivenBack
CHECK_DEADLOCK FALSE
