SPECIFICATION Spec
CONSTANTS
    t1 = t1
    t2 = t2
    t3 = t3
    Null = Null
    Approvals = {1, 2}
    Threads = {t1, t2, t3}
    MaxClaims = 2
    MaxFaults = 1
SYMMETRY ThreadSymmetry
INVARIANTS
    StatusFollowsCommand
    DecisionIsTold
PROPERTIES
    DecisionIsFinal
    ImplementsLedger
CHECK_DEADLOCK FALSE
