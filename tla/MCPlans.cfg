SPECIFICATION Spec
CONSTANTS
    a1 = a1
    a2 = a2
    same = same
    other = other
    None = None
    Worlds = {same, other}
    Appliers = {a1, a2}
    Hitl = FALSE
    MaxPlannings = 2
    MaxTokens = 2
    MaxFaults = 1
SYMMETRY Symmetry
INVARIANTS
    TokenOfItsPlanning
    AppliedIsTrue
PROPERTIES
    ImplementsPlanLedger
CHECK_DEADLOCK FALSE
