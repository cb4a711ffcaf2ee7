SPECIFICATION Spec
CONSTANTS
    w1 = w1
    w2 = w2
    None = None
    Workers = {w1, w2}
    Callers = {w1, w2}
    Runs = {1, 2}
    Requests = {1, 2}
    Gated = {1}
    Strategies = {"enqueue"}
    MaxCp = 5
    Keys = {1, 2, 3, 4, 5}
    MaxFaults = 0
INVARIANTS
    SideEffectOnce
CHECK_DEADLOCK FALSE
