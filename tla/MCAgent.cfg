SPECIFICATION FairSpec
CONSTANTS
    w1 = w1
    w2 = w2
    None = None
    Workers = {w1, w2}
    Callers = {w1, w2}
    Runs = {1, 2}
    Requests = {1, 2}
    Gated = {1}
    Strategies = {"reject", "enqueue", "interrupt", "rollback"}
    MaxCp = 4
    Keys = {1, 2, 3, 4}
    MaxFaults = 1
INVARIANTS
    StepperHoldsLease
    ActsBounded
    ReplayIsOfTheRequest
    NoActWithoutApproval
    JournalIsTrue
CHECK_DEADLOCK FALSE
