SPECIFICATION FairSpec
CONSTANTS
    r1 = r1
    r2 = r2
    Events = {1, 2}
    Relays = {r1, r2}
    BatchSize = 2
    MaxAttempts = 2
    MaxFaults = 2
INVARIANTS
    AttemptsAccounted
    OverlapNeedsStall
PROPERTIES
    ImplementsHandOver
    PublishedIsFrozen
    EventSettles
CHECK_DEADLOCK FALSE
