SPECIFICATION FairSpec
CONSTANTS
    c1 = c1
    c2 = c2
    event = event
    garbage = garbage
    Undecodable = garbage
    Messages = {1, 2}
    IdOf <- TwoCopiesAndGarbage
    Consumers = {c1, c2}
    BatchSize = 2
    MaxDeliver = 2
    MaxFaults = 2
INVARIANTS
    AckedIsHandledOrParked
    EffectsBounded
    GivenUpAfterTwoLapses
PROPERTIES
    MessageSettles
CHECK_DEADLOCK FALSE
