SPECIFICATION FairSpec
CONSTANTS
    Agent = {a1, a2}
    span = 1
    Limit = 1
    Skew = 1
    Delay = 1
    MaxTime = 2
    MaxRows = 2
    MaxLosses = 1
    MaxFails = 1
INVARIANTS
    AtMostOnce
    PassedOver
PROPERTIES
    CatchesUp
CHECK_DEADLOCK FALSE
