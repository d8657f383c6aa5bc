SPECIFICATION FairSpec
CONSTANTS
    maxSize = 1
    MaxOffered = 6
    MaxBreaks = 2
INVARIANTS
    InOrder
    Accounted
    LossPerBreak
PROPERTIES
    ImplementsFifo
    Drains
CHECK_DEADLOCK FALSE
