SPECIFICATION FairSpec
CONSTANTS
    MaxMsgs = 4
INVARIANTS
    CrashNeedsRace
    
PROPERTIES
    DeadNoticed
    DestroyEnds
CHECK_DEADLOCK FALSE
