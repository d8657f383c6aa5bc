SPECIFICATION Spec
CONSTANTS
    Modules = 2
    Rows = 2
    intv = 1
    Period = 1
    maxSize = 1
    Width = 100
    Rotations = {1, 9}
    Start = 3
    MaxTime = 5
    Lag = 1
    LastN = {1, 3}
    MaxFails = 1
INVARIANTS
    TypeOK
    
    ShownNewest
PROPERTIES
    OnlyOldPurged
    ImplementsOutput
CHECK_DEADLOCK FALSE
