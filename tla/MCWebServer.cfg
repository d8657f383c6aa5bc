SPECIFICATION FairSpec
CONSTANTS
    Module = {m1, m2}
    Value = {v1}
    Asked <- FewParams
    MaxBreaks = 1
INVARIANTS
    TypeOK
    ReplyFits
    
    
PROPERTIES
    Answered
CHECK_DEADLOCK FALSE
