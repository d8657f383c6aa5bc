SPECIFICATION FairSpec
CONSTANTS
    Configured = {"local", "tcp"}
    Object = {o1, o2}
    MaxSlot = 4
    maxSize = 0
    checkOutputIntv = 1
INVARIANTS
    CrashNeedsRace
    OneOutputPerKind
    OwnForm
PROPERTIES
    Restored
CHECK_DEADLOCK FALSE
