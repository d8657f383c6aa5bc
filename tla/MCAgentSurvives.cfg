SPECIFICATION Spec
CONSTANTS
    Configured = {"local", "tcp"}
    Object = {o1, o2, o3}
    MaxSlot = 4
    maxSize = 0
    checkOutputIntv = 1
INVARIANTS
    Survives
CHECK_DEADLOCK FALSE
