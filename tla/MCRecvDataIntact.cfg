SPECIFICATION ParserSpec
CONSTANTS
    Key = {k1}
    PkgLen = 8
    BodySize = {1, 3}
    Garbage = {0, 1, 3, 5, 56}
    MaxRead = 13
    Width = 64
INVARIANTS
    Intact
CHECK_DEADLOCK FALSE
