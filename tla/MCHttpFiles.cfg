SPECIFICATION FilesSpec
CONSTANTS
    Client = {c1, c2, c3}
    MaxFd = 5
    MaxFailures = 1
SYMMETRY ClientSymmetry
INVARIANTS
    FilesTypeOK
    Accounted
    LossNeedsOverlap
