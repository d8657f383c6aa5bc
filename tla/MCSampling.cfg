SPECIFICATION SamplingSpec
CONSTANTS
    Modules = 2
    Net = 2
    intv = 2
    Dev = {d1}
    Before = {0, 3}
    Start = 4
    MaxTime = 8
    MaxBack = 2
    MaxSets = 1
    MaxMoved = 2
    MaxDowns = 1
INVARIANTS
    SamplingTypeOK
    NeverMore
    AddsUp
    RateNeedsTime
PROPERTIES
    GridKept
