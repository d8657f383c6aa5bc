SPECIFICATION FairSpec
CONSTANTS
    maxSize = 1
    MaxOffered = 6
PROPERTIES
    ImplementsFifo
    Drains
