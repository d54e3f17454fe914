SPECIFICATION GrowFairSpec
CONSTANTS
    MaxInt = 1023
    FirstTry = 2
    NewSize = 4
    MaxBuffer = 32
    MaxBy = 512
INVARIANTS
    GrowTypeOK
    Covered
PROPERTIES
    GrowsToLeast
    GrowEnds
CHECK_DEADLOCK FALSE
