SPECIFICATION FairSpec
CONSTANTS
    Dates <- MCPastEnd
    Descs <- MCDescs
    Composites <- MCComposites
    Rows <- MCComposites
    PastEnd <- MCPastEnd
    MaxCalls = 2
    Epoch2000 = 100
    MaxNesting = 3
INVARIANTS
    TypeOK
    PinsMatchFrames
    RowFaithful
    RoundTrip
PROPERTIES
    CallsEnd
CHECK_DEADLOCK FALSE
