SPECIFICATION FairSpec
CONSTANTS
    InitSize = 12
    MinAlloc = 8
    MaxDoublings = 3
    BufferMaxSize = 32
    MaxInternal = 24
    NameSizes <- MCNameSizes
    ValueSizes <- MCValueSizes
    MaxDepth = 4
    MaxRefs = 2
INVARIANTS
    TypeOK
    SizeFieldsExact
    FinishedIsWhole
    FreedOnce
PROPERTIES
    ClosedIsFinal
    RoomToUnwind
    UnwindEnds
    ImplementsDocument
CHECK_DEADLOCK FALSE
