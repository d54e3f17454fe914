SPECIFICATION FairSpec
CONSTANTS
    Calls = {c1, c2}
    Args <- MCArgs
    MaxIndex = 3
    MaxStarts = 3
INVARIANTS
    TypeOK
    ElementsLive
    HeapAccounted
    RowsInOrder
    SizeAgrees
    WellNamedSurvives
PROPERTIES
    SetsEnd
CHECK_DEADLOCK FALSE
