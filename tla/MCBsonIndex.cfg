SPECIFICATION ColumnSpec
CONSTANTS
    Exact = 4
    NaN <- MCNaN
    Wrap = 16
    Docs <- MCDocs
    Subs <- MCSubs
    MaxSize = 3
    Values <- MCValues
    Rows = {1, 2, 3}
    Bits = 32
    Low = 2
INVARIANTS
    IndexFinds
    IndexSorted
    HashFinds
CHECK_DEADLOCK FALSE
