SPECIFICATION ColumnSpec
CONSTANTS
    Exact = 4
    NaN <- MCNaN
    Wrap = 16
    Docs <- DateDocs
    Subs <- MCSubs
    MaxSize = 3
    Values <- MCValues
    Rows = {}
    Bits = 32
    Low = 2
INVARIANTS
    ComparesSameTypes
CHECK_DEADLOCK FALSE
