SPECIFICATION QuerySpec
CONSTANTS
    Dates <- MCDates
    Docs <- MCDocs
    Labels <- MCLabels
    Paths <- MCPaths
    MaxDepth = 3
    MaxTrail = 4
INVARIANTS
    QueryTypeOK
    StepsAgree
    GettersAgree
