SPECIFICATION Spec
CONSTANTS
    Dates <- MCPastEnd
    Descs <- MCDescs
    Composites <- ContractRows
    Rows <- ContractRows
    PastEnd <- NotZero
    MaxCalls = 1
    Epoch2000 = 100
    MaxNesting = 3
INVARIANTS
    BuilderContract
CHECK_DEADLOCK FALSE
