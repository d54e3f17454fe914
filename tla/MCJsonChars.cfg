SPECIFICATION CharsSpec
CONSTANTS
    Inputs <- Texts
    Binary <- Blocks
INVARIANTS
    CharsAccepted
    CharsRejected
    ReadsInside
    EscapeRestores
    DecodeRestores
CHECK_DEADLOCK FALSE
