SPECIFICATION TextSpec
CONSTANTS
    Word = 8
    Exact = 16
    MaxDouble = 102
    Digits = 20
    Step = 4
    OidOf <- Oids
    DataOf <- Data
    ByteOf <- Bytes
    OptionsOf <- Opts
    Gims = {"", "gi"}
    RawOf <- Raws
    Lexemes <- Texts
    Plain <- PlainValues
    MaxCost = 3
    Docs <- Stored
INVARIANTS
    AcceptedIsMeant
    RejectedInTime
    RestoreAccepts
    RestoreKeepsValues
PROPERTY
    ParseEnds
CHECK_DEADLOCK FALSE
