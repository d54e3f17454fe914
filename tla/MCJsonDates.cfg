SPECIFICATION TextSpec
CONSTANTS
    Word = 8
    Exact = 16
    MaxDouble = 102
    Digits = 20
    Step = 4
    OidOf <- Oids
    DataOf <- Data
    ByteOf <- Bytes
    OptionsOf <- Opts
    Gims = {"", "gi"}
    RawOf <- Raws
    Lexemes <- Dates
    Plain <- PlainValues
    MaxCost = 2
    Docs = {}
INVARIANT
    AcceptedIsInGrammar
CHECK_DEADLOCK FALSE
