SPECIFICATION Spec
CONSTANTS
    Inputs <- Small
    MaxToken = 4
    MaxLiteral = 8
    MaxDepth = 1
    MaxNumber = 98
    CompactAt = 4
INVARIANTS
    TypeOK
    NoLineWithheld
    WaitsWithinLimit
PROPERTY TokensOfTheWhole
CHECK_DEADLOCK FALSE
