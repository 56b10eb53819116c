SPECIFICATION Spec
CONSTANTS
    Inputs <- Padded
    MaxToken = 8
    MaxLiteral = 8
    MaxDepth = 1
    MaxNumber = 98
    CompactAt = 4
INVARIANT HeaderIsShort
CHECK_DEADLOCK FALSE
