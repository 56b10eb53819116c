SPECIFICATION FairSpec
CONSTANTS
    Length = 6
    Sizes <- SmallSizes
    ChunkBytes = 2
    Held <- SomeHeld
    MaxWire = 6
    Faulty = TRUE
INVARIANT TypeOK
PROPERTIES
    WritesAreWhole
    ReadsAreExact
    
    HelpersReturn
