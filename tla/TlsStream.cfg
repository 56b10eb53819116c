SPECIFICATION FairSpec
CONSTANTS
    Scripts <- Servers
    ReadChunk = 3
    MaxIncoming = 8
    Buffers = {1, 2}
    MaxOut = 3
INVARIANTS
    TypeOK
    FitsOrRefused
    NothingWithheld
    WireIsSound
PROPERTIES
    CallsReturn
    ReadsInOrder
CHECK_DEADLOCK FALSE
