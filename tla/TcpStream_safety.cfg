SPECIFICATION Spec
CONSTANTS
    Workers = {w1, w2}
    Cancellers = {c1}
    Handles = {h1, h2, h3}
    Descriptors = {d1, d2}
    NoThread = NoThread
    NoHandle = NoHandle
    NoSocket = NoSocket
    ReadTimeout = TRUE
    ReuseHandles = FALSE
    BuildMayThrow = FALSE
INVARIANTS
    TypeOK
    CancelReachesOwnSocket
    DescriptorsAccounted
    Interruptible
    AtMostOneLateCall
PROPERTY NoSpuriousCancel
SYMMETRY Symmetry
