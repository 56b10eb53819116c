SPECIFICATION Spec
CONSTANTS
    Workers = {w1, w2}
    Cancellers = {c1}
    Handles = {h1, h2}
    Descriptors = {d1}
    NoThread = NoThread
    NoHandle = NoHandle
    NoSocket = NoSocket
    ReadTimeout = TRUE
    ReuseHandles = FALSE
    BuildMayThrow = TRUE
PROPERTY NoSpuriousCancel
