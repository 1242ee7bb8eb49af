SPECIFICATION Spec
CONSTANTS
    Symbols <- MCSymbols
    CtxModels <- MCCtxModels
    MaxSymbols = 5
    MaxSubstreams = 2
CHECK_DEADLOCK FALSE
INVARIANTS
    TypeOK
    CarryContained
    WindowInside
    StopsAtEnd
PROPERTY
    Lossless
