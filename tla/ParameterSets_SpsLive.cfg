SPECIFICATION Spec
CONSTANTS
    a = a
    b = b
    NULL = NULL
    MaxObj = 7
    Objs <- MCObjs
    Ids <- MCIds
    Data <- MCData
    SpsOf <- MCSpsOf
    VpsOf <- MCVps0
    InferredVps = 0
    Nals <- SpsPpsNals
    GdrStart = FALSE
    Repeats = FALSE
    MaxList = 2
CHECK_DEADLOCK FALSE
INVARIANT ListSpsLive
