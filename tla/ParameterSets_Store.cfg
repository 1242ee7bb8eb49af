SPECIFICATION Spec
CONSTANTS
    a = a
    b = b
    NULL = NULL
    MaxObj = 5
    Objs <- MCObjs
    Ids <- MCIds
    Data <- MCData
    SpsOf <- MCSpsOf
    VpsOf <- MCVpsOf
    InferredVps = 0
    Nals <- AllNals
    GdrStart = TRUE
    Repeats = TRUE
    MaxList = 1
CHECK_DEADLOCK FALSE
INVARIANTS
    TypeOK
    Ownership
    ChangedFlagSound
