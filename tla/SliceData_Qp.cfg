SPECIFICATION Spec
CONSTANTS
    MaxSize = 2
    MaxCtus = 4
    MaxExplicit = 2
    MaxDataCtus = 4
    MaxCoded = 2
    SliceQp = 26
    Qps <- MCQps
    Allow = {"tilesInSlice"}
CHECK_DEADLOCK FALSE
INVARIANT QpRecovered
