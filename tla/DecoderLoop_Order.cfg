SPECIFICATION Spec
CONSTANTS
    MaxPoc = 4
    MaxNumReorder = 2
    MaxDecPicBuffering = 3
    Kinds = {"IDR", "CRA", "TRAIL", "RADL", "RASL"}
    Outputs = {TRUE}
    MaxRecovery = 0
    MaxPics = 5
    MaxSlices = 1
    MaxEos = 0
    MaxDrops = 0
    Allow = {}
CHECK_DEADLOCK FALSE
INVARIANTS
    RefsPresent
    LogComplete
    NeverAhead
    ListBounded
PROPERTY InOutputOrder
