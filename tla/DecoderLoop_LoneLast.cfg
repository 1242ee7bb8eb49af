SPECIFICATION Spec
CONSTANTS
    MaxPoc = 2
    MaxNumReorder = 1
    MaxDecPicBuffering = 3
    Kinds = {"IDR", "TRAIL"}
    Outputs = {TRUE}
    MaxRecovery = 0
    MaxPics = 3
    MaxSlices = 1
    MaxEos = 1
    MaxDrops = 0
    Allow = {"loneLastPicture"}
CHECK_DEADLOCK FALSE
INVARIANTS
    LogComplete
