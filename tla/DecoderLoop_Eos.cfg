SPECIFICATION Spec
CONSTANTS
    MaxPoc = 2
    MaxNumReorder = 1
    MaxDecPicBuffering = 3
    Kinds = {"IDR", "CRA", "TRAIL", "RASL"}
    Outputs = {TRUE, FALSE}
    MaxRecovery = 0
    MaxPics = 4
    MaxSlices = 1
    MaxEos = 2
    MaxDrops = 1
    Allow = {"skippedBeforeEos"}
CHECK_DEADLOCK FALSE
INVARIANTS
    RefsPresent
    LogComplete
