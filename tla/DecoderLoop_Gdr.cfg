SPECIFICATION Spec
CONSTANTS
    MaxPoc = 3
    MaxNumReorder = 1
    MaxDecPicBuffering = 3
    Kinds = {"IDR", "CRA", "GDR", "TRAIL", "RASL"}
    Outputs = {TRUE}
    MaxRecovery = 1
    MaxPics = 4
    MaxSlices = 2
    MaxEos = 1
    MaxDrops = 0
    Allow = {}
CHECK_DEADLOCK FALSE
INVARIANTS
    TypeOK
    LogComplete
PROPERTY InOutputOrder
