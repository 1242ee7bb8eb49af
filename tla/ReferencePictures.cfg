CONSTANTS
    BitsForPOC = 2
    MaxPoc = 7
    MaxIdrPoc = 1
    MaxPictures = 4
    MaxRefs = 2
    MaxSlices = 2
    MaxCoded = 3
    Allow = {}
SPECIFICATION Spec
INVARIANTS
    TypeOK
    PocRecovered
    RefsResolved
    NeverGivesUp
PROPERTY
    SearchAdvances
CHECK_DEADLOCK FALSE
