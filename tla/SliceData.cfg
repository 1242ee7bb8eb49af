SPECIFICATION Spec
CONSTANTS
    MaxSize = 4
    MaxCtus = 9
    MaxExplicit = 2
    MaxDataCtus = 4
    MaxCoded = 3
    SliceQp = 26
    Qps <- MCQps
    Allow = {}
CHECK_DEADLOCK FALSE
INVARIANTS
    LayoutRecovered
    EntryPointsMatch
    ParsedInStep
    QpRecovered
    PalettesRecovered
