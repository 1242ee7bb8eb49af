SPECIFICATION Spec
CONSTANTS
    Units <- MCUnits
    MaxUnits = 5
CHECK_DEADLOCK FALSE
INVARIANTS
    StartCodesMarkUnits
    ReaderAtNextUnit
    PictureBoundaries
PROPERTY
    Delivered
