SPECIFICATION Spec
CONSTANT Configs <- MCConfigs
INVARIANTS
    ChecksHold
    CodedOnce
    CountersMatchPath
    SmallBlocks
    PipelineUnits
    FirstOfGroup
    BinsParsed
