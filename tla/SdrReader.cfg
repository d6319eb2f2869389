CONSTANTS
    LocalSensors <- MCLocalSensors
    Luns = {0}
    AddNums = {1, 17, 18}
    UpdateNums = {17}
    Values = {0, 1}
    WordMod = 7
    MaxRecords = 5
SPECIFICATION ReaderSpec
INVARIANTS
    PointersAgree
    IdsNeverReused
    EveryRecordServed
    NoDuplicates
    ScanComplete
    ScanOfOneGeneration
PROPERTY
    ScanEnds
