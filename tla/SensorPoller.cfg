CONSTANTS
    LocalSensors <- MCLocalSensors
    Luns = {0}
    AddNums = {17, 18}
    UpdateNums = {17}
    Values = {0, 1}
    WordMod = 6
    MaxRecords = 4
SPECIFICATION PollSpec
INVARIANTS
    CrashOnlyAfterErase
    ReadingsFollowSensors
PROPERTY
    RoundsEnd
CHECK_DEADLOCK FALSE
