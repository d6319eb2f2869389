CONSTANTS
    Cards = {1}
    PerCard = 1
    Values = {0, 1, 2}
    MAX_RETRIES = 3
    Faults = {"erased"}
    MaxFaults = 1
    MaxSessions = 1
    TagMod = 2
    Word = 3
    WordMod = 8
    MaxRecords = 5
SPECIFICATION Spec
PROPERTY PollsNeverStop
CHECK_DEADLOCK FALSE
