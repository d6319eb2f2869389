CONSTANTS
    Cards = {1, 2}
    PerCard = 2
    Values = {1, 2}
    MAX_RETRIES = 3
    Faults = {}
    MaxFaults = 0
    MaxSessions = 2
    TagMod = 2
    Word = 3
    WordMod = 8
    MaxRecords = 5
SPECIFICATION Spec
INVARIANTS
    ChassisTypeOK
    ProxyFollows
PROPERTIES
    CardsComeUp
CHECK_DEADLOCK FALSE
