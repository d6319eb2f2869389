CONSTANTS
    Cards = {1}
    PerCard = 1
    Values = {0, 1, 2}
    MAX_RETRIES = 3
    Faults <- MCFaults
    MaxFaults = 2
    MaxSessions = 2
    TagMod = 2
    Word = 3
    WordMod = 8
    MaxRecords = 5
SPECIFICATION Spec
INVARIANTS
    ProxyFollows
    NeverStranded
    AckedIsStored
    OneSlotPerStart
    OwnSession
PROPERTIES
    CardsComeUp
    PollsGoOn
CHECK_DEADLOCK FALSE
