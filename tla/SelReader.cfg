CONSTANTS
    MaxCount <- MCMaxCount
    InitialEntries <- MCInitialEntries
    Word <- MCWord
SPECIFICATION ReaderSpec
INVARIANTS
    IdsUnique
    ServedById
    ChainUntilErased
    SpaceMeansRoom
    ScanComplete
PROPERTIES
    NothingAfterClear
    ScanEnds
