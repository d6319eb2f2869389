CONSTANTS
    MaxCount <- MCMaxCount
    InitialEntries <- MCInitialEntries
    Word <- MCWord
SPECIFICATION Spec
INVARIANT ZeroIsFirst
