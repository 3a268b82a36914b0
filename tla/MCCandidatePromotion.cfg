SPECIFICATION FairSpec
CONSTANTS
    Entries <- MCEntries
    Depth <- MCDepth
    Parent <- MCParent
    Root = "."
    Before <- MCBefore
    After <- MCAfter
    MaxCrashes = 2
    MaxFaults = 2
    MaxEdits = 1
CHECK_DEADLOCK FALSE
INVARIANTS TypeOK SettlementTellsFiles EnteredAfterPrepare ConclusiveUnlessDiverged
PROPERTIES SettledIsFinal CommitAcknowledged
