SPECIFICATION Spec
CONSTANTS
    Entries <- MCEntries
    Depth <- MCDepth
    Parent <- MCParent
    Root = "."
    Before <- MCBefore
    After <- MCAfter
    MaxCrashes = 1
    MaxFaults = 0
    MaxEdits = 0
CHECK_DEADLOCK FALSE
INVARIANT InterruptionRetried
