CONSTANTS
    Goroutine = {g1, g2}
    MaxAge = 1
    SaveMayFail = TRUE
    MayBeLost = TRUE
    MaxGen = 3
    MaxStarts = 3
SPECIFICATION FairSpec
INVARIANTS
    ReadinessInv
    ReadyHasUsage
    StaleIffInherited
PROPERTIES
    SnapshotNeverGoesBack
    EventuallyCollected
CHECK_DEADLOCK FALSE
