CONSTANTS
    Task = {"t1", "t2"}
    None = None
    Idle = 3
    MaxStart = 1
    MaxBlind = 1
SPECIFICATION FairSpec
INVARIANTS
    VMInv
    RunsAtMostOnce
    ConsumedMeansRun
    TaskIsWatched
PROPERTIES
    PowerOffSparesTask
    StopsWithTask
    SafetyNet
