CONSTANTS
    Goroutine = {g1, g2}
    MaxAge = 1
    SaveMayFail = TRUE
    MayBeLost = FALSE
    MaxGen = 3
    MaxStarts = 4
    Retries = 3
SPECIFICATION CallFairSpec
CHECK_DEADLOCK FALSE
INVARIANTS
    NotPlacedBlind
