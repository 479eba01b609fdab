CONSTANTS
    Cli = {c1, c2}
    Agent = {claude, codex}
    None = None
    Named = FALSE
    FineClock = TRUE
    MaxWrites = 3
SPECIFICATION FairSpec
INVARIANTS
    PolicyFileInv
PROPERTIES
    EditIsServed
    UndisturbedEdit
