CONSTANTS
    Proc = {p1, p2}
    Github = {"github"}
    Jira = {"jira"}
    None = None
    Torn = Torn
    MaxEntries = 3
SPECIFICATION Spec
SYMMETRY Symmetric
CHECK_DEADLOCK FALSE
INVARIANTS
    SyncedWasPosted
PROPERTIES
    UndisturbedSync
