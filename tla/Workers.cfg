CONSTANTS
    Provider = {"local", "e2b"}
    Policies <- MCPolicies
    Fleet = {"running", "exited"}
    None = None
    Threshold = 3
    MaxEdits = 2
SPECIFICATION FairSpec
INVARIANTS
    TypeOK
    UnknownIffFailing
PROPERTIES
    ServedSettles
