CONSTANTS
    Claude = {"claude/1"}
    Codex = {"codex/1"}
    Opencode = {"opencode/1"}
    Intervals = {1, 2}
    Bad = Bad
    Default = 1
    UsageTimeout = 2
    CodexTimeout = 1
    OpencodeTimeout = 1
    None = None
SPECIFICATION FairSpec
INVARIANTS
    UsageInv
    ServedAgeBounded
PROPERTIES
    PublishedAgainAndAgain
