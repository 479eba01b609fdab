CONSTANTS
    AgentName = {"claude/1", "codex/1"}
    Rules <- MCRules
    Inputs <- MCInputs
    Time <- MCTime
    Self = Self
    Local = Local
    Nil = Nil
    NoLimit = NoLimit
SPECIFICATION PlaceSpec
CHECK_DEADLOCK FALSE
INVARIANTS
    FirstUsableWins
    DeferIsExact
    UnprocessableIsFinal
    SlotsExact
