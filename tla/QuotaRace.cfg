CONSTANTS
    Reviewer = {bot, opus}
    Poster = {p1, p2}
    Loop = Loop
    None = None
    MaxNow = 3
    MaxPosts = 2
SPECIFICATION FairSpec
PROPERTIES
    OnlyExpiredIsReset
CHECK_DEADLOCK FALSE
