CONSTANTS
    Reviewer = {bot, opus}
    Poster = {p1, p2}
    Loop = Loop
    None = None
    MaxNow = 3
    MaxPosts = 3
SPECIFICATION FairSpec
INVARIANTS
    QuotaInv
    PublishedIsCurrent
PROPERTIES
    HitIsKept
    ExpiredGoesBack
CHECK_DEADLOCK FALSE
