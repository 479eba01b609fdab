CONSTANTS
    Topic <- MCTopic
    Workers = "workers"
    Quota = "quota"
    Client = {"bar"}
    Want <- MCWant
    Payload <- MCPayload
    KeyOf <- MCKeyOf
    Empty = "empty"
    RingSize = 2
    ChanCap = 1
    FirstStart = 1
    ClockAhead = TRUE
    MaxRev = 7
SPECIFICATION FairSpec
INVARIANTS
    TypeOK
    NothingSkipped
    FeedInv
PROPERTIES
    ViewNeverGoesBack
    ImplementsFeed
    EventuallyCurrent
