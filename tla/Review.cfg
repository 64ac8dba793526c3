CONSTANTS
    e1 = e1
    m1 = m1
    p1 = p1
    w1 = w1
    w2 = w2
    s1 = s1
    Nobody = Nobody
    Explicit = {e1}
    Manual = {m1}
    Posts = {p1}
    PostOf <- EditedPostOf
    DuplicatesOf <- EditedDuplicatesOf
    Workers = {w1, w2}
    Subscribers = {s1}
    Modes = {"instant", "daily"}
    MaxAttempts = 2
    MaxFaults = 1

SPECIFICATION FairSpec

INVARIANTS
    TypeOK
    OneCampaignPerPost
    NothingDropped

PROPERTIES
    ManualSkipStands
    EventuallyPlanned
