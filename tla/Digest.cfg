CONSTANTS
    s1 = s1
    p1 = p1
    p2 = p2
    w1 = w1
    w2 = w2
    o1 = o1
    NoOwner = NoOwner
    Owners = {o1}
    OwnerOf <- SameOwner
    Subscribers = {s1}
    LastCampaign = 2
    Workers = {w1, w2}
    PostOf <- TwoPosts
    FetchLimit = 2
    PlanLimit = 1
    ClaimLimit = 1
    MaxAttempts = 2
    MaxFaults = 1

SPECIFICATION FairSpec

INVARIANTS
    TypeOK

PROPERTIES
    ImplementsPromise
    EveryEntrySettles
