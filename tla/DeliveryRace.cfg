CONSTANTS
    d1 = d1
    d2 = d2
    d3 = d3
    s1 = s1
    s2 = s2
    c1 = c1
    c2 = c2
    w1 = w1
    w2 = w2
    o1 = o1
    o2 = o2
    NoOwner = NoOwner
    Deliveries = {d1}
    Subscribers = {s1}
    Campaigns = {c1}
    Workers = {w1, w2}
    Owners = {o1, o2}
    SubscriberOf <- RaceSubscriberOf
    CampaignOf <- RaceCampaignOf
    OwnerOf <- RaceOwnerOf
    PortalCampaigns = {c1}
    FileCampaigns = {c1}
    MaxAttempts = 2
    ClaimLimit = 1
    MaxFaults = 2

SPECIFICATION FairSpec

INVARIANTS
    TypeOK
    OneOutcomePerClaim

PROPERTIES
    FencedWrites
    ImplementsPromise
    EventuallyClosed
