CONSTANTS
    d1 = d1
    d2 = d2
    d3 = d3
    s1 = s1
    s2 = s2
    c1 = c1
    c2 = c2
    w1 = w1
    w2 = w2
    o1 = o1
    o2 = o2
    NoOwner = NoOwner
    Deliveries = {d1, d2, d3}
    Subscribers = {s1, s2}
    Campaigns = {c1, c2}
    Workers = {w1}
    Owners = {o1}
    SubscriberOf <- BatchSubscriberOf
    CampaignOf <- BatchCampaignOf
    OwnerOf <- BatchOwnerOf
    PortalCampaigns = {c1, c2}
    FileCampaigns = {c1, c2}
    MaxAttempts = 1
    ClaimLimit = 2
    MaxFaults = 1

SPECIFICATION Spec

INVARIANTS
    ClaimProgress
    OneMessagePerChat
    OneUploadPerCampaign
