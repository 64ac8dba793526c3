CONSTANTS
    s1 = s1
    p1 = p1
    p2 = p2
    i1 = i1
    i2 = i2
    i3 = i3
    u1 = u1
    u2 = u2
    u3 = u3
    h1 = h1
    h2 = h2
    a1 = a1
    a2 = a2
    NoItem = NoItem
    NoRow = NoRow
    NoOwner = NoOwner
    Sources = {s1}
    Posts = {p1, p2}
    Old = {p2}
    SourceOf <- OneSource
    Ids = {i1, i2, i3}
    PostOf <- TwoIds
    Urls = {u1, u2, u3}
    PostOfUrl <- TwoUrls
    Hashes = {h1, h2}
    TextOf <- TwoTexts
    Agents = {a1, a2}
    Owners = {a1, a2}
    OwnerOf <- OwnString
    Concurrency = 1
    MinimumYield = 1
    ActiveAfter = 1
    IdleAfter = 2
    NotifyExisting = FALSE
    MaxClaims = 3
    MaxEdits = 1
    MaxFaults = 1

SPECIFICATION Spec
SYMMETRY Symmetry

INVARIANTS
    TypeOK
    OnlyNewsAnnounced
    NewsAnnounced
    IdleIsEarned

PROPERTIES
    LastClaimPersists

\* After MaxClaims claims of each source the bounds leave nothing to do.
CHECK_DEADLOCK FALSE
