CONSTANTS
    c1 = c1
    c2 = c2
    p1 = p1
    p2 = p2
    Sources = {c1, c2}
    PeopleRoutes = {c1}
    WithFallback = {c1}
    Strategies <- TwoStrategies
    Posts = {p1, p2}
    MinimumYield = 1
    HistoryTarget = 2
    StopAfterSuccess = TRUE
    FailureThreshold = 2
    MaxRestarts = 1

SPECIFICATION FairSpec

INVARIANTS
    TypeOK
    OneProbe
    HealthIsEarned

PROPERTIES
    TriedAgain
