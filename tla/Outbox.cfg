CONSTANTS
    p1 = p1
    p2 = p2
    k1 = k1
    a = a
    b = b
    n = n
    o1 = o1
    o2 = o2
    NoOwner = NoOwner
    PostEvents = {p1, p2}
    CompletedEvents = {k1}
    CompletionOf <- TwoCompletionOf
    Classifiers = {a, b}
    Planners = {n}
    Owners = {o1, o2}
    OwnerOf <- PairOwnerOf
    MaxAttempts = 2
    ClaimLimit = 2
    MaxFaults = 1

SPECIFICATION FairSpec

INVARIANTS
    TypeOK

PROPERTIES
    ImplementsPromise
    NoStrandedEvent

\* Once every event is processed nothing is left to do.
CHECK_DEADLOCK FALSE
