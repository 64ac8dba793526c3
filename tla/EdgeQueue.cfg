CONSTANTS
    e1 = e1
    e2 = e2
    r1 = r1
    r2 = r2
    o1 = o1
    NoOwner = NoOwner
    Updates = {e1}
    Payments = {e2}
    SequenceOf <- SameSequence
    Reconcilers = {r1, r2}
    Owners = {o1}
    OwnerOf <- SameOwner
    PullLimit = 2
    MaxEditions = 2
    MaxFaults = 2

SPECIFICATION QueueFairSpec

INVARIANTS
    QueueTypeOK
    NoEventLost

PROPERTIES
    EveryEventArrives
