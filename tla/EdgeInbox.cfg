CONSTANTS
    u1 = u1
    u2 = u2
    p1 = p1
    chat = chat
    order = order
    w1 = w1
    w2 = w2
    NoWorker = NoWorker
    Updates = {u1, u2}
    Payments = {p1}
    Aggregates = {chat, order}
    AggregateOf <- ChatAndOrder
    SequenceOf <- ChatAndOrderSequence
    Malformed = {u2}
    Mismatched = {}
    Workers = {w1, w2}
    PaymentLimit = 1
    ParseLimit = 1
    SendLimit = 2
    MaxDeletions = 1
    MaxFaults = 1

SPECIFICATION InboxFairSpec

INVARIANTS
    InboxTypeOK
    ChatOrder
    LedgerAgrees

PROPERTIES
    EveryEventSettles
