CONSTANTS
    u1 = u1
    u2 = u2
    p1 = p1
    chat = chat
    order = order
    w1 = w1
    w2 = w2
    NoWorker = NoWorker
    Updates = {u1}
    Payments = {p1}
    Aggregates = {chat, order}
    AggregateOf <- ChatAndOrder
    SequenceOf <- ChatAndOrderSequence
    Malformed = {}
    Mismatched = {}
    Workers = {w1}
    PaymentLimit = 1
    ParseLimit = 1
    SendLimit = 2
    MaxDeletions = 0
    MaxFaults = 1

SPECIFICATION InboxSpec

INVARIANT PaymentsAreKept
