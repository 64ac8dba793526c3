CONSTANTS
    w1 = w1
    w2 = w2
    NoWorker = NoWorker
    Workers = {w1, w2}
    Total = 4
    First = 2
    Legacy = {1}
    PageSize = 1
    MaxPages = 3
    HistorySize = 1
    BodyBatch = 1
    BodyTries = 1
    MaxFaults = 1

SPECIFICATION FairSpec

INVARIANTS
    TypeOK
    OneFate
    NoHole

PROPERTIES
    EveryNoticeStored
    BackToSteady
