SPECIFICATION FairSpec

CONSTANTS
    t1 = t1
    t2 = t2
    i1 = i1
    i2 = i2
    Rows = {1, 2}
    Poison = {1}
    Tasks = {t1, t2}
    Ids = {i1, i2}
    NoId = NoId
    Batch = 2
    LeaseTimeout = 3
    PublishTimeout = 2
    MaxDelay = 1
    MaxFaults = 2

CHECK_DEADLOCK FALSE

INVARIANTS
    PublishedMeansStored
    ExclusivePublish

PROPERTIES
    EveryRowPublished
