SPECIFICATION FairSpec

CONSTANTS
    j1 = j1
    s1 = s1
    s2 = s2
    Jobs = {j1}
    Leaders = {s1}
    MaxTries = 1
    BufferSize = 1
    Reported = {"passed"}
    MaxSeq = 5
    MaxFaults = 2

CHECK_DEADLOCK FALSE

PROPERTIES
    EveryJobEnds
    QueueDrains
    LettersArrive
