SPECIFICATION FairSpec

CONSTANTS
    j1 = j1
    s1 = s1
    Jobs = {j1}
    Leaders = {s1}
    MaxLeases = 1
    Grace = 1
    PassTime = 1
    MaxFaults = 0

PROPERTIES
    CancellationProgresses
