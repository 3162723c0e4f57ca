SPECIFICATION FairSpec

CONSTANTS
    j1 = j1
    s1 = s1
    Jobs = {j1}
    Leaders = {s1}
    MaxLeases = 2
    Grace = 2
    PassTime = 1
    MaxFaults = 2

INVARIANTS
    OwnerKept
    GraceKept

PROPERTIES
    FinalizedAfterCleanup
    AbandonedReaped
    ClosingEnds
