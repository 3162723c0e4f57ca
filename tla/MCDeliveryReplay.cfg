SPECIFICATION Spec

CONSTANTS
    j1 = j1
    s1 = s1
    s2 = s2
    Jobs = {j1}
    Leaders = {s1}
    MaxTries = 1
    BufferSize = 1
    Reported = {"passed"}
    MaxSeq = 3
    MaxFaults = 1

CHECK_DEADLOCK FALSE

INVARIANTS
    LetterBeforeRetirement
