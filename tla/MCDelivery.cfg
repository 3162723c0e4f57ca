SPECIFICATION Spec

CONSTANTS
    j1 = j1
    s1 = s1
    s2 = s2
    Jobs = {j1}
    Leaders = {s1, s2}
    MaxTries = 2
    BufferSize = 1
    Reported = {"passed"}
    MaxSeq = 2
    MaxFaults = 1

SYMMETRY Symmetry

CHECK_DEADLOCK FALSE

INVARIANTS
    NoLostWork
