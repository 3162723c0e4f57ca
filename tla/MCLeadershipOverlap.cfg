SPECIFICATION Spec
CONSTANTS
    s1 = s1
    s2 = s2
    s3 = s3
    Instances = {s1, s2}
    NoInstance = NoInstance
    Orphan = Orphan
    MaxFaults = 1
INVARIANTS
    OneProcessor
CHECK_DEADLOCK FALSE
