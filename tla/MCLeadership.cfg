SPECIFICATION Spec
CONSTANTS
    s1 = s1
    s2 = s2
    s3 = s3
    Instances = {s1, s2, s3}
    NoInstance = NoInstance
    Orphan = Orphan
    MaxFaults = 3
INVARIANTS
    WorkUnderLock
PROPERTIES
    Settles
CHECK_DEADLOCK FALSE
