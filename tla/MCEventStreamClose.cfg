SPECIFICATION StreamSpec
CONSTANTS
    s1 = s1
    s2 = s2
    Writers = {s1, s2}
    LastWriters = {s2}
    NoWriter = NoWriter
    EventBatch = 2
    MaxReconnects = 1
INVARIANTS
    ClosesAfterTerminal
CHECK_DEADLOCK FALSE
