SPECIFICATION HealthySpec
CONSTANTS
    j1 = j1
    w1 = w1
    p1 = p1
    s1 = s1
    Jobs = {j1}
    Workers = {w1}
    NoWorker = NoWorker
    Projects = {p1}
    Leaders = {s1}
    ProjectOf <- MCProjectOf
    Compatible <- MCCompatible
    Capacities <- MCCapacity
    MaxOutstanding <- MCLimit
    MaxConcurrent <- MCLimit
    MaxRunAttempts = 2
    LeaseTtl = 3
    StaleAfter = 2
    ClockSkew = 0
    WorkerOutcomes = {"passed", "failed"}
    WorkerEvidence <- MCEvidence
    OperatorStates = {}
    PartialBeats = FALSE
    MaxClock = 8
CHECK_DEADLOCK FALSE
INVARIANTS
    NoSpuriousRedelivery
