SPECIFICATION Spec
CONSTANTS
    j1 = j1
    w1 = w1
    p1 = p1
    s1 = s1
    Jobs = {j1}
    Workers = {w1}
    NoWorker = NoWorker
    Projects = {p1}
    Leaders = {s1}
    ProjectOf <- MCProjectOf
    Compatible <- MCCompatible
    Capacities <- MCOneCapacity
    MaxOutstanding <- MCMaxOutstanding
    MaxConcurrent <- MCMaxConcurrent
    MaxRunAttempts = 2
    LeaseTtl = 2
    StaleAfter = 1
    ClockSkew = 0
    WorkerOutcomes = {"passed", "infra_failed"}
    WorkerEvidence <- MCAllEvidence
    OperatorStates = {"online", "draining"}
    PartialBeats = TRUE
    MaxClock = 3
INVARIANTS
    TypeOK
    RowsConsistent
    CreditsLatestAttempt
    PassedAfterTests
    ExhaustionRecorded
    FollowersInformed
    FinalizersUnopposed
    CapacityAccounted
PROPERTIES
    CancellationSticks
    RecoveryOnlyWhenStale
    TerminalFrozen
    ImplementsContract
