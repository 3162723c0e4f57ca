SPECIFICATION PartsSpec

CONSTANTS
    p1 = p1
    p2 = p2
    p3 = p3
    h1 = h1
    h2 = h2
    l1 = l1
    l2 = l2
    l3 = l3
    c1 = c1
    c2 = c2
    e1 = e1
    w1 = w1
    w2 = w2
    s1 = s1
    s2 = s2
    s3 = s3
    k1 = k1
    a1 = a1
    a2 = a2
    Jobs = {1, 2, 3, 4, 5, 6}
    NoJob = NoJob
    Projects = {p1, p2, p3}
    LaneOf <- MCLaneOf
    ProjectOf <- MCProjectOf
    Capacity = 4
    InteractiveWeight = 2
    BatchWeight = 2
    PullBatch = 2
    Handlers = {h1, h2}
    MaxLeases = 2
    Reports = {"passed", "cancelled"}
    Claims <- MCClaims
    Stages = {"running_tests"}
    Provisioners = {l1, l2, l3}
    SettingsOf <- MCSettings
    Rejected = {"zero"}
    Drifted = {1, 3, 4}
    MaxU32 = 15
    MaxI64 = 127
    MaxUsize = 255
    MaxSeconds = 31
    Creators = {1, 2, 3}
    KeyOf <- OneKeyTwice
    Claimers = {c1, c2}
    Beats = {h1, h2}
    Closers = {e1}
    Severed = {c1}
    WorkerIds = {w1, w2}
    NoOne = NoOne
    Outstanding = 2
    Concurrent = 1
    CapacitySet = {0, 1}
    Writers = {s1, s2, s3}
    LastWriters = {s3}
    NoWriter = NoWriter
    EventBatch = 2
    MaxReconnects = 2
    SessionCalls = {a1, a2}
    Deadline = 4
    TokenTtl = 3
    MinLifetime = 1
    HostSkew = 1
    LastTime = 6
    Keys = {k1}
    Tenants = {p1, p2}
    AdminToken = AdminToken
    UnknownToken = UnknownToken
    NoTenant = NoTenant
    Calls = {a1, a2}
    RowKeys <- MCRowKeys
    Lists = {"jobs", "workers"}
    NewestFirst = {"jobs"}
    PageSize = 2

SYMMETRY Symmetry

CHECK_DEADLOCK FALSE

INVARIANTS
    Synchronized
    RequeueFits
    LaneWaitBounded
    ProjectWaitBounded
    AnswersAgree
    RoundsSuffice
    ProvisionedAsDesired
    NoWaitCycle
    FollowerHasPrefix
    OnlyEntitledServed
    WalkIsComplete

PROPERTIES
    ServedInOrder
    CommitsSerial
    SessionsGuarded
