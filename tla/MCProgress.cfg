SPECIFICATION ProgressSpec
CONSTANTS
    Clients = {c1, c2}
    JobIds = {j1}
    Refs = {}
    MaxAttempts = 1
    Outcomes = {"result", "error", "snooze"}
    KnownIdentifiers = TRUE
    MaxCrashes = 1
    ExpiryMidway = FALSE
    Faults = {"crash"}
    None = None
    Entities = {e1, e2}
    Deletable = {e2}
    Flushers = {f1, f2}
    Limit = 2
    MaxFetches = 2
    MaxRepeated = 1
    AccessFaults = {"error", "unknown", "crash", "redis"}
    i1 = i1
    i2 = i2
    u1 = u1
    Images = {i1, i2}
    Unsupported = {u1}
    BytesOf <- Bytes
    Scenarios <- ImageScenarios
    Tracked = {"hot", "refused", "cold"}
    Kinds = 2
    Demanded = {"hot"}
    Refusing = {"refused"}
    SelectLimit = 2
    HotHours = 2
    ColdHours = 3
    Feeds = {"changes", "workflows"}
    MaxRows = 3
    BatchSize = 1
    MaxBatches = 2
    MaxDeaths = 1
    Callers = {g1, g2, g3}
    Refused = {g3}
    Intervals = {1, 2}
    Cooldowns = {0, 1, 3}
    Runs = {run1, run2}
    Requesters = {q1, q2}
    Keyed = {q1}
    MatchAttempts = 2
    solo = solo
    guest = guest
    m1 = m1
    d1 = d1
    a1 = a1
    Artists = {solo, guest}
    Sources = {m1, d1, a1}
    Spine = {m1}
    Groups = {"g1", "g2", "g3"}
    Worlds <- MCWorlds
    Nothing = Nothing
INVARIANTS
    AllTypeOK
    CountsAreConserved
    StorageIsFindable
PROPERTIES
    SharedBytesStay
    SpacedRequests
    DiscoveryIsAnswered
    AccessIsPersisted
    ImageIsServed
    RefreshReachesAll
    DrainIsIndependent
    FingerprintRunEnds
    CatalogueConverges
    MovieMergesEnd
CHECK_DEADLOCK FALSE
