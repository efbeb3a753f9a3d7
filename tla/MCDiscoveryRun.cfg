SPECIFICATION JobSpec
CONSTANTS
    Clients = {c1, c2}
    JobIds = {j1, j2}
    Refs = {r1}
    MaxAttempts = 2
    Outcomes = {"result", "error"}
    KnownIdentifiers = FALSE
    MaxCrashes = 1
    ExpiryMidway = TRUE
    Faults = {"crash", "error", "credential_ttl"}
    None = None
SYMMETRY Symmetry
INVARIANTS
    TerminalIsAnnounced
    CacheIsTrue
PROPERTIES
    CompletedStays
