SPECIFICATION JobSpec
CONSTANTS
    Clients = {c1, c2}
    JobIds = {j1, j2}
    Refs = {}
    MaxAttempts = 1
    Outcomes = {"result", "error"}
    KnownIdentifiers = FALSE
    MaxCrashes = 0
    ExpiryMidway = TRUE
    Faults = {}
    None = None
SYMMETRY Symmetry
INVARIANTS
    AcceptedIsBacked
