SPECIFICATION CacheFairSpec
CONSTANTS
    Workers = {w1, w2}
    Bodies = {b1}
    SmallBodies = {b1}
    Prefixes = {current}
    current = current
    Prefix <- CurrentPrefix
    ReuseDuration = 1
    Retention = 1
    Grace = 0
    MaxTime = 1
    MaxFetches = 1
    CacheFaults = {"corrupt", "lifecycle", "crash", "lockexpiry", "evict", "error"}
    MaxFaults = 1
    Nothing = Nothing
    OldRows = FALSE
INVARIANTS
    SingleFlight
    PointerNamesObservation
PROPERTIES
    ResolveReturns
