SPECIFICATION Spec
CONSTANTS
    t1 = t1
    t2 = t2
    t3 = t3
    e1 = e1
    e2 = e2
    ingest = ingest
    drain = drain
    c1 = c1
    Txs = {t1, t2, t3}
    Entities = {e1, e2}
    Sequencers = {ingest, drain}
    Drainer = drain
    Consumers = {c1}
    Batch = 2
    Limit = 1
    Operations = {"backup", "restore"}
    MaxStreams = 1
SYMMETRY Symmetric
INVARIANT AcceptedIsSafe
CHECK_DEADLOCK FALSE
