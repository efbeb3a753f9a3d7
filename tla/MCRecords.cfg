SPECIFICATION RecordsSpec
CONSTANTS
    Workers = {w1, w2}
    Bodies = {b1}
    SmallBodies = {b1}
    Prefixes = {current, old}
    current = current
    Prefix <- CurrentPrefix
    ReuseDuration = 1
    Retention = 1
    Grace = 1
    MaxTime = 3
    MaxFetches = 2
    CacheFaults = {}
    MaxFaults = 0
    Nothing = Nothing
    OldRows = TRUE
    tmdb1 = tmdb1
    tmdb2 = tmdb2
    tvmaze1 = tvmaze1
    Roots <- MCRoots
    ProviderOf <- MCProviderOf
    Credited = {tvmaze1}
    Links = {imdb1}
    LinksOf <- MCLinksOf
    Reconcilers = {r1}
    Nobody = Nobody
INVARIANTS
    RecordsTypeOK
    LiveRowHasObject
    RetiredResolve
    NothingLeftBehind
PROPERTIES
    NoNeedlessFetch
    DecisionsStand
