SPECIFICATION Spec
CONSTANTS
    t1 = t1
    t2 = t2
    imdb = imdb
    wikidata = wikidata
    j1 = j1
    j2 = j2
    j3 = j3
    Jobs <- TwoJobs
    Titles <- MCTitles
    Claims <- MCClaims
    Entities = {e1, e2}
    Slugs <- MCSlugs
    TitleOf <- SameTitleOf
    Evidence <- OneList
    SlugOf <- MCSlugOf
    Readers = {}
    MaxObservations = 2
    MaxAttempts = 1
    Faults = {}
    None = None
SYMMETRY Symmetry
PROPERTIES
    CacheNeverRegresses
CHECK_DEADLOCK FALSE
