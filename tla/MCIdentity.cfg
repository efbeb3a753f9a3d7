SPECIFICATION IdentitySpec
CONSTANTS
    t1 = t1
    t2 = t2
    imdb = imdb
    wikidata = wikidata
    j1 = j1
    j2 = j2
    j3 = j3
    Jobs <- MCJobs
    Titles <- MCTitles
    Claims <- MCClaims
    Entities = {e1, e2, e3}
    Slugs <- MCSlugs
    TitleOf <- MCTitleOf
    Evidence <- MCEvidence
    SlugOf <- MCSlugOf
    Readers = {}
    MaxObservations = 3
    MaxAttempts = 1
    Faults = {"error", "redis", "crash"}
    None = None
    tmdbShow = tmdbShow
    tvdbShow = tvdbShow
    mazeShow = mazeShow
    k1 = k1
    k2 = k2
    k3 = k3
    ShowJobs = {k1, k2, k3}
    RootOf <- MCRootOf
    ProviderIds = {tmdbShow, tvdbShow, mazeShow}
    SourceOf <- MCSourceOf
    Listings <- MCListings
    Shows = {e1, e2, e3}
    MaxResponses = 3
    ShowAttempts = 1
    ShowFaults = {"error", "crash"}
    NoShow = NoShow
    apple1 = apple1
    deezer1 = deezer1
    deezer2 = deezer2
    mb1 = mb1
    mb2 = mb2
    ArtistRoots = {apple1, deezer2, mb1, mb2}
    ArtistIds = {apple1, deezer2, mb1, mb2}
    ProviderOfId <- MCProviderOfId
    LinksOfRoot <- Linked
    Artists = {e1, e2, e3}
    MaxCopies = 1
    MaxRuns <- Once
    CatalogMatches = TRUE
    ArtistFaults = {"error", "crash"}
    NoArtist = NoArtist
SYMMETRY Symmetry
VIEW IdentityView
INVARIANTS
    IdentityTypeOK
    EvidenceOwnsItsClaims
    DocumentIsCurrent
    DocumentKeepsEvidence
    ArtistKeepsEvidence
    RetiredArtistsResolve
CHECK_DEADLOCK FALSE
