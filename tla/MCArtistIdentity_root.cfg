SPECIFICATION ArtistSpec
CONSTANTS
    apple1 = apple1
    deezer1 = deezer1
    deezer2 = deezer2
    mb1 = mb1
    mb2 = mb2
    ArtistRoots = {apple1, deezer2}
    ArtistIds = {apple1, deezer1, deezer2}
    ProviderOfId <- MCProviderOfId
    LinksOfRoot <- Split
    Artists = {a1, a2}
    MaxCopies = 1
    MaxRuns <- Refreshed
    CatalogMatches = FALSE
    ArtistFaults = {}
    NoArtist = NoArtist
PROPERTIES
    RootKeepsItsArtist
CHECK_DEADLOCK FALSE
