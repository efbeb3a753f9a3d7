SPECIFICATION PersonSpec
CONSTANTS
    tmdb1 = tmdb1
    tmdb2 = tmdb2
    tvmaze1 = tvmaze1
    Roots <- MCRoots
    ProviderOf <- MCProviderOf
    Credited = {tvmaze1}
    Links = {imdb1}
    LinksOf <- MCLinksOf
    Reconcilers = {r1}
    Nobody = Nobody
PROPERTIES
    SameProviderIsReviewed
