---------------------------- MODULE MCMovieIngest ----------------------------
(* Two TMDB ids that may share the external ids imdb and wikidata, of which the first is *)
(* observed with them or without, ingested by two or three jobs.               *)
EXTENDS MovieIngest, TLC

CONSTANTS t1, t2, imdb, wikidata, j1, j2, j3

MCJobs == {j1, j2, j3}
MCTitleOf == (j1 :> t1 @@ j2 :> t2 @@ j3 :> t1)
TwoJobs == {j1, j2}
TwoTitlesOf == (j1 :> t1 @@ j2 :> t2)
SameTitleOf == (j1 :> t1 @@ j2 :> t1)
MCTitles == {t1, t2}
MCClaims == {t1, t2, imdb, wikidata}
MCEvidence == (t1 :> {<<t1>>, <<t1, imdb>>} @@ t2 :> {<<t2, imdb>>})
TwoShared == (t1 :> {<<t1, imdb, wikidata>>} @@ t2 :> {<<t2, imdb, wikidata>>})
OneList == (t1 :> {<<t1>>} @@ t2 :> {<<t2>>})
MCSlugOf == (t1 :> "slug" @@ t2 :> "slug")
OwnSlugOf == (t1 :> "slug" @@ t2 :> "other")
MCSlugs == {"slug", "other"}

Symmetry == Permutations(Entities)
==============================================================================
