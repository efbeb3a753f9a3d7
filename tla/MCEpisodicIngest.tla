-------------------------- MODULE MCEpisodicIngest --------------------------
(* Two jobs for a TMDB show and one for a TVMaze show which list the same TVDB *)
(* show or, as TMDB comes to know it later, do not.                            *)
EXTENDS EpisodicIngest, TLC

CONSTANTS tmdbShow, tvdbShow, mazeShow, k1, k2, k3

MCRootOf == (k1 :> tmdbShow @@ k2 :> mazeShow @@ k3 :> tmdbShow)
MCSourceOf == (tmdbShow :> "tmdb" @@ tvdbShow :> "tvdb" @@ mazeShow :> "tvmaze")
MCListings == (tmdbShow :> {<<>>, <<tvdbShow>>} @@ tvdbShow :> {<<>>} @@ mazeShow :> {<<tvdbShow>>})
=============================================================================
