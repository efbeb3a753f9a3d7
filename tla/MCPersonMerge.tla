--------------------------- MODULE MCPersonMerge ---------------------------
(* Constant definitions for model-checking PersonMerge. *)
EXTENDS PersonMerge

\* Two people at TMDB and one at TVmaze, who all have the same external identifiers.
CONSTANTS tmdb1, tmdb2, tvmaze1

MCRoots == {tmdb1, tmdb2, tvmaze1}
MCProviderOf == [r \in MCRoots |-> IF r = tvmaze1 THEN "tvmaze" ELSE "tmdb"]
MCLinksOf == [r \in MCRoots |-> Links]
==============================================================================
