------------------------------ MODULE MCIdentity ------------------------------
(* How the ingestions of movies, TV shows and artists find the entity they are  *)
(* about and rewrite it. Each kind has tables of its own, so a behaviour of     *)
(* this instance is one of one kind and their states add up.                    *)
EXTENDS MCMovieIngest, MCEpisodicIngest, MCArtistIdentity

VARIABLE subject \* the kind this behaviour is about

IdentityInit == subject \in {"movies", "shows", "artists"} /\ Init /\ EpisodicInit /\ ArtistInit

IdentityNext ==
    /\ UNCHANGED subject
    /\ \/ subject = "movies" /\ Next /\ UNCHANGED <<episodicVars, artistVars>>
       \/ subject = "shows" /\ EpisodicNext /\ UNCHANGED <<vars, artistVars>>
       \/ subject = "artists" /\ ArtistNext /\ UNCHANGED <<vars, episodicVars>>

IdentitySpec == IdentityInit /\ [][IdentityNext]_<<vars, episodicVars, artistVars, subject>>

\* What a run row says is written by an ingestion and never decides anything: states that
\* differ in it alone are explored once, so an attempt that fails and one that dies cost the same.
IdentityView ==
    <<subject,
      CASE subject = "movies" -> <<clock, committed, cache, conflicts, job, reader>>
        [] subject = "shows" -> <<storedShows, ingestion>>
        [] subject = "artists" -> <<copies, storedArtists, merging, [r \in ArtistRoots |-> artistRun[r].number]>>>>

\* Every variable of every kind has its type.
IdentityTypeOK == TypeOK /\ EpisodicTypeOK /\ ArtistTypeOK /\ subject \in {"movies", "shows", "artists"}
==============================================================================
