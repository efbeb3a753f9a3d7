-------------------------- MODULE MCArtistIdentity --------------------------
(* An Apple and a Deezer artist that a catalogue may match, and two MusicBrainz *)
(* artists that both name them; or an Apple artist with a Deezer profile of its *)
(* own, which another Deezer profile names as its counterpart.                  *)
EXTENDS ArtistIdentity, TLC

CONSTANTS apple1, deezer1, deezer2, mb1, mb2

MCProviderOfId == [c \in ArtistIds |-> IF c = apple1 THEN "apple"
                                       ELSE IF c \in {mb1, mb2} THEN "musicbrainz" ELSE "deezer"]
Linked == [r \in ArtistRoots |-> IF ProviderOfId[r] = "musicbrainz" THEN {<<apple1, deezer2>>} ELSE {<<>>}]
Split == (apple1 :> {<<deezer1>>} @@ deezer2 :> {<<apple1>>})
Once == [r \in ArtistRoots |-> 1]
Refreshed == (apple1 :> 1 @@ deezer2 :> 2)
=============================================================================
