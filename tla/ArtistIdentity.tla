--------------------------- MODULE ArtistIdentity ---------------------------
(***************************************************************************)
(* The merge that ends every artist ingestion (internal/artists/service.go   *)
(* and storefront.go): an artist is found by the ids the root record names,  *)
(* unless it already has another id of the root's provider; MusicBrainz may  *)
(* unite several; ids another artist collected itself stay with it, the      *)
(* others are disputed and may then be taken over; records of foreign roots  *)
(* are kept out of the document.                                             *)
(***************************************************************************)
EXTENDS Integers, Sequences, FiniteSets, SequencesExt, Redirects

CONSTANTS
    ArtistRoots,    \* provider ids that are ingested, each by one job at a time
    ArtistIds,      \* provider ids of artists
    ProviderOfId,   \* the provider of an id
    LinksOfRoot,    \* the lists of other ids the record of a root may name
    Artists,        \* canonical artists that may come to exist
    MaxCopies,      \* bound on the observations of an id
    MaxRuns,        \* bound on the runs of each root, attempts of one job included
    CatalogMatches, \* whether a release catalogue may match an artist
    ArtistFaults,   \* which of {"error", "crash"} occur
    NoArtist

ASSUME ArtistAssumption ==
    /\ MaxCopies \in Nat \ {0} /\ CatalogMatches \in BOOLEAN /\ NoArtist \notin Artists
    /\ ArtistRoots \subseteq ArtistIds /\ MaxRuns \in [ArtistRoots -> Nat]
    /\ ProviderOfId \in [ArtistIds -> {"musicbrainz", "apple", "deezer"}]
    /\ LinksOfRoot \in [ArtistRoots -> SUBSET Seq(ArtistIds)]

VARIABLES
    copies,         \* how many observations there are of an id
    attached,       \* normalized_records: the artist each observation of an id belongs to
    artistClaim,    \* external_id_claims
    artists,        \* entities of kind artist
    redirect,       \* entity_redirects: where a retired artist leads
    artistDocument, \* api_documents: the records a document combines
    merging,        \* local state of the job of a root
    artistRun       \* artist_ingestion_runs: the last run of a root

storedArtists == <<attached, artistClaim, artists, redirect, artistDocument>>
artistVars == <<copies, storedArtists, merging, artistRun>>

Copies == ArtistIds \X (1..MaxCopies)
AnyArtist == Artists \cup {NoArtist}
ClaimStates == {"none", "accepted", "disputed"}
ArtistClaim == [artist : AnyArtist, state : ClaimStates]
Nowhere == [c \in {} |-> NoArtist] \* nothing staged
NotMerging == [pc |-> "idle", ids |-> <<>>, records |-> {}, preferred |-> NoArtist, next |-> 1,
               found |-> {}, artist |-> NoArtist, retired |-> {}, claims |-> Nowhere,
               rows |-> Nowhere, document |-> {}]

ArtistInit ==
    /\ copies = [c \in ArtistIds |-> 0]
    /\ attached = [o \in Copies |-> NoArtist]
    /\ artistClaim = [c \in ArtistIds |-> [artist |-> NoArtist, state |-> "none"]]
    /\ artists = {}
    /\ redirect = [e \in Artists |-> NoArtist]
    /\ artistDocument = [e \in Artists |-> {}]
    /\ merging = [r \in ArtistRoots |-> NotMerging]
    /\ artistRun = [r \in ArtistRoots |-> [number |-> 0, state |-> "none", artist |-> NoArtist]]

Live == {e \in artists : redirect[e] = NoArtist}
MusicBrainz(r) == ProviderOfId[r] = "musicbrainz"
Doing(r, pc) == merging[r].pc = pc
Ends(r, state) ==
    /\ merging' = [merging EXCEPT ![r] = NotMerging]
    /\ artistRun' = [artistRun EXCEPT ![r].state = state]
    /\ UNCHANGED <<copies, storedArtists>>

-----------------------------------------------------------------------------
(* Collection *)

\* A new job, or another attempt of one that failed.
StartArtist(r) ==
    /\ Doing(r, "idle") /\ artistRun[r].number < MaxRuns[r]
    /\ merging' = [merging EXCEPT ![r].pc = "collect"]
    /\ artistRun' = [artistRun EXCEPT ![r] = [number |-> @.number + 1, state |-> "working", artist |-> NoArtist]]
    /\ UNCHANGED <<copies, storedArtists>>

\* The root, and the other ids it names as far as they answer (a storefront names its
\* counterpart once it has collected it), each fetched or read from the provider cache,
\* which leads to the record of the same observation.
CollectArtist(r) ==
    /\ Doing(r, "collect")
    /\ \E links \in LinksOfRoot[r], fresh \in SUBSET ArtistIds,
          preferred \in {NoArtist} \cup (IF CatalogMatches /\ ~MusicBrainz(r) THEN Live ELSE {}) :
       \E answering \in (IF MusicBrainz(r) THEN SUBSET ToSet(links) ELSE {ToSet(links)}) :
          LET collected == {r} \cup answering
          IN  /\ fresh \subseteq collected
              /\ \A c \in collected : IF c \in fresh THEN copies[c] < MaxCopies ELSE copies[c] > 0
              /\ copies' = [c \in ArtistIds |-> copies[c] + IF c \in fresh THEN 1 ELSE 0]
              /\ merging' = [merging EXCEPT ![r].pc = "resolve", ![r].ids = <<r>> \o links,
                     ![r].records = {<<c, copies'[c]>> : c \in collected}, ![r].preferred = preferred]
    /\ UNCHANGED <<storedArtists, artistRun>>

-----------------------------------------------------------------------------
(* mergeWithPreferred: the artists the root may belong to, read without a lock *)

\* artistEntityAcceptsRoot
Accepts(e, r) ==
    /\ \A c \in ArtistIds \ {r} :
          ProviderOfId[c] = ProviderOfId[r] => artistClaim[c] # [artist |-> e, state |-> "accepted"]
    /\ MusicBrainz(r) => \A o \in Copies : MusicBrainz(o[1]) /\ o[1] # r => attached[o] # e

ResolveArtistId(r) ==
    LET row == artistClaim[merging[r].ids[merging[r].next]] IN
    /\ Doing(r, "resolve") /\ merging[r].next <= Len(merging[r].ids)
    /\ merging' = [merging EXCEPT ![r].next = @ + 1, ![r].found =
           @ \cup {e \in {row.artist} : row.state = "accepted" /\ Accepts(e, r)}]
    /\ UNCHANGED <<copies, storedArtists, artistRun>>

\* The artist whose catalogue matched, when it is still there; otherwise the attempt fails.
ResolvePreferred(r) ==
    LET e == merging[r].preferred IN
    /\ Doing(r, "resolve") /\ merging[r].next > Len(merging[r].ids) /\ e # NoArtist
    /\ IF e \in Live
       THEN /\ merging' = [merging EXCEPT ![r].preferred = NoArtist,
                                          ![r].found = @ \cup {x \in {e} : Accepts(x, r)}]
            /\ UNCHANGED <<copies, storedArtists, artistRun>>
       ELSE Ends(r, "failed")

Decided(r) == Doing(r, "resolve") /\ merging[r].next > Len(merging[r].ids) /\ merging[r].preferred = NoArtist

\* A conflict row is committed and the attempt fails. MusicBrainz comes here as well when
\* the names differ or the evidence is not explicit.
ConflictingArtists(r) ==
    /\ Decided(r) /\ Cardinality(merging[r].found) > 1
    /\ Ends(r, "failed")

-----------------------------------------------------------------------------
(* What the transaction holds and has written *)

HeldArtists(r) == {merging[r].artist} \cup merging[r].retired
LockedElsewhere(r, es) == \E k \in ArtistRoots \ {r} : HeldArtists(k) \cap es # {}
FreeClaims(r, cs) == \A k \in ArtistRoots \ {r} : DOMAIN merging[k].claims \cap cs = {}
FreeRows(r, os) == \A k \in ArtistRoots \ {r} : DOMAIN merging[k].rows \cap os = {}

\* What a transaction sees: what it wrote itself, over what the others committed.
Overlay(new, old) == [x \in DOMAIN old |-> IF x \in DOMAIN new THEN new[x] ELSE old[x]]
ClaimsSeen(r) == Overlay(merging[r].claims, artistClaim)
RowsSeen(r) == Overlay(merging[r].rows, attached)
DirectlyObserved(r, c, e) == \E n \in 1..MaxCopies : RowsSeen(r)[<<c, n>>] = e

CreateArtist(r) ==
    /\ Decided(r) /\ merging[r].found = {}
    /\ \E e \in Artists \ artists :
          /\ ~LockedElsewhere(r, {e})
          /\ merging' = [merging EXCEPT ![r].pc = "claim", ![r].artist = e]
    /\ UNCHANGED <<copies, storedArtists, artistRun>>

\* Mutated form: the slug is read without FOR UPDATE.
LockArtistPlain(r) ==
    /\ Decided(r)
    /\ \E e \in Artists :
          /\ merging[r].found = {e}
          /\ merging' = [merging EXCEPT ![r].pc = "claim", ![r].artist = e]
    /\ UNCHANGED <<copies, storedArtists, artistRun>>

\* SELECT slug ... FOR UPDATE, which does not ask whether the artist is still live.
LockArtist(r) ==
    /\ Decided(r)
    /\ \E e \in Artists :
          /\ merging[r].found = {e} /\ ~LockedElsewhere(r, {e})
          /\ merging' = [merging EXCEPT ![r].pc = "claim", ![r].artist = e]
    /\ UNCHANGED <<copies, storedArtists, artistRun>>

\* Mutated form: neither liveness nor MusicBrainz ids are looked at again under the lock.
ConsolidateStale(r) ==
    LET found == merging[r].found
        own == {e \in found : artistClaim[r] = [artist |-> e, state |-> "accepted"]}
    IN  /\ Decided(r) /\ MusicBrainz(r) /\ Cardinality(found) > 1
        /\ \A k \in ArtistRoots : merging[k].retired = {}
        /\ ~LockedElsewhere(r, found)
        /\ \E survivor \in IF own # {} THEN own ELSE found :
              LET retired == found \ {survivor}
                  moved == {c \in ArtistIds : artistClaim[c].artist \in retired}
                  rows == {o \in Copies : attached[o] \in retired}
              IN  /\ FreeClaims(r, moved) /\ FreeRows(r, rows)
                  /\ merging' = [merging EXCEPT
                         ![r].pc = "claim", ![r].artist = survivor, ![r].retired = retired,
                         ![r].claims = [c \in moved |-> [artistClaim[c] EXCEPT !.artist = survivor]],
                         ![r].rows = [o \in rows |-> survivor]]
        /\ UNCHANGED <<copies, storedArtists, artistRun>>

\* consolidateMusicBrainzArtistRoots, under one advisory lock: the claims and records of the
\* retired artists move to the survivor.
Consolidate(r) ==
    LET found == merging[r].found
        own == {e \in found : artistClaim[r] = [artist |-> e, state |-> "accepted"]}
    IN  /\ Decided(r) /\ MusicBrainz(r) /\ Cardinality(found) > 1
        /\ \A k \in ArtistRoots : merging[k].retired = {}
        /\ ~LockedElsewhere(r, found)
        /\ found \subseteq Live
        /\ \A c \in ArtistIds \ {r} :
              MusicBrainz(c) /\ artistClaim[c].state = "accepted" => artistClaim[c].artist \notin found
        /\ \E survivor \in IF own # {} THEN own ELSE found :
              LET retired == found \ {survivor}
                  moved == {c \in ArtistIds : artistClaim[c].artist \in retired}
                  rows == {o \in Copies : attached[o] \in retired}
              IN  /\ FreeClaims(r, moved) /\ FreeRows(r, rows)
                  /\ merging' = [merging EXCEPT
                         ![r].pc = "claim", ![r].artist = survivor, ![r].retired = retired,
                         ![r].claims = [c \in moved |-> [artistClaim[c] EXCEPT !.artist = survivor]],
                         ![r].rows = [o \in rows |-> survivor]]
        /\ UNCHANGED <<copies, storedArtists, artistRun>>

-----------------------------------------------------------------------------
(* The claims of the root *)

\* A candidate: a free row, an own one and one that is not accepted become the artist's; a
\* root the owner collected itself stays as it is (a conflict row); others are disputed.
Judged(r, c) ==
    LET row == ClaimsSeen(r)[c]
        e == merging[r].artist
    IN  IF row.artist = e \/ row.state # "accepted" THEN [artist |-> e, state |-> "accepted"]
        ELSE IF DirectlyObserved(r, c, row.artist) THEN row
        ELSE [row EXCEPT !.state = "disputed"]

ForeignRoot(r) == \E c \in ToSet(merging[r].ids) :
    /\ MusicBrainz(c) /\ ClaimsSeen(r)[c].state = "accepted"
    /\ ClaimsSeen(r)[c].artist # merging[r].artist

\* A MusicBrainz id of another artist is an error.
RefuseForeignRoot(r) == Doing(r, "claim") /\ ForeignRoot(r) /\ Ends(r, "failed")

\* The candidates, and then disputeNonAuthoritativeArtistClaims: what the artist claims
\* without having collected it, and the root does not name.
ClaimArtistIds(r) ==
    LET candidates == ToSet(merging[r].ids)
        e == merging[r].artist
        doubtful == {c \in ArtistIds \ candidates :
                        /\ ClaimsSeen(r)[c] = [artist |-> e, state |-> "accepted"]
                        /\ ~DirectlyObserved(r, c, e)}
        written == [c \in candidates \cup doubtful |->
                       IF c \in candidates THEN Judged(r, c) ELSE [artist |-> e, state |-> "disputed"]]
    IN  /\ Doing(r, "claim") /\ ~ForeignRoot(r) /\ FreeClaims(r, DOMAIN written)
        /\ merging' = [merging EXCEPT ![r].pc = "attach", ![r].claims =
               [c \in DOMAIN @ \cup DOMAIN written |-> IF c \in DOMAIN written THEN written[c] ELSE @[c]]]
        /\ UNCHANGED <<copies, storedArtists, artistRun>>

-----------------------------------------------------------------------------
(* The records of the artist and its document *)

\* artistProviderRecordForeignOwner
Foreign(r, c) ==
    LET row == ClaimsSeen(r)[c]
    IN  /\ row.state # "none" /\ row.artist # merging[r].artist
        /\ row.artist \in Live \ merging[r].retired

\* A foreign record belongs to nobody from then on, even when it was its owner's; then
\* quarantineForeignArtistRecords does the same to what was attached before.
AttachArtistRecords(r) ==
    LET e == merging[r].artist
        records == merging[r].records
        quarantined == {o \in Copies : RowsSeen(r)[o] = e /\ Foreign(r, o[1])}
        written == [o \in records \cup quarantined |-> IF Foreign(r, o[1]) THEN NoArtist ELSE e]
        rows == Overlay(written, RowsSeen(r))
    IN  /\ Doing(r, "attach") /\ \E o \in records : ~Foreign(r, o[1])
        /\ FreeRows(r, DOMAIN written)
        /\ merging' = [merging EXCEPT ![r].pc = "commit",
               ![r].rows = [o \in DOMAIN @ \cup DOMAIN written |-> rows[o]],
               ![r].document = {o \in Copies : /\ rows[o] = e
                                               /\ \A n \in (o[2] + 1)..MaxCopies : rows[<<o[1], n>>] # e}]
        /\ UNCHANGED <<copies, storedArtists, artistRun>>

RejectForeignRecords(r) ==
    /\ Doing(r, "attach") /\ \A o \in merging[r].records : Foreign(r, o[1])
    /\ Ends(r, "failed")

\* The documents of the retired artists go, and their runs now name the survivor.
CommitArtist(r) ==
    LET e == merging[r].artist
        retired == merging[r].retired
    IN  /\ Doing(r, "commit")
        /\ attached' = RowsSeen(r)
        /\ artistClaim' = ClaimsSeen(r)
        /\ artists' = artists \cup {e}
        /\ redirect' = [x \in Artists |-> IF x \in retired THEN e ELSE redirect[x]]
        /\ artistDocument' = [x \in Artists |-> IF x \in retired THEN {}
                                                ELSE IF x = e THEN merging[r].document ELSE artistDocument[x]]
        /\ artistRun' = [k \in ArtistRoots |->
               IF k = r THEN [artistRun[r] EXCEPT !.state = "completed", !.artist = e]
               ELSE IF artistRun[k].artist \in retired THEN [artistRun[k] EXCEPT !.artist = e] ELSE artistRun[k]]
        /\ merging' = [merging EXCEPT ![r] = NotMerging]
        /\ UNCHANGED copies

\* A statement fails, or Postgres breaks a deadlock.
AbortArtist(r) == "error" \in ArtistFaults /\ ~Doing(r, "idle") /\ Ends(r, "failed")

\* The process dies; the run goes on saying working until the job is rescued.
CrashArtist(r) == "crash" \in ArtistFaults /\ ~Doing(r, "idle") /\ Ends(r, "working")

ArtistNext == \E r \in ArtistRoots :
    \/ StartArtist(r) \/ CollectArtist(r) \/ ResolveArtistId(r) \/ ResolvePreferred(r)
    \/ ConflictingArtists(r) \/ CreateArtist(r) \/ LockArtist(r) \/ Consolidate(r)
    \/ RefuseForeignRoot(r) \/ ClaimArtistIds(r) \/ AttachArtistRecords(r)
    \/ RejectForeignRecords(r) \/ CommitArtist(r) \/ AbortArtist(r) \/ CrashArtist(r)

ArtistSpec == ArtistInit /\ [][ArtistNext]_artistVars

-----------------------------------------------------------------------------
(* Properties *)

ArtistTypeOK ==
    /\ copies \in [ArtistIds -> 0..MaxCopies] /\ attached \in [Copies -> AnyArtist]
    /\ artistClaim \in [ArtistIds -> ArtistClaim] /\ artists \subseteq Artists
    /\ redirect \in [Artists -> AnyArtist] /\ artistDocument \in [Artists -> SUBSET Copies]
    /\ artistRun \in [ArtistRoots -> [number : Nat, state : {"none", "working", "failed", "completed"}, artist : AnyArtist]]
    /\ \A r \in ArtistRoots :
          LET m == merging[r]
          IN  /\ m.pc \in {"idle", "collect", "resolve", "claim", "attach", "commit"}
              /\ m.ids \in Seq(ArtistIds) /\ m.records \subseteq Copies /\ m.preferred \in AnyArtist
              /\ m.next \in Nat \ {0} /\ m.found \subseteq Artists /\ m.artist \in AnyArtist
              /\ m.retired \subseteq Artists /\ m.document \subseteq Copies
              /\ DOMAIN m.claims \subseteq ArtistIds /\ \A c \in DOMAIN m.claims : m.claims[c] \in ArtistClaim
              /\ DOMAIN m.rows \subseteq Copies /\ \A o \in DOMAIN m.rows : m.rows[o] \in AnyArtist

\* The newest attached record of every id is in the document of its artist, however the
\* merges of that artist, and the consolidations that move records to it, overlap.
ArtistKeepsEvidence == \A o \in Copies : attached[o] # NoArtist =>
    \E n \in o[2]..MaxCopies : <<o[1], n>> \in artistDocument[attached[o]]

\* From every retired artist the redirects lead to a live one, which CanonicalID finds unless
\* it is farther away than the query looks.
RetiredArtistsResolve == \A e \in artists :
    \E n \in 0..Cardinality(artists) :
        LET x == Following(redirect, NoArtist)[n][e]
        IN  x \in Live /\ (n <= RedirectDepth => Canonical(redirect, NoArtist, e) = x)

\* "A directly observed provider root also keeps ownership; an incompatible incoming
\* cross-link must not invalidate the good entity that already collected it"
\* (mergeWithPreferred): the claim its last ingestion left with an artist stays accepted
\* there, or goes with the artist when that is consolidated.
RootStays(r) ==
    LET e == artistClaim[r].artist
    IN  artistClaim[r].state = "accepted" /\ artistRun[r].state = "completed" /\ artistRun[r].artist = e
        => /\ artistClaim'[r].state = "accepted"
           /\ artistClaim'[r].artist = IF redirect'[e] = NoArtist THEN e ELSE redirect'[e]
RootKeepsItsArtist == [][\A r \in ArtistRoots : RootStays(r)]_artistVars
=============================================================================
