------------------------------ MODULE MCProgress ------------------------------
(* What must happen in the end in the components that poll, sweep and retry:   *)
(* discovery runs, read counters, images, the refresh, the outbox drain, the   *)
(* request gate, fingerprint runs, artists' discographies and the merges of    *)
(* movies. They share the job queue and no other state, so a behaviour of this *)
(* instance is one of one of them: their states add up instead of multiplying. *)
EXTENDS DiscoveryRun, AccessStats, ImageCache, RefreshScheduler, OutboxDrain, RequestGate, FingerprintRun,
        ArtistCatalog

VARIABLE subject \* the component this behaviour is about
VARIABLES movieClock, movieRecords, movies, movieClaims, movieDocument, movieCache, movieConflicts,
          movieRun, movieJob, movieReader \* those of MovieIngest

Subjects == {"discovery", "access", "images", "refresh", "drain", "gate", "fingerprint", "catalog", "movies"}
movieVars == <<movieClock, movieRecords, movies, movieClaims, movieDocument, movieCache, movieConflicts,
               movieRun, movieJob, movieReader>>
allVars == <<vars, accessVars, imageVars, refreshVars, drainVars, gateVars, fingerprintVars, catalogVars, movieVars,
             subject>>

\* Two merges, of two titles, that share two external ids, in one order, and need both. The
\* instance is one of the module with the proofs, whose theorems Progress_proofs applies to it.
Movie == INSTANCE MovieIngest_proofs WITH
    Jobs <- {"t1", "t2"}, Titles <- {"t1", "t2"}, Claims <- {"t1", "t2", "x", "y"}, Entities <- {"m1", "m2"},
    Slugs <- {"slug1", "slug2"}, TitleOf <- [j \in {"t1", "t2"} |-> j],
    Evidence <- [t \in {"t1", "t2"} |-> {<<t, "x", "y">>}],
    SlugOf <- [t \in {"t1", "t2"} |-> IF t = "t1" THEN "slug1" ELSE "slug2"],
    Readers <- {"r1"}, MaxObservations <- 2, MaxAttempts <- 2, Faults <- {}, None <- "none",
    clock <- movieClock, records <- movieRecords, entities <- movies, claims <- movieClaims,
    document <- movieDocument, cache <- movieCache, conflicts <- movieConflicts, run <- movieRun,
    job <- movieJob, reader <- movieReader

\* Two images with the same bytes, an image that is asked for as it is and in another size,
\* and a source that is no image. What a scenario leaves out adds nothing to it but states.
CONSTANTS i1, i2, u1
Asking(requests, followed, faults, maxYears) ==
    [requests |-> requests, followed |-> followed, faults |-> faults, maxFaults |-> 1, maxYears |-> maxYears]
Both == {<<i1, "original">>, <<i1, "variant">>}
ImageScenarios ==
    {Asking({<<i1, "original">>, <<i2, "original">>}, <<i1, "original">>, {"error", "crash"}, 1)}
    \cup {Asking(Both, <<i1, "variant">>, {"error", "pause"}, 0)}
    \cup {Asking({r}, r, {"error", "crash"}, 1) : r \in {<<i1, "variant">>, <<u1, "variant">>}}
Bytes == [i \in {i1, i2, u1} |-> IF i = u1 THEN "text" ELSE "picture"]

\* Two artists who share a release: MusicBrainz and a storefront list it, under one id or two, or
\* tracks bridge the two; two storefronts list one release or two; or all that can fail fails.
CONSTANTS solo, guest, m1, d1, a1
Listing(sources, rep) == [sources |-> sources, rep |-> rep, promotable |-> TRUE, bridged |-> rep = m1]
Hopeless(source) == [sources |-> {source}, rep |-> source, promotable |-> FALSE, bridged |-> FALSE]
World(ofSolo, ofGuest, ids, faults) ==
    [catalogs |-> [a \in {solo, guest} |-> IF a = solo THEN ofSolo ELSE ofGuest],
     identities |-> [m \in {m1} |-> ids], faults |-> faults, maxFaults |-> 1]
Single == <<Listing({d1}, d1)>>
MCWorlds ==
    {World({Single}, {<<>>, Single}, {{m1, d1}}, {}),
     World({<<Listing({m1, d1}, m1)>>}, {<<>>, Single}, {{m1}}, {}),
     World({<<Listing({d1, a1}, d1)>>}, {Single, <<Listing({d1}, d1), Listing({a1}, a1)>>}, {}, {}),
     World({<<Listing({d1}, d1), Hopeless(a1)>>}, {<<>>}, {}, {"error", "dropped", "crash"})}

\* What the behaviour is not about stays in one initial state.
ProgressInit ==
    /\ subject \in Subjects
    /\ Init /\ AccessInit /\ ImageInit /\ RefreshInit /\ DrainInit /\ GateInit /\ FingerprintInit
    /\ CatalogInit
    /\ Movie!Init
    /\ subject # "images" => scenario = CHOOSE s \in Scenarios : TRUE
    /\ \A e \in Tracked : kindOf[e] = 1 \/ (subject = "refresh" /\ e \notin Demanded \cup Refusing)
    /\ subject # "drain" => \A f \in Feeds : condition[f] = "works"
    /\ subject # "catalog" => world = CHOOSE w \in Worlds : TRUE
    /\ subject # "gate" => \A i \in Intervals : interval <= i

ProgressNext ==
    /\ UNCHANGED subject
    /\ \/ /\ subject = "discovery" /\ Next
          /\ UNCHANGED <<accessVars, imageVars, refreshVars, drainVars, gateVars, fingerprintVars, catalogVars, movieVars>>
       \/ /\ subject = "access" /\ AccessNext
          /\ UNCHANGED <<vars, imageVars, refreshVars, drainVars, gateVars, fingerprintVars, catalogVars, movieVars>>
       \/ /\ subject = "images" /\ ImageNext
          /\ UNCHANGED <<vars, accessVars, refreshVars, drainVars, gateVars, fingerprintVars, catalogVars, movieVars>>
       \/ /\ subject = "refresh" /\ RefreshNext
          /\ UNCHANGED <<vars, accessVars, imageVars, drainVars, gateVars, fingerprintVars, catalogVars, movieVars>>
       \/ /\ subject = "drain" /\ DrainNext
          /\ UNCHANGED <<vars, accessVars, imageVars, refreshVars, gateVars, fingerprintVars, catalogVars, movieVars>>
       \/ /\ subject = "gate" /\ GateNext
          /\ UNCHANGED <<vars, accessVars, imageVars, refreshVars, drainVars, fingerprintVars, catalogVars, movieVars>>
       \/ /\ subject = "fingerprint" /\ FingerprintNext
          /\ UNCHANGED <<vars, accessVars, imageVars, refreshVars, drainVars, gateVars, catalogVars, movieVars>>
       \/ /\ subject = "movies" /\ Movie!Next
          /\ UNCHANGED <<vars, accessVars, imageVars, refreshVars, drainVars, gateVars, fingerprintVars, catalogVars>>
       \/ /\ subject = "catalog" /\ CatalogNext
          /\ UNCHANGED <<vars, accessVars, imageVars, refreshVars, drainVars, gateVars, fingerprintVars, movieVars>>

ProgressSpec == ProgressInit /\ [][ProgressNext]_allVars

-----------------------------------------------------------------------------
(* Properties: those of the components, each over the behaviours it is about and *)
(* under the fairness its module states for it.                                  *)

\* Every variable of every component has its type.
AllTypeOK ==
    /\ TypeOK /\ AccessTypeOK /\ ImageTypeOK /\ RefreshTypeOK /\ DrainTypeOK /\ GateTypeOK /\ FingerprintTypeOK
    /\ CatalogTypeOK /\ Movie!TypeOK
    /\ subject \in Subjects

\* A caller of the discovery API that polls, and submits again on expiry, is answered, unless runs
\* that have ended are started over for ever.
DiscoveryIsAnswered == subject = "discovery" /\ Fairness => EventuallyAnswered

\* Every counted read reaches entity_access_stats, unless its entity goes or the claim is lost.
AccessIsPersisted == subject = "access" /\ AccessFairness => ReadsArePersisted

\* A client that keeps asking for an image gets it or a refusal.
ImageIsServed == subject = "images" /\ ImageFairness => EventuallyServed

\* An entity that is long overdue is refreshed, however little it is in demand, as long as the
\* selection of its kind can hold what falls due.
RefreshReachesAll == subject = "refresh" /\ RefreshFairness => EveryEntityIsRefreshed

\* A feed is drained although the other one fails or hangs.
DrainIsIndependent == subject = "drain" /\ DrainFairness => HealthyFeedDrains

\* A fingerprint run ends or is deleted.
FingerprintRunEnds == subject = "fingerprint" /\ FingerprintFairness => EveryRunEnds

\* The discography of an artist is right in the end, whatever others left behind.
CatalogueConverges == subject = "catalog" => CatalogConverges

\* Two merges that want the same claims, in one order, do not wait for each other for ever.
MovieMergesEnd == subject = "movies" /\ Movie!MovieFairness => Movie!MergesEnd
==============================================================================
