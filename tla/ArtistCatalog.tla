----------------------------- MODULE ArtistCatalog -----------------------------
(* The discography of artists (musiccatalog/service.go SyncArtist) and the      *)
(* release groups it promotes (releasegroups/catalog.go, releasegroups/         *)
(* service.go merge). A synchronisation is not a transaction: its statements    *)
(* commit one by one while another artist's, which may list the same releases,  *)
(* and the ingestion of release groups from MusicBrainz run beside it. What the *)
(* providers list is a sequence of clusters; matching titles, dates and tracks  *)
(* has already made them.                                                       *)
EXTENDS Naturals, FiniteSets, Sequences

CONSTANTS
    Artists,           \* artist entities
    Sources,           \* records of providers' catalogues
    Spine,             \* those of MusicBrainz
    Groups,            \* ids of release group entities
    Worlds,            \* records of what providers may list and what may fail:
                       \*   catalogs[a], the sequences of clusters a synchronisation of a may find,
                       \*   identities[m], the sets of ids an ingestion of m may collect,
                       \*   faults, a subset of {"error", "dropped", "crash"}, and maxFaults
    Nothing

\* What a catalogue says of a release, after its records have been matched.
Listings == {l \in [sources : SUBSET Sources, rep : Sources, promotable : BOOLEAN, bridged : BOOLEAN] :
               l.rep \in l.sources}

\* Every group owns a claim when it is made, so there are ids enough.
ASSUME CatalogAssumption ==
    /\ Spine \subseteq Sources /\ Nothing \notin Groups
    /\ IsFiniteSet(Sources) /\ IsFiniteSet(Groups) /\ Cardinality(Sources) <= Cardinality(Groups)
    /\ \A w \in Worlds :
         /\ \A a \in Artists : w.catalogs[a] \subseteq Seq(Listings)
         /\ \A m \in Spine : \A ids \in w.identities[m] : m \in ids /\ ids \subseteq Sources
         /\ w.maxFaults \in Nat

VARIABLES
    claimOf,       \* [Sources -> Groups \cup {Nothing}]: accepted external_id_claims
    liveGroups,    \* groups with deleted_at IS NULL
    independent,   \* groups with a record that no catalogue made
    promotion,     \* [Artists -> [Groups -> state]]: artist_catalog_promotions
    discography,   \* [Artists -> [Sources -> relation]]: entity_relations of that type, by provider_value
    sync,          \* [Artists -> what the job of the artist holds]
    ingesting,     \* [Spine -> what an ingestion has resolved]
    catalogFaults, \* how many faults have struck
    world          \* that of this behaviour

catalogVars == <<claimOf, liveGroups, independent, promotion, discography, sync, ingesting, catalogFaults, world>>
tables == <<claimOf, liveGroups, independent, promotion, discography>>

Unlisted == [state |-> "none", target |-> Nothing, alternates |-> {}]
Unresolved(listing) == [sources |-> listing.sources, rep |-> listing.rep, promotable |-> listing.promotable,
                        bridged |-> listing.bridged, state |-> "new", target |-> Nothing, alternates |-> {}]
AtRest == [pc |-> "idle", clusters |-> <<>>, next |-> 1, into |-> Nothing, orphans |-> {}]
NotIngesting == [ids |-> {}, into |-> Nothing]

CatalogInit ==
    /\ claimOf = [s \in Sources |-> Nothing]
    /\ liveGroups = {} /\ independent = {}
    /\ promotion = [a \in Artists |-> [g \in Groups |-> "none"]]
    /\ discography = [a \in Artists |-> [s \in Sources |-> Unlisted]]
    /\ sync = [a \in Artists |-> AtRest]
    /\ ingesting = [m \in Spine |-> NotIngesting]
    /\ catalogFaults = 0
    /\ world \in Worlds

-----------------------------------------------------------------------------
(* Merging records into a release group: one transaction. Claims are resolved   *)
(* without a lock, and whether the group is deleted does not matter; attaching  *)
(* them is guarded by their owner; the group comes back to life.                *)

Owners(ids) == {claimOf[s] : s \in ids} \ {Nothing}

\* A group that does not exist yet: every one that does owns a claim.
NewGroup == CHOOSE g \in Groups : \A s \in Sources : claimOf[s] # g
Into(owner) == IF owner = Nothing THEN NewGroup ELSE owner
Attachable(ids, owner) == \A s \in ids : claimOf[s] \in {Nothing, owner}

\* Mutated form: a merge updates a deleted release group and leaves it deleted.
MergeIntoDeleted(ids, g) ==
    /\ claimOf' = [s \in Sources |-> IF s \in ids THEN g ELSE claimOf[s]]
    /\ liveGroups' = IF \E s \in Sources : claimOf[s] = g THEN liveGroups ELSE liveGroups \cup {g}
    /\ discography' = [a \in Artists |-> [s \in Sources |->
           IF s \in ids /\ discography[a][s].state = "accepted"
           THEN [discography[a][s] EXCEPT !.target = g] ELSE discography[a][s]]]

MergeInto(ids, g) ==
    /\ claimOf' = [s \in Sources |-> IF s \in ids THEN g ELSE claimOf[s]]
    /\ liveGroups' = liveGroups \cup {g}
    /\ discography' = [a \in Artists |-> [s \in Sources |->
           IF s \in ids /\ discography[a][s].state = "accepted"
           THEN [discography[a][s] EXCEPT !.target = g] ELSE discography[a][s]]]

-----------------------------------------------------------------------------
(* The synchronisation of one artist. *)

Current(a) == sync[a].clusters[sync[a].next]
IsLast(a) == sync[a].next = Len(sync[a].clusters)
Struck(kind) == /\ kind \in world.faults /\ catalogFaults < world.maxFaults
                /\ catalogFaults' = catalogFaults + 1 /\ UNCHANGED world
Calm == UNCHANGED <<catalogFaults, world>>

\* What the catalogues of the providers say today, matched into clusters.
Collect(a) ==
    /\ sync[a].pc = "idle"
    /\ \E catalog \in world.catalogs[a] :
         sync' = [sync EXCEPT ![a] = [AtRest EXCEPT !.pc = "supersede", !.clusters =
                    [i \in DOMAIN catalog |-> Unresolved(catalog[i])]]]
    /\ UNCHANGED <<tables, ingesting>> /\ Calm

\* The error of this statement is dropped.
SupersedePromotions(a) ==
    /\ sync[a].pc = "supersede"
    /\ \/ /\ promotion' = [promotion EXCEPT ![a] = [g \in Groups |-> IF @[g] = "none" THEN "none" ELSE "superseded"]]
          /\ Calm
       \/ UNCHANGED promotion /\ Struck("dropped")
    /\ sync' = [sync EXCEPT ![a].pc = IF sync[a].clusters = <<>> THEN "relist" ELSE "promote"]
    /\ UNCHANGED <<claimOf, liveGroups, independent, discography, ingesting>>

\* The groups the sources of a cluster lead to, without the deleted ones.
ClusterTargets(cluster) == {g \in liveGroups : \E s \in cluster.sources : claimOf[s] = g}
IsSpine(cluster) == cluster.sources \cap Spine # {}
Public(cluster) == IsSpine(cluster) \/ cluster.state \in {"spine", "canonical", "promoted"}

\* The loop of promoteProviderOnlyClusters goes on to the next cluster.
Settled(a, state) ==
    sync' = [sync EXCEPT ![a].clusters[sync[a].next].state = state,
                         ![a].into = Nothing,
                         ![a].next = IF IsLast(a) THEN 1 ELSE @ + 1,
                         ![a].pc = IF IsLast(a) THEN "coalesce" ELSE "promote"]

Classify(a) ==
    /\ sync[a].pc = "promote"
    /\ LET cluster == Current(a)
           targets == ClusterTargets(cluster)
       IN \/ IsSpine(cluster) /\ Settled(a, "spine") /\ Calm
          \/ ~IsSpine(cluster) /\ Settled(a, "promotion_failed") /\ Struck("error")
          \/ /\ ~IsSpine(cluster) /\ Calm
             /\ \/ Cardinality(targets) > 1 /\ Settled(a, "identity_conflict")
                \/ Cardinality(targets) = 1 /\ targets \subseteq independent /\ Settled(a, "canonical")
                \/ /\ Cardinality(targets) <= 1 /\ targets \cap independent = {}
                   /\ \/ ~cluster.promotable /\ Settled(a, "unresolved_single_provider")
                      \/ cluster.promotable /\ sync' = [sync EXCEPT ![a].pc = "resolve"]
    /\ UNCHANGED <<tables, ingesting>>

ResolvePromoted(a) ==
    /\ sync[a].pc = "resolve"
    /\ LET owners == Owners(Current(a).sources)
       IN \/ Cardinality(owners) > 1 /\ Settled(a, "promotion_failed")
          \/ owners = {} /\ sync' = [sync EXCEPT ![a].pc = "merge"]
          \/ \E g \in owners : owners = {g} /\ sync' = [sync EXCEPT ![a].pc = "merge", ![a].into = g]
    /\ UNCHANGED <<tables, ingesting>> /\ Calm

\* A claim that has gone to another group since, or a failing statement, rolls back.
MergePromoted(a) ==
    /\ sync[a].pc = "merge"
    /\ LET ids == Current(a).sources
           owner == sync[a].into
       IN \/ /\ Attachable(ids, owner) /\ MergeInto(ids, Into(owner)) /\ Calm
             /\ sync' = [sync EXCEPT ![a].pc = "activate", ![a].into = Into(owner)]
          \/ /\ (~Attachable(ids, owner) /\ Calm) \/ Struck("error")
             /\ Settled(a, "promotion_failed")
             /\ UNCHANGED <<claimOf, liveGroups, discography>>
    /\ UNCHANGED <<independent, promotion, ingesting>>

\* Redis may refuse the document after the commit; the error of the insert is dropped.
ActivatePromotion(a) ==
    /\ sync[a].pc = "activate"
    /\ \/ promotion' = [promotion EXCEPT ![a][sync[a].into] = "active"] /\ Settled(a, "promoted") /\ Calm
       \/ UNCHANGED promotion /\ Settled(a, "promoted") /\ Struck("dropped")
       \/ UNCHANGED promotion /\ Settled(a, "promotion_failed") /\ Struck("error")
    /\ UNCHANGED <<claimOf, liveGroups, independent, discography, ingesting>>

\* Target and alternates of a cluster: the one group its sources lead to, or the one independent
\* group if tracks or a barcode bridge the cluster to the spine.
Targeted(cluster) ==
    LET targets == ClusterTargets(cluster)
        preferred == targets \cap independent
    IN IF Cardinality(targets) = 1 THEN [cluster EXCEPT !.target = CHOOSE g \in targets : TRUE]
       ELSE IF cluster.bridged /\ Cardinality(preferred) = 1
       THEN [cluster EXCEPT !.target = CHOOSE g \in preferred : TRUE, !.alternates = targets \ preferred]
       ELSE cluster

\* Positions in a sequence, first to last.
InOrder(positions) ==
    CHOOSE order \in [1..Cardinality(positions) -> positions] : \A i, j \in DOMAIN order : i < j => order[i] < order[j]

\* Clusters with the same target become the first of them; a spine makes it part of the spine.
Coalesced(clusters) ==
    LET sameAs(i) == {j \in DOMAIN clusters : clusters[j].target = clusters[i].target}
        firsts == {i \in DOMAIN clusters : clusters[i].target = Nothing \/ \A j \in sameAs(i) : i <= j}
        joined(i) == IF clusters[i].target # Nothing /\ \E j \in sameAs(i) : IsSpine(clusters[j])
                     THEN [clusters[i] EXCEPT !.state = "spine"] ELSE clusters[i]
    IN [k \in 1..Cardinality(firsts) |-> joined(InOrder(firsts)[k])]

CoalesceCluster(a) ==
    /\ sync[a].pc = "coalesce"
    /\ LET clusters == [sync[a].clusters EXCEPT ![sync[a].next] = Targeted(@)]
       IN sync' = [sync EXCEPT ![a].clusters = IF IsLast(a) THEN Coalesced(clusters) ELSE clusters,
                               ![a].next = IF IsLast(a) THEN 1 ELSE @ + 1,
                               ![a].pc = IF IsLast(a) THEN "relist" ELSE "coalesce"]
    /\ UNCHANGED <<tables, ingesting>> /\ Calm

SupersedeListing(a) ==
    /\ sync[a].pc = "relist"
    /\ discography' = [discography EXCEPT ![a] = [s \in Sources |->
           IF @[s].state = "accepted" THEN [@[s] EXCEPT !.state = "superseded"] ELSE @[s]]]
    /\ sync' = [sync EXCEPT ![a].pc = IF sync[a].clusters = <<>> THEN "reactivate" ELSE "list"]
    /\ UNCHANGED <<claimOf, liveGroups, independent, promotion, ingesting>> /\ Calm

\* A cluster that is not public becomes a candidate, a relation nobody modelled here reads.
ListCluster(a) ==
    /\ sync[a].pc = "list"
    /\ LET cluster == Current(a)
       IN discography' = IF Public(cluster)
                         THEN [discography EXCEPT ![a][cluster.rep] =
                                 [state |-> "accepted", target |-> cluster.target, alternates |-> cluster.alternates]]
                         ELSE discography
    /\ sync' = [sync EXCEPT ![a].next = IF IsLast(a) THEN 1 ELSE @ + 1,
                            ![a].pc = IF IsLast(a) THEN "reactivate" ELSE "list"]
    /\ UNCHANGED <<claimOf, liveGroups, independent, promotion, ingesting>> /\ Calm

\* Groups the artist lists, as targets or as alternates.
Accepted(a) == {s \in Sources : discography[a][s].state = "accepted"}
TargetsOf(a) == {discography[a][s].target : s \in Accepted(a)} \ {Nothing}
AlternatesOf(a) == UNION {discography[a][s].alternates : s \in Accepted(a)}

ReactivatePromotions(a) ==
    /\ sync[a].pc = "reactivate"
    /\ promotion' = [promotion EXCEPT ![a] = [g \in Groups |->
           IF @[g] # "none" /\ g \in TargetsOf(a) \cup AlternatesOf(a) THEN "active" ELSE @[g]]]
    /\ sync' = [sync EXCEPT ![a].pc = "orphans"]
    /\ UNCHANGED <<claimOf, liveGroups, independent, discography, ingesting>> /\ Calm

\* The snapshot of the UPDATE that deletes orphans.
Orphans(a) == {g \in Groups : /\ promotion[a][g] = "superseded"
                              /\ \A b \in Artists : g \notin TargetsOf(b)
                              /\ g \notin independent}
SnapshotOrphans(a) ==
    /\ sync[a].pc = "orphans"
    /\ sync' = [sync EXCEPT ![a].orphans = Orphans(a), ![a].pc = "delete"]
    /\ UNCHANGED <<tables, ingesting>> /\ Calm

\* A row that changed under the UPDATE is looked at again, but its subqueries keep their snapshot.
DeleteOrphans(a) ==
    /\ sync[a].pc = "delete"
    /\ liveGroups' = liveGroups \ sync[a].orphans
    /\ sync' = [sync EXCEPT ![a] = AtRest]
    /\ UNCHANGED <<claimOf, independent, promotion, discography, ingesting>> /\ Calm

\* A statement fails and the run with it, or the process dies: River starts the job over.
GiveUpSync(a) ==
    /\ \/ sync[a].pc \in {"coalesce", "relist", "list", "reactivate", "orphans", "delete"} /\ Struck("error")
       \/ sync[a].pc # "idle" /\ Struck("crash")
    /\ sync' = [sync EXCEPT ![a] = AtRest]
    /\ UNCHANGED <<tables, ingesting>>

SyncArtist(a) ==
    \/ Collect(a) \/ SupersedePromotions(a) \/ Classify(a) \/ ResolvePromoted(a) \/ MergePromoted(a)
    \/ ActivatePromotion(a) \/ CoalesceCluster(a) \/ SupersedeListing(a) \/ ListCluster(a)
    \/ ReactivatePromotions(a) \/ SnapshotOrphans(a) \/ DeleteOrphans(a)

-----------------------------------------------------------------------------
(* The ingestion of a release group from MusicBrainz, with the ids of other     *)
(* providers it collects on the way.                                            *)

ResolveIngested(m) ==
    /\ ingesting[m] = NotIngesting
    /\ \E ids \in world.identities[m] :
         \E owner \in (IF Owners(ids) = {} THEN {Nothing} ELSE Owners(ids)) :
           /\ Cardinality(Owners(ids)) <= 1
           /\ ingesting' = [ingesting EXCEPT ![m] = [ids |-> ids, into |-> owner]]
    /\ UNCHANGED <<tables, sync>> /\ Calm

MergeIngested(m) ==
    /\ ingesting[m] # NotIngesting
    /\ LET ids == ingesting[m].ids
           owner == ingesting[m].into
       IN \/ /\ Attachable(ids, owner) /\ MergeInto(ids, Into(owner))
             /\ independent' = independent \cup {Into(owner)}
          \/ /\ ~Attachable(ids, owner)
             /\ UNCHANGED <<claimOf, liveGroups, independent, discography>>
    /\ ingesting' = [ingesting EXCEPT ![m] = NotIngesting]
    /\ UNCHANGED <<promotion, sync>> /\ Calm

CatalogNext ==
    \/ \E a \in Artists : SyncArtist(a) \/ GiveUpSync(a)
    \/ \E m \in Spine : ResolveIngested(m) \/ MergeIngested(m)

CatalogSpec == CatalogInit /\ [][CatalogNext]_catalogVars

\* The scheduler looks every hour for artists without a sync in the last week; jobs go on.
CatalogFairness(a) == WF_catalogVars(SyncArtist(a))

-----------------------------------------------------------------------------
(* Properties *)

Clusters == [sources : SUBSET Sources, rep : Sources, promotable : BOOLEAN, bridged : BOOLEAN,
             state : {"new", "spine", "canonical", "promoted", "identity_conflict", "promotion_failed",
                      "unresolved_single_provider"},
             target : Groups \cup {Nothing}, alternates : SUBSET Groups]
Relations == [state : {"none", "accepted", "superseded"}, target : Groups \cup {Nothing}, alternates : SUBSET Groups]
SyncRecord == [pc : {"idle", "supersede", "promote", "resolve", "merge", "activate", "coalesce", "relist", "list",
                     "reactivate", "orphans", "delete"},
               clusters : Seq(Clusters), next : Nat, into : Groups \cup {Nothing}, orphans : SUBSET Groups]

\* Every variable of the catalogue has its type.
CatalogTypeOK ==
    /\ claimOf \in [Sources -> Groups \cup {Nothing}]
    /\ liveGroups \subseteq Groups /\ independent \subseteq Groups
    /\ promotion \in [Artists -> [Groups -> {"none", "active", "superseded"}]]
    /\ discography \in [Artists -> [Sources -> Relations]]
    /\ sync \in [Artists -> SyncRecord]
    /\ ingesting \in [Spine -> [ids : SUBSET Sources, into : Groups \cup {Nothing}]]
    /\ world \in Worlds /\ catalogFaults \in 0..world.maxFaults

\* Synchronisations are not transactions, and others delete, revive and relink what this one has
\* looked up. But once the others are quiet, whatever they left behind, the discography of an artist
\* is right after its next synchronisation: no group twice, none deleted, and a release that every
\* catalogue lists as promotable is there under the group that owns its id.
Quiet(a) == /\ \A b \in Artists \ {a} : sync[b].pc = "idle"
            /\ \A m \in Spine : ingesting[m] = NotIngesting
AlwaysListed(a) == {s \in Sources : \A catalog \in world.catalogs[a] : \E i \in DOMAIN catalog :
                      catalog[i].sources = {s} /\ catalog[i].promotable}
Right(a) ==
    /\ TargetsOf(a) \cup AlternatesOf(a) \subseteq liveGroups
    /\ \A s, t \in Accepted(a) : discography[a][s].target = discography[a][t].target
                                => s = t \/ discography[a][s].target = Nothing
    /\ \A s \in AlwaysListed(a) : claimOf[s] \in TargetsOf(a)
CatalogConverges ==
    \A a \in Artists : CatalogFairness(a) /\ <>[]Quiet(a) => <>[](sync[a].pc = "idle" => Right(a))
==============================================================================
