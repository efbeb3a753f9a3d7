# Verification of HeyaMetadata

HeyaMetadata collects media metadata from some thirty providers, merges it into canonical entities
and serves them over an HTTP API. This directory holds TLA+ models of the core of that program, TLC
configurations that check them on small instances, and TLAPS proofs of the properties that matter
most. Paths below are relative to the repository.

Contents: [the system](#the-system) · [modules](#modules-and-how-they-correspond-to-the-code) ·
[runs and bounds](#runs-and-bounds) · [fairness](#fairness) · [proofs](#proofs) ·
[disagreements](#where-the-code-and-its-documents-disagree) ·
[observations](#behaviour-worth-knowing-that-no-run-refutes) · [limits](#what-is-not-modelled-and-why)
· [plan](#plan)

## The system

One Go binary runs HTTP servers and River job workers (`internal/jobs`). Several processes run the
same code at the same time; they share no memory, only three stores:

- **Postgres**: the source of truth. Observations, normalised records, claims, entities, documents,
  outboxes, run rows and the River queue. A transaction (read committed) is the unit of visibility;
  row locks and advisory locks are the only mutual exclusion between processes.
- **Redis**: pointers and bodies of provider responses, fetch locks, detail documents, credentials
  handed to jobs, access counters, sessions. Everything may be evicted.
- **S3** (`internal/blobstore`): immutable objects, provider payloads and images, which the bucket's
  lifecycle rules may delete.

### Inventory

The hard part of almost every component is the same: a unit of work spans several stores and several
statements, any of them may fail or be the last one before the process dies, and another process runs
the same code in between.

| Component | State it keeps | Operations | Interacts with | What is hard | What makes it correct |
|---|---|---|---|---|---|
| Public change feed (`internal/changelog`) | `change_outbox`, `change_log`, `change_cursor` | publications stage a row, `Sequence` numbers a batch, `ReadPage` returns a page, `validateCursor` | every ingestion stages and sequences; the drain sequences; consumers poll | concurrent sequencers, aborts between inserts, start-time order of rows, pages read by two statements, restored databases | numbers without gaps, each row once, consumers skip nothing and end current |
| Workflow feed (`internal/workflowfeed`) | its own outbox, log and cursor | `Emit`, `Sequence`, `ReadPage` | discovery runs emit, the drain sequences | as above | as above, one event for each terminal run |
| Outbox drain (`internal/jobs/outbox.go`) | none | batches over both feeds every minute | both feeds | deadlines racing results, one feed failing or hanging | each feed is drained whatever the other does |
| Provider response cache (`internal/providercache`, `internal/ingest`, `internal/jobs/retention.go`) | Redis pointer, body and lock; `source_blobs`, `provider_observations`; objects | `Resolve`, `RecordObservation`, `SweepExpiredBlobs` | every ingestion and search | check, fetch and record are separate calls in three stores; locks expire; a sweep deletes what it selected earlier | one fetch at a time, none needlessly, rows that are served have objects, calls return |
| Discovery runs (`internal/discovery/store.go`, `internal/server/discovery.go`, `internal/jobs/discovery.go`, `internal/providercredentials`) | `discovery_runs`, Redis copy, River row, credentials | POST and GET handlers; `EnsureRun`, `AttachJob`, `Start`, `Complete`, `Fail`; job attempts | callers, River, workflow feed | deduplicated inserts, retries and rescues of attempts that had already finished, expiry midway | terminal runs announced and kept, callers answered |
| Movie ingestion (`internal/movies`) | records, `external_id_claims`, `entities`, `api_documents`, `movie_ingestion_runs`, detail cache | `IngestTMDBWithCredentials`, `Detail` | provider cache, change feed, access counters | identity resolved without locks, merges blocking on each other, failures after commit | evidence and claims agree, documents hold the newest evidence, no circular waits |
| TV and anime (`internal/tvshows`, `internal/anime`, `internal/episodic`) | the same tables with claims that may be superseded, seasons and episodes | ingestion from a TMDB, TVMaze or AniDB root, promotion of a root, supplements, stored fallbacks | as movies | as movies; a document is rewritten from the providers that answered this time and the stored records of the others | as movies; a document keeps what its show has evidence of; a merge neither loses nor doubles an episode |
| Artists (`internal/artists`) | the same tables with disputed claims, redirects of retired artists | ingestion from MusicBrainz, Apple and Deezer roots, disputes, quarantine of records, consolidation under an advisory lock | catalogue, storefront discovery, provider cache | consolidation racing ingestions of a retired artist, records shared through the provider cache | a root an artist collected stays with it; retired artists lead to live ones; documents keep their evidence |
| Discography catalogue (`internal/musiccatalog`, `internal/musiccredits`) | `artist_catalog_promotions`, the artist's `entity_relations`, `artist_catalog_sync_runs` | `SyncArtist`, weekly for each artist: supersede, promote clusters without a MusicBrainz spine, coalesce, list, delete orphans | artists, release groups, other artists that list the same release | a sequence of commits, some errors dropped; two artists promote, list and delete one group; MusicBrainz ingestions relink what is listed | once others are quiet a discography lists live groups, none twice, and every promotable release |
| Release groups, releases, recordings, works (`internal/releasegroups`, `internal/releases`, `internal/recordings`, `internal/musicalworks`) | the same tables | ingestion, children inserted as jobs | catalogue, fingerprints | as movies | as movies |
| Books, manga (`internal/books`, `internal/manga`) | the same tables | ingestion | | as movies | as movies |
| People (`internal/people`) | people, claims, credits, proposals, redirects | creation from credits, enrichment, `proposeReconciliations`, `AcceptReconciliation`, `RejectReconciliation` | every ingestion with credits, moderators | merges racing enrichments, proposals carried over to the survivor, decisions made twice | retired people lead to live ones and keep nothing, decisions stand, one provider's two ids need a moderator |
| Demand counters (`internal/accessstats`) | Redis sorted set, `entity_access_stats` | `Track`, `Flush`, `Cadence` | every read; refresh | claim, transaction and restore are separate; entities vanish | every read accounted for, twice only after an unknown commit, none stuck |
| Adaptive refresh (`internal/jobs/refresh.go`) | `next_eligible_at`, `current_job_id` | hourly pass over the kinds: recalculate, select, insert, record | counters, every ingestion | guards written after inserts, a failing insert ends the pass | every entity is refreshed in the end, however little it is read, while the selection has room |
| Rate limits (`internal/providers/gate.go`, `internal/jobs/provider_retry.go`) | a gate per provider and process | `Wait`, `Defer`, `DeferredFor`, snooze | every provider call | waiters woken together, a cooldown that comes in while they sleep | no request too early or during a cooldown |
| Images (`internal/images`, `internal/jobs/image.go`, `internal/server/images.go`) | candidate and variant rows, object registry, objects, accesses in Redis | request, claim, materialise, read with repair, track, evict, sweep, recover stalled | readers, workers | objects shared by content, reference check and then delete, stalled workers finishing late | who keeps asking is served; an image never loses bytes it shares; stored objects stay findable |
| Fingerprint matching (`internal/fingerprintmatch`) | run rows with the submitted fingerprint, credentials | request, job, result, retention | recordings | rescued jobs on finished runs, jobs without credentials | a run that is polled ends or is gone |
| Discovery searches and identifier routing (`internal/discovery/*.go`, `internal/canonicalrefs`) | none | searches, scoring, known identifiers | discovery runs, providers | pure data | |
| Collection planner (`internal/mixer`) | none | `Build`, `BuildAllAvailable` | source collection | order and fallback of steps | no step before its input |
| Source collection (`internal/sourcecollection`) | run row | archive one plan | provider cache | none of its own | |
| HTTP API (`internal/server`) | none | handlers, ETags | everything above | none beyond the handlers modelled | |
| Accounts (`internal/auth`), connectivity (`internal/connectivity`) | users, sessions, keys; limiter slots | login, registration, captcha; probes | | one command each | |
| Providers, domain models, presentation, audit, runtime, migrations, web, SDK | none, or data | translation | | pure I/O and data | |

`PROJECT.json` lists the same components with their files, and under `hazards` the places where each
could go wrong in a way a test would hardly reach.

### How the modelled parts fit together

```
 POST /discovery ──► DiscoveryRun ──► job ──► provider search ──► RequestGate ──► provider
                          │ Emit                     │
                          ▼                          ▼
                   workflow feed ◄─┐           ProviderCache ◄── retention sweep
                                   │                 ▲ observation (new, or the one already stored)
 refresh, ──► job ──► MovieIngest, EpisodicIngest, ──┘
 callers              ArtistIdentity, PersonMerge      GET ──► detail cache ──► AccessStats
    ▲                              │ outbox row                     (Track)         │ Flush
    │                              ▼                                                ▼
    │                    ChangeFeed ◄── OutboxDrain, consumers               RefreshScheduler
    └───────────────────────────────────────────────────────────────────────────────┘
 GET image ──► ImageCache ──► job ──► blob store        POST match ──► FingerprintRun ──► job
```

Each module models its component completely and its neighbours by what they may do: `MovieIngest`
takes an observation that is new or reused, `ChangeFeed` takes publication transactions,
`DiscoveryRun` takes the outcome of a search, `ArtistCatalog` takes clusters, `RefreshScheduler` takes ingestions that succeed or fail.
`EventFeed` is the abstract specification that `ChangeFeed` implements.

## Modules and how they correspond to the code

`PROJECT.json` maps every definition to its lines. In all modules a step is a statement, a
Redis or S3 command, or the commit of a transaction; what a transaction has written is kept in the
local state of its process and becomes visible at the commit; a failing statement rolls back; a
crash loses local state only. Definitions commented `Mutated form` are plausible bugs, not the code.

| Module | Models | State ↔ code |
|---|---|---|
| `ChangeFeed` | `changelog/sequence.go`, `changelog/feed.go`, the publication transaction of `movies/service.go`, consumers as docs/change-feed.md asks them to behave, restores and rebuilds of the database | `outbox`, `log`, `cursor` are the three tables; `seqr[s]` one call of `Sequence` with the rows it has read and staged; `client[c]` what a consumer persists and its request between the two queries of `ReadPage`; `tx[t]` a publication, with `start` for `committed_at DEFAULT now()`, the start of the transaction |
| `EventFeed` | nothing of the code: the promise of an outbox feed | |
| `ProviderCache` | `providercache/resolver.go`, `ingest/observations.go`, `jobs/retention.go` for one request | `pointer`, `hot`, `lock` in Redis; `blobs`, `observations` in Postgres; `objects` in S3; `worker[w].pc` is the next call `Resolve` makes, `phase` where `lookup` was called from (before the lock, while waiting, under the lock) |
| `DiscoveryRun` | `discovery/store.go`, `server/discovery.go`, `jobs/discovery.go` for one request hash | `run` is the row, `cache` the Redis copy, `event` the last staged workflow event, `river[j]` job rows in River's states, `client[c]` the handler and its caller, `work[j]` the worker on a job |
| `MovieIngest` | `movies/service.go` and `movies/read.go` | `records` are observations with their normalised records, named by their time; `claims` is `external_id_claims`; `document` is `api_documents`, its content the observations it combines; `job[j]` an attempt with what its transaction has written |
| `EpisodicIngest` | `tvshows/service.go` (collection) and `episodic/store.go` (`PersistMany`) | `responses` are observations with their records and the ids they list; `claimRow` is `external_id_claims` with the record an id came from; `showDocument` separates what this ingestion collected (`fresh`) from stored fallbacks (`stale`); `ingestion[j]` an attempt |
| `ArtistIdentity` | `artists/service.go` from collection to commit, `artists/storefront.go` | `copies` counts the observations of an id; `attached` is `normalized_records.entity_id`; `artistClaim`, `redirect`, `artistDocument`, `artistRun` are the tables; `merging[r]` the job of a root with the claims and rows its transaction has staged |
| `PersonMerge` | `people/moderation.go`, `people/reconciliation.go`, `people/tmdb.go`, `jobs/person.go`, the SQL function that creates a person from a credit | `live`, `redirect`, `claim`, `credit`, `candidates` are the tables; `reconciler[w]` an enrichment or a reconciliation pass, `merge[a]` an open merge; `late` is a ghost: what was written for a person by somebody who had looked it up before it was retired |
| `Redirects` | `CanonicalID` of `people/service.go` and `artists/read.go` | what `entity_redirects` holds after merges of merged people or artists, and where up to 16 redirects lead |
| `ImageCache` | `images/service.go`, `images/cache.go`, `jobs/image.go`, `server/images.go` | `candidate`, `variants`, `registry` are the tables, `objects` the blob store by content, `accesses` the Redis set; `viewer`, `worker`, `maintenance` are the client, its job and the hourly job; `sinceCheck`, `exposed` are ghosts |
| `RefreshScheduler` | `jobs/refresh.go`, `RecalculateRefreshCadence` | `age` and `cadence` are `last_success_at` and `next_eligible_at` in hours, `current` what `current_job_id` names, `pass` the scheduler's job with the kind it is at |
| `OutboxDrain` | `jobs/outbox.go` | `unsequenced[f]` rows of an outbox, `sequencer[f]` the goroutine of the batch and its buffered channel, `drain` the job; `condition[f]` is how a feed fares |
| `RequestGate` | `providers/gate.go`, the callers in the AniDB and Discogs clients | `nextIn` and `deferredIn` are `gate.next` and `gate.deferredUntil` relative to now; `sinceSent`, `spacing` are ghosts |
| `FingerprintRun` | `fingerprintmatch/service.go`, `jobs/fingerprint_match.go`, the handler, `jobs/retention.go:36` | `matchRun` the rows, `matchJob` the active job of a run, `held` credentials in Redis |
| `AccessStats` | `accessstats/access.go` `Track` and `Flush` | `pending` is the sorted set, `total` the committed column, `flush[f]` a claim with the rows its transaction wrote; `dropped`, `lost` and `repeated` are ghosts that account for counts given up, and for those restored although the transaction had committed |
| `ArtistCatalog` | `musiccatalog/service.go` (`SyncArtist` after collection and matching), `releasegroups/catalog.go`, `merge` and `IngestMusicBrainz` of `releasegroups/service.go` | `claimOf` is `external_id_claims`; `liveGroups` the groups with `deleted_at IS NULL`, `independent` those with a record no catalogue made; `promotion` and `discography` the artist's rows; `sync[a]` the job with its clusters, the group it is merging into and the orphans its UPDATE has selected |
| `MCProgress`, `MCRecords`, `MCIdentity` | components that meet in no variable, checked in one instance | `subject` says which component a behaviour is about; the others keep one initial state, so states add up instead of multiplying |
| other `MC*` | | the constants TLC needs: model values, symmetry, candidate lists |
| `ChangeFeed_proofs`, `MovieIngest_proofs`, `ProviderCache_proofs`, `ImageCache_proofs`, `Redirects_proofs`, `PersonMerge_proofs`, `KeepsEvidence_proofs`, `Progress_proofs` | | inductive invariants and theorems, see [proofs](#proofs) |

What each abstraction leaves out:

- **ChangeFeed**: slug, scope, change type and provenance of an entry. The consumer's fetch of a
  projection is the committed version at that moment. A commit whose outcome the client never learns is
  left out: the transaction either committed or did not, and no local state depends on knowing (where it
  does, in `AccessStats`, it is modelled).
- **ProviderCache**: one request fingerprint; bodies are identified with their checksums; three
  durations with the one inequality the constructor of the resolver enforces. Signing of S3 requests.
- **DiscoveryRun**: one request hash. What a search finds is one of result, error, snooze. `retryable`
  stands for River's `scheduled` as well. Credentials are references that are in Redis or not.
- **MovieIngest**: a title is one TMDB movie. The records of one attempt (TMDB, OMDb, TVDB,
  Fanart.tv) travel together as one observation with its ordered list of claims. Combination of values,
  search documents and credits are part of the document.
- **EpisodicIngest**: a record is the list of ids it holds; seasons, episodes, images and search
  documents are part of the document. Lookups find any record that shares a listed id.
- **ArtistIdentity**: a record is the list of ids it names. Names, catalogues and the evidence of a
  link are the choice whether a catalogue matches and whether MusicBrainz may consolidate. Top tracks,
  images, retired Wikidata evidence and the cache write are left out.
- **ArtistCatalog**: what providers list, and how titles, dates and tracks match, is the sequence of clusters
  a synchronisation finds. Candidate relations, search rows, excluded artists, coalescing by
  issued tracks, Last.fm and the run row are left out; of a release group only its claims and its life.
- **PersonMerge**: scores are any verdict the same-provider rule allows; documents and names are left
  out. An identifier belongs to one person at a time.
- **ImageCache**: fetching, decoding and encoding are one step that succeeds, fails or finds no image.
  One variant stands for all sizes. An age is within or beyond the grace period or the half year.
- **RefreshScheduler**: hours; two demand classes, and within a class any choice stands for the order by
  `next_eligible_at`. The recalculation also reaches rows with a failure class, which the code skips. **OutboxDrain**: a sequencer works, always fails or
  always outlasts its deadline. **RequestGate**: whole ticks. **FingerprintRun**: one fingerprint; a match is
  found or not.
- **AccessStats**: counts and where they are; the decaying score is left out. A commit takes effect and is heard of, or
  fails, or takes effect without the flush hearing of it (`CommitUnknown`); an answer to ZPOPMAX may be lost (`LosePop`).

## Runs and bounds

| Run | Properties | Instance | What it shows |
|---|---|---|---|
| `change_feed` | `TypeOK` `GapFree` `ExactlyOnce` `NoSkip` `CaughtUpIsCurrent` `AppendOnly` | 3 publications, 2 entities, 2 sequencers, 1 consumer, batch 2, page 1, backups, restores, one rebuild | whatever sequencers and publications overlap, abort or are cut off by an operator, the log has the numbers 1..n once each, a row is marked exactly when it is logged, and a consumer neither skips an entry nor ends with an old projection |
| `change_feed_live` | `ImplementsEventFeed` `EventuallySequenced` `EventuallyCurrent` | 2 publications, as above, no operator | the statements implement the abstract feed; every committed publication is numbered by the drain in the end; a polling consumer becomes current |
| `change_feed_restore` | `AcceptedIsSafe`, violated | one backup restored | see [disagreements](#where-the-code-and-its-documents-disagree) |
| `records` | `RecordsTypeOK`; cache: `LiveRowHasObject` `NoNeedlessFetch`; people: `RetiredResolve` `NothingLeftBehind` `DecisionsStand` | cache: 2 calls, 1 body, 2 prefixes, 2 fetches, time 0..3, a row left by an earlier deployment, the sweep. People: 2 TMDB and 1 TVmaze identity that share an IMDb id, one of them credited by a title, 1 reconciler, 1 moderator | a row that lookups use keeps its object though an upsert may move it to another prefix while the sweep holds an old selection; nobody fetches what is reusable. A retired person leads to a live one and keeps nothing but what was looked up before the merge; decisions stand. No chain of three identities reaches the limit of 16 redirects: that is the theorem's |
| `provider_cache_faults` | `SingleFlight` `PointerNamesObservation` `ResolveReturns` | 2 calls, 1 fetch, any one of: crash, lock expiry, eviction, lifecycle deletion, rot, a discarded error; returned errors unbounded | only an expired lock lets two calls into the fetch section; a pointer never precedes its observation; every call returns |
| `discovery` | `TerminalIsAnnounced` `CacheIsTrue` `CompletedStays` | 2 callers, 2 job rows, 2 attempts, a crash, failing statements, vanishing credentials, expiry at any time; no known identifiers | terminal state and event agree, Redis never answers what the row no longer says, retries and rescues leave a completed run alone, as long as no handler completes it from known identifiers (see [below](#behaviour-worth-knowing-that-no-run-refutes)) |
| `discovery_backed` | `AcceptedIsBacked`, violated | 2 callers, 1 attempt, no faults | see below |
| `identity` | `IdentityTypeOK`; movies: `EvidenceOwnsItsClaims` `DocumentIsCurrent`; shows: `DocumentKeepsEvidence`; artists: `ArtistKeepsEvidence` `RetiredArtistsResolve` | movies: 3 jobs for 2 titles, 3 observations, one title with or without a shared id, the other with it. Shows: 2 jobs for a TMDB root, 1 for a TVMaze root, 3 observations, a TVDB supplement. Artists: an Apple and a Deezer root that a catalogue may match and 2 MusicBrainz roots that name both. Errors and crashes everywhere | evidence is attached only where all its claims belong, though claims are resolved without locks; a document combines the newest evidence of its entity whatever order jobs commit in, which records move to a survivor, and which providers did not answer; a retired artist leads to a live one. An artist id is observed once here (`MaxCopies` = 1): that the *newest* copy is kept is the theorem's |
| `movie_cache` | `CacheNeverRegresses`, violated | 2 jobs of one title | see below |
| `person_same_provider` | `SameProviderIsReviewed`, violated | as the people of `records` | see below |
| `artist_root` | `RootKeepsItsArtist`, violated | an Apple root with a Deezer counterpart, a second Deezer root that names the same Apple artist, ingested twice | see below |
| `progress` | `AllTypeOK` `CountsAreConserved` `StorageIsFindable` `SharedBytesStay` `SpacedRequests`, and in the end: `DiscoveryIsAnswered` `AccessIsPersisted` `ImageIsServed` `RefreshReachesAll` `DrainIsIndependent` `FingerprintRunEnds` `CatalogueConverges` `MovieMergesEnd` | discovery: 2 callers, 1 job row, used again once it is cleaned, 1 attempt, a crash, snoozes, known identifiers. Counters: 2 entities, one of which may be deleted, 2 reads each, of which one may be counted twice, 2 flushes, all faults. Images: 4 scenarios of 1 or 2 requests with errors, crashes, pauses and half years. Refresh: an entity in demand, one its provider refuses and a cold one, in 1 or 2 kinds, a selection of two. Drain: 2 feeds, 3 rows each, 2 batches of one. Gate: 3 callers, 2 intervals, cooldowns of 0, 1 and 3. Fingerprints: 2 runs, 2 requests, 2 attempts. Catalogue: 2 artists who share a release, in 4 worlds: a storefront and MusicBrainz list it under one id or two; tracks bridge the two; two storefronts list one release or two; one statement fails, drops its error or is the last before a crash. Movies: 2 merges that share 2 ids, listed in one order, 2 attempts, 1 reader | each liveness property under the fairness of its own component and its stated premises; on the way every read is accounted for, counted twice only by a commit nobody heard of, no shared bytes are deleted under rows that were there when the sweep looked (whoever wrote one later is served again in the end: `ImageIsServed`), no object gets out of every sweep's sight, and no request goes out early |

Why the bounds are enough. *Actors*: each hazard is between two actors (two sequencers, two resolvers,
a handler and a worker, two merges, two flushes, a sweep and a worker) and what they share; `identity`
has a third job of a title because an older job can interfere with two that have merged it
with another, and two MusicBrainz roots so that one may consolidate what another one is merging.
*Batches, pages and selections* smaller than the number of rows force a second one. Three publications
let one commit between the two queries of a page while another is numbered behind it.
*Time*: with reuse, retention and grace of one tick, three ticks pass a reuse window, an expiry, and the
grace after it. In `provider_cache_faults` one fault of any kind at any step is explored with any
number of returned errors; faults are independent of each other there. *Attempts*: two distinguish the
last attempt from one that is retried (`discovery`); to be answered, only the last one matters (`progress`). *Streams*: one rebuild makes a cursor of a foreign stream.
*Artists*: three, so that two storefront roots and a MusicBrainz root may each start one. *Images*: two with the same bytes, one with a variant and one source that is no image are the
kinds of asset that can disturb each other.
Every bound (`MaxStreams`, `MaxTime`, `MaxFetches`, `MaxFaults`, `MaxAttempts`, `MaxCrashes`,
`MaxObservations`, `MaxRepeated`, `MaxResponses`, `MaxCopies`, `MaxRuns`, `MaxRows`, `MaxBatches`, `MaxDeaths`, the bounds of
a scenario, number of `Txs`, `JobIds`, `Deletable`) only limits how often something happens, and limits no reaction to it.

Symmetry is used only in runs without liveness, over values the module compares for equality
(`Drainer` is named by fairness only, so sequencers are interchangeable). `identity` has a VIEW that leaves
out what run rows say, which no action decides by and no property but the type invariant reads.
In `progress` each liveness property is an implication from the fairness of its component, since
a fairness condition on a component a behaviour is not about would demand nothing. Deadlock is
checked in `records`, `provider_cache_faults`, `discovery`, `discovery_backed` and `person_same_provider`; the
others have behaviours that are over when all their bounded work is done.

## Fairness

- **ChangeFeed.** A sequencer that holds a lock goes on (weak fairness): its caller has a deadline, after
  which the transaction is rolled back. The drain is a periodic job (every minute, `jobs/client.go:49`)
  that reaches each of its statements again and again; each succeeds in the end (strong fairness):
  assumes only that Postgres does not fail every time. Consumers poll.
  Publications and other sequencers owe nothing; they may stop, and abort at any time.
- **ProviderCache.** A call takes its next step. The 10 second deadline, once past, stays ready in
  the `select` of the wait loop, whose choice among ready cases is random: `GiveUp` is strongly fair.
  No fairness for the sweep, the clock or upstream success.
- **DiscoveryRun.** Handlers, workers, River's scheduler, rescuer and cleaner, and time go on, and a
  caller polls and submits again on expiry (weak fairness). Two conditions are strong: an attempt that
  may snooze for ever also ends without snoozing (the provider comes back), and a run that is due to expire again
  and again does (hours pass whatever callers do meanwhile). `EventuallyAnswered` has a premise besides: that runs
  which have ended are not started over for ever. With two callers TLC finds it necessary, since each end may be
  replaced before the other caller has polled.
- **MovieIngest.** An attempt takes its next step; a lock that becomes free again and again is granted
  (Postgres queues waiters, strong fairness of the locking statements). Not assumed: that Postgres breaks
  deadlocks; `MovieMergesEnd` would hold trivially if it did. Its premise is `InOneOrder`: titles list the ids they
  share in one order. The candidates of one provider do (`tmdb/normalize.go:39-55`); an IMDb id that TMDB lacks
  and only Fanart.tv adds comes after the Wikidata id, so two titles may differ. Then two merges can wait for
  each other until Postgres ends one, which River tries again; TLC finds the circle at once in opposite orders.
- **ImageCache.** Clients repeat their request, River runs its jobs, the maintenance job runs and half
  hours pass. Nothing is assumed of errors and crashes beyond their bound.
- **RefreshScheduler.** A pass takes its next step and inserted jobs are worked (weak). Entities are of two sorts: what
  the provider refuses (`Refusing`) fails whenever it is tried; for the others, for passes and for the statement that
  records a job, failures come to an end: lasting ones would starve what follows them. `EveryEntityIsRefreshed`
  has a premise on capacity (`Bearable`): fewer rows of a kind fall due in an hour, on average, than the selection holds, where
  refused rows fall due in every hour. Without it the property is false: with demand due every hour, or a selection of
  one that a refused entity fills, TLC has the cold entity wait for ever. The selection is 500 rows in the code, 200 for lyrics.
- **OutboxDrain.** The job, a sequencer that works or fails, and its deadline go on; no fairness for the
  sequencer that hangs.
- **ArtistCatalog.** The weekly job of the artist in question; the others only have to be between two jobs
  in the end, which holds for artists who do not list the same releases at the same time. The scheduler takes
  25 artists an hour (`jobs/artist_catalog.go:168`), those without a completed run, most recently observed
  first: this assumes that fewer than 25 fail for ever.
- **FingerprintRun.** The retention job and the hour, nothing else: neither requests nor jobs need to
  go on for a run to end.
- **AccessStats.** The flush is hourly (weak), and neither statements fail nor commits stay unheard of for ever.
  `ReadsArePersisted` is about flushes that can claim all counters: ZPOPMAX takes the highest first.
- **RequestGate** has safety only: waiters are not queued, see [below](#behaviour-worth-knowing-that-no-run-refutes).

## Proofs

TLAPS checks the proof modules completely. Theorems hold for every value of the constants, given the
named assumption of each module, which TLC evaluates in the runs:

- that bounds, batches, durations and tables of constants have their types: `ChangeFeedAssumption`,
  `DiscoveryAssumption`, `MovieAssumption`, `ArtistAssumption`, `DrainAssumption`, `FingerprintAssumption`, and
  with something to add:
- `ProviderCacheAssumption`: responses are kept at least as long as they are reused, which the constructor
  of the resolver enforces (`resolver.go`); the mark for "nothing" is not a body, worker or row;
- `GateAssumption`: there is a longest delay; `ImageAssumption`: what Unsupported lists is not an image;
- `PersonAssumption`: there are finitely many identities, credited ones among them, and links are not roots;
- `EpisodicAssumption`: the mark for "no show" is neither a show nor an id;
- `EvidenceAssumption`: an ingestion without any identifier does not exist;
- `AccessAssumption`: there are finitely many flushes, and what may be deleted is an entity; `RefreshAssumption`: an entity in demand is not refreshed less often
  than another;
- `CatalogAssumption`: a record is among the sources of its cluster, and there are at least as many ids for release
  groups as there are sources. A group is made only while a source has no claim, under an id no claim names; with
  fewer ids the model would stop where Postgres makes another UUID.

Four theorems have a condition, which they state and without which TLC finds them false:
`LiveRowSafety` and `NeedlessSafety` (`Reliable`), `EventFeedRefinement` (neither restore
nor rebuild), `AcceptedSafety` (no restore).
`CacheSafety` and `CompletedSafety` are about `JobSpec`, as the runs are.

**`ChangeFeed_proofs`**: `TypeSafety`, `GapFreeSafety`, `ExactlyOnceSafety`, for any number of
publications, sequencers, consumers, restores and rebuilds. Neither property is inductive: it says
nothing of what an open transaction has staged. The invariant `IInv` adds

- `Consistent` for the tables *and* for the backup, since a restore may bring it back: the log is
  numbered 1..last, ids are keys, marks agree with the log, rows belong to committed publications;
- `Exclusive`: one sequencer is past the advisory lock;
- `Local(s)`: what it staged continues the numbering at last_sequence + 1, without repeating
  an id, and consists of rows still pending;
- `PageBounded`, which makes the cursor of a page a number (`MaxExists` proves that the maximum exists,
  by well-foundedness of < on the naturals).

Only the commit of the lock holder changes the log, and there `Local` gives `Consistent` again.

*Delivery*: `AppendOnlySafety` (entries are added behind the head
only) and `NoSkipSafety`, what a consumer is owed. The second needs what a request knows between
its two queries: `KnownStreams` (a cursor is of a stream that existed), `Position` and `Behind` (the head
a request compared with is not beyond the log, and its cursor not beyond that head), and
`PageIsPrefix`: a page is a prefix of what lies beyond the cursor. An entry numbered between the
queries lies beyond the head, hence behind all of the page.

*Currency*: `CurrencySafety` (`CaughtUpIsCurrent`). Publications are numbered by the start of their
transactions, which need not be the order of their versions, so cursor and version are only related through
the rows between them. `VInv` says, of the tables, of the backup and of what is staged: the newest version of an
entity has a row (`NewestHasRow`), no row is newer (`RowsAreOld`), an entry repeats its row (`Repeats`);
`HolderIsNext` and `HolderIsAlone` are the row lock under which a version is computed. `Covered`: behind its
cursor a consumer holds at least what was announced.

*Refinement*: `EventFeedRefinement`. With `OneDatabase` (an operator may take backups, but restores and
rebuilds nothing) each statement is a step of `EventFeed` or leaves its variables alone. The commit of a
sequencer is the only one that numbers, and numbers a whole batch; `PageIsLogged` makes the
acknowledgement of a page a delivery. A rebuilt database starts a second stream, of which `EventFeed`
knows nothing. `AcceptedSafety` is the [first disagreement](#where-the-code-and-its-documents-disagree)
turned round: unless a backup is restored, a request that is accepted continues safely, because a
rebuild changes the stream (`AnsweredNow`).

**`MovieIngest_proofs`**: `TypeSafety` and `EvidenceSafety` (`EvidenceOwnsItsClaims`), for any number
of ingestions, movies, titles, candidate lists and failures. `merge` resolves claims by statements that
take no lock, so what it found may be stale when it attaches them. The proof shows why that is
harmless: it rests on nothing that was resolved, only on the guarded upsert and the row locks.

- `HeldAreOwn`: a claim an open merge has written is free, or its own movie's, in the committed table;
- `HeldAreDisjoint`: no two open merges have written the same claim, so the commit of one leaves
  `HeldAreOwn` of the others alone;
- `AllAttached`: evidence is attached after its last claim;
- `Observing`, `Recorded`: an attempt works on an observation whose candidates no longer change.

`Commit` then writes all claims of its evidence for its own movie and overwrites nobody's.

*Documents*: `DocumentSafety` (`DocumentIsCurrent`). A merge reads the
records of its movie and writes the document some statements later. `LockIsExclusive` (one merge holds the
row of a movie), `ReadIsCurrent` (what it read is still what is attached, plus its own) and `RowIsFree`:
a record's claims pin it to its movie, so no merge of another movie takes it away in between. The last
one is where `EvidenceAssumption` is needed: evidence without claims would be pinned by nothing.

**`ProviderCache_proofs`**, for any number of calls, bodies, prefixes and fetches; three arguments.
`CacheTypeSafety`, `SingleFlightSafety` (`SingleFlight`) and `PointerSafety` (`PointerNamesObservation`) hold
under every fault: `LockIsHeld` (a call in the fetch section is the holder Redis knows, or its lock ran out)
and `PointersAreNamed` (a pointer passes only through calls whose observation has committed).
`LiveRowSafety` (`LiveRowHasObject`) and `NeedlessSafety` (`NoNeedlessFetch`) hold when no call outlives its lock,
nothing rots and no bucket rule removes objects (`Reliable`); calls still fail, crash and are evicted.
`RecorderHoldsLock` gives one recorder at a time; `RecordsWhatIsThere`: between the PUT of an object and the
commit of its row only a sweep of the dead row removes the object, whose expiry the upsert then keeps
(`LEAST`), so the row stays dead; `SweepsTheDead`: an old selection of the sweep names dead rows only, and rows stay
dead; `MissesStay`: what the lookup under the lock missed stays missing until the fetch. TLC shows the condition
necessary: `LiveRowHasObject` fails with each of the three faults, `NoNeedlessFetch` with an expired lock.

**`ImageCache_proofs`**: `ImageTypeSafety`, `FindableSafety` (`StorageIsFindable`), `SharedSafety`
(`SharedBytesStay`), for any number of candidates, contents and requests. A sweep deletes an object in three
steps. `ChecksHold`: rows that name an object about to be deleted were written after the check. `Known`: what is
stored or being stored is registered, or lost its registration to a sweep (the ghost `exposed`). That is inductive only with
`SweepsPass`: a content that lost its registration while a job stores it is not on the list again before
the job is done; and `TargetInUse`: nothing that names a target may be evicted meanwhile.

**`Redirects_proofs`**: what merges of merged entities leave behind. `Descends`: the retired ones can be numbered
so that an entity that was merged into another one, itself retired later, has the smaller number. `DescendsStep`:
a transaction that merges live entities into a live one gives them the next number, so no order of merges makes a
cycle. `ChainsEnd`: from every entity the redirects lead to one that was not merged, in no more steps than entities
were. `CanonicalIs`: `CanonicalID` finds that one if it is at most 16 redirects away. Both kinds of merge cite them:
for people it takes `Redirected` (a redirect is of a person that is not live, to one that exists) and that a merge
holds two live people; for artists `Unites` (the artists a consolidation is about stay live until it commits).
Induction over steps is done with the smallest step that fails (`SmallestExists`), a set instead of a predicate.

**`PersonMerge_proofs`**: `PersonTypeSafety`, `DecisionsSafety` (`DecisionsStand`), `LeftBehindSafety`
(`NothingLeftBehind`), `RetiredSafety` (`RetiredResolve`), for any number of people, credits and
reconcilers. `OneMerge` and `StillProposed` say what an open merge relies on: its people are live and its
proposals, whose rows it has locked, are undecided.
`ClaimsMove`, `CreditsMove`, `ProposalsMove`: what belongs to the person it retires will move with its commit, or
was written after its statement read that table, by someone who had looked the person up before (`late`).
Claims, credits and proposals each have their own statement, hence their own conjunct; `NamedByClaim`
excludes that a person is created again out of a credit. `RecordsTypeSafety` (`RecordsTypeOK`): the provider cache and
people share no variable, so a behaviour of both is one of each (`RecordsComposition`).

**`KeepsEvidence_proofs`**: `ShowEvidenceSafety` (`DocumentKeepsEvidence`), and for artists `ArtistTypeSafety` and
`ArtistEvidenceSafety` (`ArtistKeepsEvidence`), for any number of overlapping ingestions, ids, observations
and failures. Both merges read records, write a document some statements later and publish with the commit.

- Shows: `ShowHeld` (while a job writes a show, it is nobody else's) and `ReadyToPublish` (the collected answers,
  completed by the largest stored one of each missing provider, keep what the show has). The largest exists
  by well-foundedness (`LargestExists`). Answers are never taken back (`RefersToAnswers`).
- Artists: `Holds`, `Takes` (every record of an artist that is retired is staged), `Completes` (the document has
  the newest of the rows as the transaction will leave them) and `Apart` (no two merges hold the same
  artist, the retired ones included). Nothing is assumed of claims: which artist a merge chose matters to
  who owns what, not to whether evidence is kept. `RetiredArtistsSafety` (`RetiredArtistsResolve`) adds `ChainInv`.
- Types: `EpisodicTypeSafety` needs `AtClaim`, where a job is in the loops over its records and their ids, and that an
  accepted claim names a show (`ClaimsTyped`). `IdentityTypeSafety` (`IdentityTypeOK`) puts the three kinds together.

**`Progress_proofs`**: the components whose liveness the run `progress` checks, each for any instance of it.

- Request gate: `SpacingSafety` (`SpacedRequests`). The time since the last request and the time to the next reservation
  add up to at least the interval in force, and a cooldown ends no later than the next reservation may start.
- Discovery: `RunTypeSafety`, `TerminalSafety` (`TerminalIsAnnounced`), and without known identifiers `CacheSafety`
  (`CacheIsTrue`) and `CompletedSafety` (`CompletedStays`). `AttemptsLeft`: a worker is busy with a running row only, and
  a waiting row has an attempt left. `OneActiveJob`: River inserts nothing while a job is active. `WorksOnOpenRun`: past
  `GetRun` an attempt works on a run without result. It is not inductive without `OneActiveJob`, since a second job
  could complete the run in between. With known identifiers the handler does, which is why these two need `JobSpec`.
- Demand counters: `ConservationSafety` (`CountsAreConserved`). What is in flight is a sum over the flushes, which the model
  takes with the fold of the community modules. The fold is a recursive function; `SumUpTo` shows it well defined up to any
  finite set and `SumOverIs` that it is the sum, `SumChange` that changing one flush changes it by the difference. Each
  statement then moves reads from one place to another (`ReadsMove`), counts one, or, when a commit is not heard of, puts
  reads into the table that stay with the flush (`repeated`). It is inductive only with
  `ClaimsAreTracked`: a counter a flush claimed is still to be written, written or discarded, and only one of these, for
  otherwise a commit or a rollback could count it twice or not at all.
- Types of refresh, drain, fingerprint runs and discographies. `DrainInv`: an outbox has no more rows to sequence than were
  staged. `CatalogInv`: a synchronisation walks over its clusters within their number, starts each phase at the first one,
  activates a promotion only in a group it has merged into (`OnItsWay`), and a free source has a free id (`FreeGroup`);
  the clusters that coalescing keeps are some, in their order (`InOrderTyped`: a smallest set without one has none).
- `Composition`: a behaviour of `ProgressSpec` is one of every component; `ProgressTypeSafety` (`AllTypeOK`) follows from the
  theorems about each, the types of movies and images included, whose modules it cites.

Every invariant and every safety property of the passing runs has a theorem. Model-checked only: liveness, that is
`EventuallySequenced`, `EventuallyCurrent`, `ResolveReturns` and the eight of `progress`. Liveness under fairness is out
of the prover's reach, as are ENABLED and RECURSIVE operators, of which the modules proved about use none. The properties
the runs refute are false and have no theorem but `AcceptedSafety`, under its condition.

## Where the code and its documents disagree

1. **A restored database may be read unsafely** (`change_feed_restore`). docs/change-feed.md:41 promises
   `409` "when continuing would be unsafe". `ReadPage` compares the stream UUID and `after > head`. A
   restored snapshot keeps its UUID; once new publications have numbered the log past a consumer's
   cursor, its request is accepted and the changes that reuse numbers up to its cursor are never
   delivered. This is why `NoSkip` and `CaughtUpIsCurrent` except restored streams.
2. **202 without a job** (`discovery_backed`). docs/client-resolution-flow.md:121 gives 202 "when work
   continues in River". `Fail` commits the failed state while River still counts the job as running; a
   POST in between starts the run over, its insert is deduplicated onto that job, and the run stays
   queued until `expires_at`. `DiscoveryIsAnswered` (run `progress`) shows that a caller that resubmits is
   answered after all.
3. **The detail cache may go back** (`movie_cache`). docs/domains/movie.md:276: "an older job cannot
   replace newer output". The upsert of the document compares versions, the Redis SET after
   the commit does not, nor does the reader that fills the cache.
4. **Two ids of one provider merged without a moderator** (`person_same_provider`).
   docs/person-reconciliation.md:22: "Two different IDs from the same provider are never accepted
   automatically". `proposeReconciliations` assesses each pair; the pairs it verified are then accepted one
   after the other under the names earlier merges have left (`reconciliation.go:155-178`). With B of
   TVmaze equal to both A and C of TMDB, (A,B) merges B into A, (B,C) becomes (A,C), and the
   proposal (A,C) the merge carried over is accepted although nobody assessed it.
5. **An artist loses the root it collected** (`artist_root`). The comment at `artists/service.go:887`: "A
   directly observed provider root also keeps ownership; an incompatible incoming cross-link must not
   invalidate the good entity that already collected it". The incoming merge may read that root from the
   provider cache: then the row it recorded is the owner's, and the attach loop sets its `entity_id` to
   NULL (`service.go:934`). The owner no longer counts as having observed its root; the next
   ingestion with the same cross-link disputes its claim.

## Behaviour worth knowing that no run refutes

Provider cache, discovery, movies:

- Re-recording a body keeps `LEAST(expires_at)` (`ingest/observations.go:111`): its blob may expire before
  `reusable_until` of the new observation, and the response is fetched again.
- `invalidateCorrupt` deletes by key: a call that read the rot before another call repaired the object
  deletes the repaired one, and the next call repairs it again.
- A call that published its pointer late may leave Redis with a response that has been swept since: the lookup
  under the lock follows that pointer, finds no object and fetches, though another recorded response is still
  reusable (three calls, two bodies). `NoNeedlessFetch` therefore excepts fetches while the body of a recorded
  response is gone.
- `MarkMissing` may mark a row deleted after another call has recorded the body again; the object is
  then left to the bucket's lifecycle rule.
- `Start` does not look at the state it replaces (`discovery/store.go:110`): a run a handler has just
  completed from known identifiers goes back to working when a job of an earlier submission starts.
  `CompletedStays` and `CacheIsTrue` are therefore checked without known identifiers, where the
  worker's own check suffices.
- A worker may fetch a job between its insert and its promotion (`jobs/discovery.go:37`); the insert
  then deletes credentials the job would have used. `DiscoveryIsAnswered` covers callers without keys.
- A change may be announced before Redis has its document; a consumer that reacts at once may be
  served the older cached one.
- A conflict row is written for each attempt of a conflicting job.

Shows:

- When a TMDB root no longer lists an id it shared with another root, its claim is superseded and the next
  ingestion may create a further show beside the first (docs/tv-anime-domain.md:41-42).
- Two first ingestions of roots that share an id, side by side, leave two shows; later ingestions of
  either find both and fail for ever with a plain error, without a conflict row.
- Records are newest by the time they were persisted, not fetched.

Artists:

- A merge that resolved an artist locks it without asking whether it is still live (`service.go:874`): after a
  consolidation in between it publishes to, and claims ids for, the retired artist. Readers are redirected.
- A live artist may hold two accepted MusicBrainz ids, or none, and a completed run may be of a
  root whose claim belongs to another artist.

People:

- A proposal that names a retired person can only be rejected. A rejection of (A, X) is not carried over to
  the pair of the survivor. Identifiers an enrichment persists for a person it had looked up before
  the merge stay with the retired person; a late proposal is carried over to the survivor by the next merge of
  either person, which does not look at the other one (`moderation.go:190`). `CanonicalID` follows at most 16
  redirects: a chain that is longer ends, but it does not find the end, so `RetiredResolve` asks it only where
  the live person is near enough.

Jobs:

- `Wait` has no queue: a waiter may starve while others keep taking the gate. AniDB's `DeferredFor` and its
  `Wait` are two calls; a cooldown may start in between.
- A fingerprint job that runs again on a completed run finds the fingerprint erased and replaces the
  result by an empty no_match. Without credentials the job is cancelled and the run stays queued or
  working until the retention job removes it; `fingerprintmatch.Cleanup` is never called.
- A flush whose COMMIT takes effect while its answer is lost, or its context ends, restores what the table has: these
  reads are counted twice (`accessstats/access.go:101-103`). The comment of `Flush` promises a restore after "a failed
  transaction" only, and nothing in the docs promises exact counts.
- Refreshes are selected by demand, then by how long they are overdue, 500 rows of a kind in a pass
  (`jobs/refresh.go:70-72`, and alike for the other kinds). If as many rows in more demand fall due in every hour, or
  as many that are demanded or longer overdue fail in every pass, entities nobody asks for are not refreshed at all.
- A movie that fails to refresh keeps its `next_eligible_at` and is tried again in the next pass; some kinds
  (`recordings/evidence.go:61`, `artists/service.go:1514`) move theirs ahead before they try.

Discographies:

- docs/music-domain.md:159 says that catalogue-promoted targets "remain active, resolvable alternate identities
  [...] rather than being silently deleted". The UPDATE that deletes orphans (`musiccatalog/service.go:1490-1498`)
  asks whether an accepted relation has the group as its target, not whether one names it as an alternate: an
  artist who drops a release it had promoted deletes the group that another artist's relation
  names as alternate; from its next synchronisation on the other artist does not name it any more.
- Between the supersession of a listing and the insert of the new one, the orphan deletion of another
  artist may delete a group that is about to be listed; the discography shows it until the next synchronisation
  of the first artist revives it.
- The UPDATE of orphans that had to wait for the merge of a group deletes it although it has just become
  independent: its subqueries keep their snapshot.
- Claims are resolved whether or not their group is deleted (`releasegroups/service.go:314`), cluster targets
  only if it is not: a cluster whose sources belong to a live and to a deleted group passes the check for
  conflicts, fails to be promoted, and stays off the discography until somebody revives the deleted one.
- When the cache fails after a promotion has committed, a group is live without a promotion row, and no
  orphan deletion finds it.

## What is not modelled, and why

*Instances of modelled patterns*: releases, recordings, works, anime, books and manga merge in
the same kind of transaction as movies, with other tables and lists of claims; the workflow feed repeats
the change feed statement by statement. *Data*: normalisers, matching scores, combination of
values, presentation: their results only mean something on real payloads. *Pure I/O*: provider
clients, the HTTP layer, the web application, the generated SDK. *Single statements*: accounts,
sessions, captcha and connectivity limits, whose operations are one command each. What the modelled
components leave out is listed with [the modules](#modules-and-how-they-correspond-to-the-code).

## Plan

Done: the change feed with its abstract specification, the provider cache, discovery runs, movies, shows,
artists, people, images, refresh, the drain, rate limits, fingerprint runs, demand counters, discographies; theorems as
listed above. Left, in order of importance:

1. Anime evidence and the merge of season and episode trees (`anime`, `episodic`).
2. The documents of release groups, releases and recordings as instances of `MovieIngest`.
3. The workflow feed as a second instance of `ChangeFeed`, composed with `DiscoveryRun`.
4. Pure algorithms as operators against reference definitions: collection planner, ETag negotiation,
   identifier routing.
5. Theorems: which claims a live artist keeps through a consolidation, and a refinement of `MovieIngest` and
   `EpisodicIngest` to one specification of a merge.
