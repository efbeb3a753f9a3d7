----------------------------- MODULE MovieIngest -----------------------------
(***************************************************************************)
(* Ingestion of a movie (internal/movies/service.go): collect and normalise *)
(* evidence, then one transaction that resolves the identity, attaches the  *)
(* evidence to a canonical movie and republishes its projection; then the   *)
(* detail cache in Redis, which readers (internal/movies/read.go) fill too. *)
(* Transactions run at READ COMMITTED: a statement sees what is committed   *)
(* when it starts, and waits for the row locks of open transactions. What   *)
(* a transaction has written is in its job record until it commits.         *)
(***************************************************************************)
EXTENDS Integers, Sequences, FiniteSets

CONSTANTS
    Jobs,          \* ingestion jobs
    Titles,        \* TMDB ids
    Claims,        \* external ids, the TMDB ids among them
    Entities,      \* canonical movies that may come to exist
    Slugs,         \* base slugs
    TitleOf,       \* the TMDB id of each job
    Evidence,      \* for each title, the candidate lists its observations may hold
    SlugOf,        \* base slug of each title
    Readers,       \* GET requests for the detail document
    MaxObservations, MaxAttempts,  \* bounds
    Faults,        \* which of {"error", "crash", "redis"} occur
    None

ASSUME MovieAssumption ==
    /\ MaxObservations \in Nat /\ MaxAttempts \in Nat \ {0}
    /\ TitleOf \in [Jobs -> Titles] /\ SlugOf \in [Titles -> Slugs]
    /\ Evidence \in [Titles -> SUBSET Seq(Claims)]
    /\ None \notin Entities

\* A normaliser always names the record's own id.
ASSUME EvidenceAssumption == \A t \in Titles : <<>> \notin Evidence[t]

VARIABLES
    clock,      \* observations so far; an observation is named by its time
    records,    \* observations with their normalised records
    entities,   \* entities and their slugs, committed
    claims,     \* external_id_claims: the movie each accepted claim belongs to
    document,   \* api_documents: version and the evidence combined in it
    cache,      \* version of the detail document in Redis, 0 when absent
    conflicts,  \* jobs that recorded an identity conflict
    run,        \* movie_ingestion_runs
    job,        \* local state of each ingestion
    reader      \* local state of each GET

committed == <<records, entities, claims, document>>
vars == <<clock, committed, cache, conflicts, run, job, reader>>

Observations == 1..MaxObservations
Candidates == UNION {Evidence[t] : t \in Titles}
SlugRow == [base : Slugs, suffix : Nat]

Record == [state : {"none", "observed", "normalized"}, title : Titles \cup {None},
           candidates : Candidates \cup {<<>>}, entity : Entities \cup {None}]
NoRecord == [state |-> "none", title |-> None, candidates |-> <<>>, entity |-> None]
NoSlug == [base |-> None, suffix |-> 0]
EntityRecord == [live : BOOLEAN, slug : SlugRow \cup {NoSlug}]
DocumentRecord == [version : Nat, sources : SUBSET Observations]
JobRecord ==
    [pc : {"idle", "collect", "record", "resolve", "create", "lock", "claims", "attach", "load", "commit",
           "cache", "failed", "done"},
     attempt : 0..MaxAttempts, obs : Observations \cup {0}, next : Nat \ {0}, found : SUBSET Entities,
     entity : Entities \cup {None}, slug : SlugRow \cup {NoSlug}, sources : SUBSET Observations,
     version : Nat]
ReaderRecord == [pc : {"idle", "read", "fill"}, entity : Entities \cup {None},
                 version : Nat]

Fresh(attempt, pc) ==
    [pc |-> pc, attempt |-> attempt, obs |-> 0, next |-> 1, found |-> {}, entity |-> None,
     slug |-> NoSlug, sources |-> {}, version |-> 0]
IdleReader == [pc |-> "idle", entity |-> None, version |-> 0]

Init ==
    /\ clock = 0
    /\ records = [o \in Observations |-> NoRecord]
    /\ entities = [e \in Entities |-> [live |-> FALSE, slug |-> NoSlug]]
    /\ claims = [c \in Claims |-> None]
    /\ document = [e \in Entities |-> [version |-> 0, sources |-> {}]]
    /\ cache = [e \in Entities |-> 0]
    /\ conflicts = {}
    /\ run = [j \in Jobs |-> "none"]
    /\ job = [j \in Jobs |-> Fresh(0, "idle")]
    /\ reader = [r \in Readers |-> IdleReader]

To(j, pc) == job' = [job EXCEPT ![j].pc = pc]
List(j) == records[job[j].obs].candidates

-----------------------------------------------------------------------------
(* Evidence *)

\* The run row says working; every attempt starts from nothing.
Start(j) ==
    /\ job[j].pc \in {"idle", "failed"} /\ job[j].attempt < MaxAttempts
    /\ run' = [run EXCEPT ![j] = "working"]
    /\ job' = [job EXCEPT ![j] = Fresh(job[j].attempt + 1, "collect")]
    /\ UNCHANGED <<clock, committed, cache, conflicts, reader>>

Observed(t) == {o \in Observations : records[o].state # "none" /\ records[o].title = t}

\* A response from upstream is recorded as a new observation ...
Observe(j) ==
    /\ job[j].pc = "collect" /\ clock < MaxObservations
    /\ \E list \in Evidence[TitleOf[j]] :
          records' = [records EXCEPT ![clock + 1] =
              [state |-> "observed", title |-> TitleOf[j], candidates |-> list, entity |-> None]]
    /\ clock' = clock + 1
    /\ job' = [job EXCEPT ![j].pc = "record", ![j].obs = clock + 1]
    /\ UNCHANGED <<entities, claims, document, cache, conflicts, run, reader>>

\* ... or the provider cache answers with the last one.
Reuse(j) ==
    /\ job[j].pc = "collect"
    /\ \E o \in Observed(TitleOf[j]) :
          /\ \A p \in Observed(TitleOf[j]) : p <= o
          /\ job' = [job EXCEPT ![j].pc = "record", ![j].obs = o]
    /\ UNCHANGED <<clock, committed, cache, conflicts, run, reader>>

\* recordNormalized: one row per observation, whoever normalises it.
RecordNormalized(j) ==
    /\ job[j].pc = "record"
    /\ records' = [records EXCEPT ![job[j].obs].state = "normalized"]
    /\ To(j, "resolve")
    /\ UNCHANGED <<clock, entities, claims, document, cache, conflicts, run, reader>>

-----------------------------------------------------------------------------
(* The merge transaction *)

\* Mutated form: a candidate without a claim counts as resolved.
ResolveClaimAlways(j) ==
    /\ job[j].pc = "resolve" /\ job[j].next <= Len(List(j))
    /\ job' = [job EXCEPT ![j].next = @ + 1, ![j].found = @ \cup {claims[List(j)[job[j].next]]}]
    /\ UNCHANGED <<clock, committed, cache, conflicts, run, reader>>

\* One SELECT per candidate, each with a snapshot of its own and no lock.
ResolveClaim(j) ==
    /\ job[j].pc = "resolve" /\ job[j].next <= Len(List(j))
    /\ job' = [job EXCEPT ![j].next = @ + 1, ![j].found = @ \cup ({claims[List(j)[job[j].next]]} \ {None})]
    /\ UNCHANGED <<clock, committed, cache, conflicts, run, reader>>

Resolved(j) == job[j].pc = "resolve" /\ job[j].next > Len(List(j))

\* Several movies: the conflict is recorded and the attempt fails.
RecordConflict(j) ==
    /\ Resolved(j) /\ Cardinality(job[j].found) > 1
    /\ conflicts' = conflicts \cup {j}
    /\ To(j, "failed")
    /\ run' = [run EXCEPT ![j] = "failed"]
    /\ UNCHANGED <<clock, committed, cache, reader>>

ChooseEntity(j) ==
    /\ Resolved(j)
    /\ \/ job[j].found = {} /\ To(j, "create")
       \/ \E e \in Entities : job[j].found = {e} /\ job' = [job EXCEPT ![j].pc = "lock", ![j].entity = e]
    /\ UNCHANGED <<clock, committed, cache, conflicts, run, reader>>

\* The slugs of committed movies push the suffix up; an uncommitted one is waited for.
Taken(slug) == \E e \in Entities : entities[e].live /\ entities[e].slug = slug
Reserved(e) == entities[e].live \/ \E k \in Jobs : job[k].slug # NoSlug /\ job[k].entity = e

CreateEntity(j) ==
    /\ job[j].pc = "create"
    /\ \E n \in 0..Cardinality(Jobs), e \in Entities :
          LET slug == [base |-> SlugOf[TitleOf[j]], suffix |-> n] IN
          /\ ~Taken(slug) /\ \A m \in 0..(n - 1) : Taken([slug EXCEPT !.suffix = m])
          /\ \A k \in Jobs : job[k].slug # slug
          /\ ~Reserved(e)
          /\ job' = [job EXCEPT ![j].pc = "lock", ![j].entity = e, ![j].slug = slug]
    /\ UNCHANGED <<clock, committed, cache, conflicts, run, reader>>

InMerge == {"claims", "attach", "load", "commit"}

\* Mutated form: the movie is read without FOR UPDATE.
LockEntityPlain(j) ==
    /\ job[j].pc = "lock"
    /\ job' = [job EXCEPT ![j].pc = "claims", ![j].next = 1]
    /\ UNCHANGED <<clock, committed, cache, conflicts, run, reader>>

\* SELECT slug ... FOR UPDATE
LockEntity(j) ==
    /\ job[j].pc = "lock"
    /\ \A k \in Jobs : job[k].pc \in InMerge => job[k].entity # job[j].entity
    /\ job' = [job EXCEPT ![j].pc = "claims", ![j].next = 1]
    /\ UNCHANGED <<clock, committed, cache, conflicts, run, reader>>

\* The claim rows this transaction has written.
Held(j) == IF job[j].pc \in InMerge THEN {List(j)[i] : i \in 1..(job[j].next - 1)} ELSE {}

\* Mutated form: the upsert has no condition on the movie the claim belongs to.
AttachClaimUnchecked(j) ==
    /\ job[j].pc = "claims" /\ job[j].next <= Len(List(j))
    /\ \A k \in Jobs \ {j} : List(j)[job[j].next] \notin Held(k)
    /\ job' = [job EXCEPT ![j].next = @ + 1]
    /\ UNCHANGED <<clock, committed, cache, conflicts, run, reader>>

\* Mutated form: the order of the candidates differs from one attempt to the next.
AttachClaimAnyOrder(j) ==
    LET position(k, i) == IF job[k].obs % 2 = 0 THEN i ELSE Len(List(k)) + 1 - i
        held(k) == IF job[k].pc \in InMerge THEN {List(k)[position(k, i)] : i \in 1..(job[k].next - 1)} ELSE {}
    IN  /\ job[j].pc = "claims" /\ job[j].next <= Len(List(j))
        /\ \A k \in Jobs \ {j} : List(j)[position(j, job[j].next)] \notin held(k)
        /\ job' = [job EXCEPT ![j].next = @ + 1]
        /\ UNCHANGED <<clock, committed, cache, conflicts, run, reader>>

\* INSERT ... ON CONFLICT DO UPDATE ... WHERE the claim is this movie's: one row at a
\* time, waiting for another transaction that has written the claim. A claim of another
\* movie fails the attempt and rolls everything back.
AttachClaim(j) ==
    LET c == List(j)[job[j].next] IN
    /\ job[j].pc = "claims" /\ job[j].next <= Len(List(j))
    /\ \A k \in Jobs \ {j} : c \notin Held(k)
    /\ IF claims[c] \in {None, job[j].entity}
       THEN job' = [job EXCEPT ![j].next = @ + 1] /\ run' = run
       ELSE job' = [job EXCEPT ![j] = Fresh(job[j].attempt, "failed")] /\ run' = [run EXCEPT ![j] = "failed"]
    /\ UNCHANGED <<clock, committed, cache, conflicts, reader>>

ClaimsAttached(j) ==
    /\ job[j].pc = "claims" /\ job[j].next > Len(List(j))
    /\ To(j, "attach")
    /\ UNCHANGED <<clock, committed, cache, conflicts, run, reader>>

\* UPDATE normalized_records SET entity_id, waiting for whoever is attaching the same row.
AttachRecord(j) ==
    /\ job[j].pc = "attach"
    /\ \A k \in Jobs \ {j} : job[k].pc \in {"load", "commit"} => job[k].obs # job[j].obs
    /\ To(j, "load")
    /\ UNCHANGED <<clock, committed, cache, conflicts, run, reader>>

\* The newest record of each provider id among those of the movie.
Newest(rows) == {o \in rows : \A p \in rows : records[p].title = records[o].title => p <= o}
RecordsOf(e) == {o \in Observations : records[o].entity = e}

LoadRecords(j) ==
    /\ job[j].pc = "load"
    /\ job' = [job EXCEPT ![j].pc = "commit",
                          ![j].sources = Newest(RecordsOf(job[j].entity) \cup {job[j].obs})]
    /\ UNCHANGED <<clock, committed, cache, conflicts, run, reader>>

\* Everything the transaction wrote: the movie, its claims, the attached record, the
\* documents under the next version, the outbox row and the completed run.
Commit(j) ==
    LET e == job[j].entity
        version == document[e].version + 1
    IN  /\ job[j].pc = "commit"
        /\ entities' = IF job[j].slug = NoSlug THEN entities
                       ELSE [entities EXCEPT ![e] = [live |-> TRUE, slug |-> job[j].slug]]
        /\ claims' = [c \in Claims |-> IF c \in Held(j) /\ claims[c] = None THEN e ELSE claims[c]]
        /\ records' = [records EXCEPT ![job[j].obs].entity = e]
        /\ document' = [document EXCEPT ![e] = [version |-> version, sources |-> job[j].sources]]
        /\ run' = [run EXCEPT ![j] = "completed"]
        /\ job' = [job EXCEPT ![j] = [Fresh(job[j].attempt, "cache") EXCEPT !.entity = e, !.version = version]]
        /\ UNCHANGED <<clock, cache, conflicts, reader>>

-----------------------------------------------------------------------------
(* After the transaction *)

\* cache: the document of this attempt, whatever Redis holds by now.
CacheDetail(j) ==
    /\ job[j].pc = "cache"
    /\ cache' = [cache EXCEPT ![job[j].entity] = job[j].version]
    /\ job' = [job EXCEPT ![j] = Fresh(job[j].attempt, "done")]
    /\ UNCHANGED <<clock, committed, conflicts, run, reader>>

\* Redis is down: the attempt fails after its transaction has committed.
CacheError(j) ==
    /\ "redis" \in Faults /\ job[j].pc = "cache"
    /\ job' = [job EXCEPT ![j] = Fresh(job[j].attempt, "failed")]
    /\ run' = [run EXCEPT ![j] = "failed"]
    /\ UNCHANGED <<clock, committed, cache, conflicts, reader>>

\* A failed statement, a provider error, a deadlock Postgres breaks: the transaction
\* rolls back and the deferred function stores the failure.
Abort(j) ==
    /\ "error" \in Faults
    /\ job[j].pc \notin {"idle", "cache", "failed", "done"}
    /\ job' = [job EXCEPT ![j] = Fresh(job[j].attempt, "failed")]
    /\ run' = [run EXCEPT ![j] = "failed"]
    /\ UNCHANGED <<clock, committed, cache, conflicts, reader>>

\* The process dies: the run keeps its state, and the job is rescued while it has attempts.
Crash(j) ==
    /\ "crash" \in Faults
    /\ job[j].pc \notin {"idle", "failed", "done"}
    /\ job' = [job EXCEPT ![j] = Fresh(job[j].attempt, "failed")]
    /\ UNCHANGED <<clock, committed, cache, conflicts, run, reader>>

-----------------------------------------------------------------------------
(* Detail *)

\* A document in Redis is served at once and changes nothing.
Read(r, e) ==
    /\ reader[r].pc = "idle" /\ document[e].version > 0 /\ cache[e] = 0
    /\ reader' = [reader EXCEPT ![r] = [IdleReader EXCEPT !.pc = "read", !.entity = e]]
    /\ UNCHANGED <<clock, committed, cache, conflicts, run, job>>

ReadDocument(r) ==
    /\ reader[r].pc = "read"
    /\ reader' = [reader EXCEPT ![r].pc = "fill", ![r].version = document[reader[r].entity].version]
    /\ UNCHANGED <<clock, committed, cache, conflicts, run, job>>

FillCache(r) ==
    /\ reader[r].pc = "fill"
    /\ cache' = [cache EXCEPT ![reader[r].entity] = reader[r].version]
    /\ reader' = [reader EXCEPT ![r] = IdleReader]
    /\ UNCHANGED <<clock, committed, conflicts, run, job>>

ExpireCache(e) ==
    /\ cache[e] # 0
    /\ cache' = [cache EXCEPT ![e] = 0]
    /\ UNCHANGED <<clock, committed, conflicts, run, job, reader>>

-----------------------------------------------------------------------------
Merge(j) ==
    \/ ResolveClaim(j) \/ RecordConflict(j) \/ ChooseEntity(j) \/ CreateEntity(j) \/ LockEntity(j)
    \/ AttachClaim(j) \/ ClaimsAttached(j) \/ AttachRecord(j) \/ LoadRecords(j) \/ Commit(j)

Ingest(j) == Start(j) \/ Observe(j) \/ Reuse(j) \/ RecordNormalized(j) \/ Merge(j) \/ CacheDetail(j)

Detail(r) == (\E e \in Entities : Read(r, e)) \/ ReadDocument(r) \/ FillCache(r)

Next ==
    \/ \E j \in Jobs : Ingest(j) \/ CacheError(j) \/ Abort(j) \/ Crash(j)
    \/ \E r \in Readers : Detail(r)
    \/ \E e \in Entities : ExpireCache(e)

Spec == Init /\ [][Next]_vars

\* Workers go on. A lock is granted in the end to a transaction that waits for it.
MovieFairness == \A j \in Jobs :
    /\ WF_vars(Ingest(j)) /\ SF_vars(AttachClaim(j)) /\ SF_vars(LockEntity(j)) /\ SF_vars(CreateEntity(j))

-----------------------------------------------------------------------------
(* Properties *)

TypeOK ==
    /\ clock \in 0..MaxObservations /\ records \in [Observations -> Record]
    /\ entities \in [Entities -> EntityRecord] /\ claims \in [Claims -> Entities \cup {None}]
    /\ document \in [Entities -> DocumentRecord]
    /\ cache \in [Entities -> Nat] /\ conflicts \subseteq Jobs
    /\ run \in [Jobs -> {"none", "working", "failed", "completed"}]
    /\ job \in [Jobs -> JobRecord] /\ reader \in [Readers -> ReaderRecord]

\* Conflicting claims never merge two movies silently: every claim in the evidence
\* attached to a movie belongs to that movie, however ingestions interleave between
\* resolving the claims without a lock and attaching them.
EvidenceOwnsItsClaims ==
    \A o \in Observations : records[o].entity # None =>
        \A i \in DOMAIN records[o].candidates : claims[records[o].candidates[i]] = records[o].entity

\* A published document combines the newest record of every title attached to its movie,
\* whichever order ingestions finish in: none is lost and an older job does not win.
DocumentIsCurrent ==
    \A e \in Entities : document[e].sources = Newest(RecordsOf(e))

\* Ids that two lists of candidates share come in one order. The candidates of a provider do;
\* with an id that only a later provider of an attempt knows, those of two titles may not, and
\* it is Postgres that ends one of two attempts then.
InOneOrder ==
    \A l, m \in Candidates : \A i, j \in DOMAIN l, k, n \in DOMAIN m :
        i < j /\ l[i] = m[k] /\ l[j] = m[n] => k < n

\* Ingestions of titles that list their ids in one order never wait for each other in a
\* circle, whichever movies, slugs and claims they want: an attempt that has begun ends.
MergesEnd == InOneOrder => \A j \in Jobs : job[j].pc = "resolve" ~> job[j].pc \in {"done", "failed"}

\* An older job cannot replace newer output: the cached document only grows in version.
CacheNeverRegresses ==
    [][\A e \in Entities : cache'[e] # 0 => cache'[e] >= cache[e]]_vars
==============================================================================
