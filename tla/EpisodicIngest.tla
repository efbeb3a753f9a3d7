--------------------------- MODULE EpisodicIngest ---------------------------
(***************************************************************************)
(* Ingestion of a TV show (internal/tvshows/service.go collects, the rest   *)
(* is internal/episodic/store.go): a root record from TMDB, or from TVMaze  *)
(* when TMDB has none, the records of other providers it leads to, and one  *)
(* transaction that finds the canonical show by every id the records list,  *)
(* rewrites its claims and republishes its document from these records and  *)
(* the stored ones of the providers that did not answer this time.          *)
(***************************************************************************)
EXTENDS Integers, Sequences, FiniteSets, SequencesExt

CONSTANTS
    ShowJobs,      \* ingestion jobs
    RootOf,        \* the provider id each job was queued for
    ProviderIds,   \* provider ids of shows
    SourceOf,      \* the provider of an id
    Listings,      \* the lists of other ids the record of an id may hold
    Shows,         \* canonical shows that may come to exist
    MaxResponses, ShowAttempts, \* bounds
    ShowFaults,    \* which of {"error", "crash"} occur
    NoShow

ASSUME EpisodicAssumption ==
    /\ MaxResponses \in Nat /\ ShowAttempts \in Nat \ {0} /\ NoShow \notin Shows \cup ProviderIds
    /\ RootOf \in [ShowJobs -> ProviderIds]
    /\ SourceOf \in [ProviderIds -> {"tmdb", "tvdb", "tvmaze"}]
    /\ Listings \in [ProviderIds -> SUBSET Seq(ProviderIds)]

VARIABLES
    responses,    \* observations and their normalized_records, in the order of observed_at
    shows,        \* canonical shows
    claimRow,     \* external_id_claims: one row per id, whatever its state
    showDocument, \* api_documents: the records it combines, by the freshness it gives their provider
    ingestion,    \* local state of each job
    showRun       \* episodic_ingestion_runs

storedShows == <<responses, shows, claimRow, showDocument>>
episodicVars == <<storedShows, ingestion, showRun>>

Responses == 1..MaxResponses
Response == [of : ProviderIds \cup {NoShow}, lists : Seq(ProviderIds), show : Shows \cup {NoShow}]
ClaimRow == [show : Shows \cup {NoShow}, accepted : BOOLEAN, source : Responses \cup {0}]
ShowDocument == [fresh : SUBSET Responses, stale : SUBSET Responses]
NotIngesting == [pc |-> "idle", attempt |-> 0, root |-> NoShow, records |-> <<>>,
                 source |-> 1, next |-> 1, found |-> {}, show |-> NoShow, stale |-> {}]

EpisodicInit ==
    /\ responses = [o \in Responses |-> [of |-> NoShow, lists |-> <<>>, show |-> NoShow]]
    /\ shows = {}
    /\ claimRow = [c \in ProviderIds |-> [show |-> NoShow, accepted |-> FALSE, source |-> 0]]
    /\ showDocument = [e \in Shows |-> [fresh |-> {}, stale |-> {}]]
    /\ ingestion = [j \in ShowJobs |-> NotIngesting]
    /\ showRun = [j \in ShowJobs |-> "none"]

At(j, pc) == ingestion[j].pc = pc
Collected(j) == {ingestion[j].records[i] : i \in DOMAIN ingestion[j].records}
Sources(rows) == {SourceOf[responses[o].of] : o \in rows}

-----------------------------------------------------------------------------
(* Collection *)

\* A job is inserted when no other one for its root is active.
Over(j) == At(j, "done") \/ (At(j, "failed") /\ ingestion[j].attempt = ShowAttempts)
Insertable(j) == \A k \in ShowJobs \ {j} : RootOf[k] = RootOf[j] => At(k, "idle") \/ Over(k)

\* StartRun: the run row says working, whatever an earlier attempt left in it.
StartShow(j) ==
    /\ \/ At(j, "idle") /\ Insertable(j)
       \/ At(j, "failed") /\ ingestion[j].attempt < ShowAttempts
    /\ ingestion' = [ingestion EXCEPT ![j] = [NotIngesting EXCEPT
           !.pc = "root", !.attempt = ingestion[j].attempt + 1, !.root = RootOf[j]]]
    /\ showRun' = [showRun EXCEPT ![j] = "working"]
    /\ UNCHANGED storedShows

\* The provider answers with what it lists now, or the provider cache with the last answer.
Answers(id, o) ==
    \/ /\ \A p \in 1..(o - 1) : responses[p].of # NoShow
       /\ responses[o].of = NoShow
       /\ \E lists \in Listings[id] :
             responses' = [responses EXCEPT ![o].of = id, ![o].lists = lists]
    \/ /\ responses[o].of = id /\ \A p \in Responses : p > o => responses[p].of # id
       /\ responses' = responses

CollectRoot(j) ==
    /\ At(j, "root")
    /\ \E o \in Responses :
          /\ Answers(ingestion[j].root, o)
          /\ ingestion' = [ingestion EXCEPT ![j].pc = "collect", ![j].records = <<o>>]
    /\ UNCHANGED <<shows, claimRow, showDocument, showRun>>

\* The ids a lookup by something the root record lists may find.
FoundBy(j) ==
    LET listed == ToSet(responses[ingestion[j].records[1]].lists)
    IN  listed \cup {i \in ProviderIds : \E l \in Listings[i] : ToSet(l) \cap listed # {}}

\* TMDB knows what TVMaze lists: TMDB becomes the root, and collection starts again.
PromoteRoot(j) ==
    /\ At(j, "collect") /\ Len(ingestion[j].records) = 1 /\ SourceOf[ingestion[j].root] = "tvmaze"
    /\ \E t \in FoundBy(j) :
          /\ SourceOf[t] = "tmdb"
          /\ ingestion' = [ingestion EXCEPT ![j].pc = "root", ![j].root = t, ![j].records = <<>>]
    /\ UNCHANGED <<storedShows, showRun>>

\* A provider the root record leads to adds its record, TVDB before the others. One that
\* fails or knows nothing is passed over.
CollectSupplement(j) ==
    /\ At(j, "collect")
    /\ \E id \in FoundBy(j), o \in Responses :
          /\ Listings[id] # {} /\ SourceOf[id] \notin Sources(Collected(j))
          /\ SourceOf[id] = "tvdb" => Len(ingestion[j].records) = 1
          /\ Answers(id, o)
          /\ ingestion' = [ingestion EXCEPT ![j].records = Append(@, o)]
    /\ UNCHANGED <<shows, claimRow, showDocument, showRun>>

-----------------------------------------------------------------------------
(* PersistMany: one transaction *)

Persisting == {"resolve", "write", "publish"}
ListedBy(o) == Append(responses[o].lists, responses[o].of)

\* The upsert of normalized_records waits for a transaction that has written one of the rows.
NormalizeRecords(j) ==
    /\ At(j, "collect")
    /\ \A k \in ShowJobs \ {j} : ingestion[k].pc \in Persisting => Collected(k) \cap Collected(j) = {}
    /\ ingestion' = [ingestion EXCEPT ![j].pc = "resolve"]
    /\ UNCHANGED <<storedShows, showRun>>

\* One SELECT per id of each record, without a lock: only accepted claims lead to a show.
ResolveId(j) ==
    LET job == ingestion[j]
        ids == ListedBy(job.records[job.source])
        row == claimRow[ids[job.next]]
    IN  /\ At(j, "resolve") /\ job.source <= Len(job.records)
        /\ ingestion' = [ingestion EXCEPT
               ![j].found = @ \cup (IF row.accepted THEN {row.show} ELSE {}),
               ![j].source = IF job.next = Len(ids) THEN @ + 1 ELSE @,
               ![j].next = IF job.next = Len(ids) THEN 1 ELSE @ + 1]
        /\ UNCHANGED <<storedShows, showRun>>

Settled(j) == At(j, "resolve") /\ ingestion[j].source > Len(ingestion[j].records)
Failed(j) == [NotIngesting EXCEPT !.pc = "failed", !.attempt = ingestion[j].attempt]

\* Two shows: the attempt fails, and nothing is left of it but the failed run.
RefuseConflict(j) ==
    /\ Settled(j) /\ Cardinality(ingestion[j].found) > 1
    /\ ingestion' = [ingestion EXCEPT ![j] = Failed(j)]
    /\ showRun' = [showRun EXCEPT ![j] = "failed"]
    /\ UNCHANGED storedShows

\* No show: a new one. The loop over slugs always ends with a free one.
CreateShow(j) ==
    /\ Settled(j) /\ ingestion[j].found = {}
    /\ \E e \in Shows \ shows :
          /\ \A k \in ShowJobs : ingestion[k].show # e
          /\ ingestion' = [ingestion EXCEPT ![j].pc = "write", ![j].show = e]
    /\ UNCHANGED <<storedShows, showRun>>

\* Mutated form: the slug is read without FOR UPDATE.
LockShowPlain(j) ==
    /\ Settled(j)
    /\ \E e \in Shows :
          /\ ingestion[j].found = {e}
          /\ ingestion' = [ingestion EXCEPT ![j].pc = "write", ![j].show = e]
    /\ UNCHANGED <<storedShows, showRun>>

\* SELECT slug ... FOR UPDATE
LockShow(j) ==
    /\ Settled(j)
    /\ \E e \in Shows :
          /\ ingestion[j].found = {e} /\ \A k \in ShowJobs : ingestion[k].show # e
          /\ ingestion' = [ingestion EXCEPT ![j].pc = "write", ![j].show = e]
    /\ UNCHANGED <<storedShows, showRun>>

\* storedProviderFallbacks: the newest stored record of every other provider.
LoadFallbacks(j) ==
    LET others == {o \in Responses : /\ responses[o].show = ingestion[j].show
                                     /\ SourceOf[responses[o].of] \notin Sources(Collected(j))}
    IN  /\ At(j, "write")
        /\ ingestion' = [ingestion EXCEPT ![j].pc = "publish",
              ![j].stale = {o \in others : \A p \in others : SourceOf[responses[p].of] = SourceOf[responses[o].of] => p <= o}]
        /\ UNCHANGED <<storedShows, showRun>>

\* For each record in turn: what the provider used to list of this show is superseded, and
\* what it lists now is accepted, unless another show has the row.
Claimed(j) ==
    LET e == ingestion[j].show
        last(c) == SelectLastInSeq(ingestion[j].records, LAMBDA o : c \in ToSet(ListedBy(o)))
    IN  [c \in ProviderIds |->
            IF last(c) > 0 /\ claimRow[c].show \in {NoShow, e}
            THEN [show |-> e, accepted |-> TRUE, source |-> ingestion[j].records[last(c)]]
            ELSE [claimRow[c] EXCEPT !.accepted =
                     @ /\ ~ (claimRow[c].show = e /\ SourceOf[responses[claimRow[c].source].of] \in Sources(Collected(j)))]]

\* What the transaction wrote becomes visible: the show, its claims, the attached records,
\* the documents under the next version, and the completed run.
PublishShow(j) ==
    LET e == ingestion[j].show IN
    /\ At(j, "publish")
    /\ shows' = shows \cup {e}
    /\ claimRow' = Claimed(j)
    /\ responses' = [o \in Responses |->
           IF o \in Collected(j) THEN [responses[o] EXCEPT !.show = e] ELSE responses[o]]
    /\ showDocument' = [showDocument EXCEPT ![e] = [fresh |-> Collected(j), stale |-> ingestion[j].stale]]
    /\ showRun' = [showRun EXCEPT ![j] = "completed"]
    /\ ingestion' = [ingestion EXCEPT ![j] = [Failed(j) EXCEPT !.pc = "done"]]

\* A statement or a required lookup fails, or Postgres breaks a deadlock: rolled back, FailRun.
AbortShow(j) ==
    /\ "error" \in ShowFaults /\ ingestion[j].pc \notin {"idle", "failed", "done"}
    /\ ingestion' = [ingestion EXCEPT ![j] = Failed(j)]
    /\ showRun' = [showRun EXCEPT ![j] = "failed"]
    /\ UNCHANGED storedShows

\* The process dies: the run goes on saying working until the job is rescued.
CrashShow(j) ==
    /\ "crash" \in ShowFaults /\ ingestion[j].pc \notin {"idle", "failed", "done"}
    /\ ingestion' = [ingestion EXCEPT ![j] = Failed(j)]
    /\ UNCHANGED <<storedShows, showRun>>

EpisodicNext == \E j \in ShowJobs :
    \/ StartShow(j) \/ CollectRoot(j) \/ PromoteRoot(j) \/ CollectSupplement(j)
    \/ NormalizeRecords(j) \/ ResolveId(j) \/ RefuseConflict(j) \/ CreateShow(j) \/ LockShow(j)
    \/ LoadFallbacks(j) \/ PublishShow(j) \/ AbortShow(j) \/ CrashShow(j)

EpisodicSpec == EpisodicInit /\ [][EpisodicNext]_episodicVars

-----------------------------------------------------------------------------
(* Properties *)

EpisodicTypeOK ==
    /\ responses \in [Responses -> Response] /\ shows \subseteq Shows
    /\ claimRow \in [ProviderIds -> ClaimRow] /\ showDocument \in [Shows -> ShowDocument]
    /\ ingestion \in [ShowJobs -> [pc : {"idle", "root", "collect", "failed", "done"} \cup Persisting,
           attempt : 0..ShowAttempts, root : ProviderIds \cup {NoShow}, records : Seq(Responses),
           source : Nat \ {0}, next : Nat \ {0}, found : SUBSET Shows, show : Shows \cup {NoShow},
           stale : SUBSET Responses]]
    /\ showRun \in [ShowJobs -> {"none", "working", "failed", "completed"}]

\* The evidence a show has is not lost from its document, whichever ingestions of it
\* overlap: a provider with a stored record is in the document, and one that was not asked
\* this time with its newest record.
DocumentKeepsEvidence ==
    \A o \in Responses : responses[o].show # NoShow =>
        LET d == showDocument[responses[o].show]
        IN  \/ SourceOf[responses[o].of] \in Sources(d.fresh)
            \/ \E s \in d.stale : s >= o /\ SourceOf[responses[s].of] = SourceOf[responses[o].of]

=============================================================================
