-------------------------- MODULE RefreshScheduler --------------------------
(***************************************************************************)
(* The adaptive refresh (jobs/refresh.go, accessstats/access.go): every     *)
(* hour one job recalculates when each entity is due and, kind after kind,  *)
(* inserts an ingestion job for the due entities in most demand, skipping   *)
(* those whose current_job_id names a job that is still active.             *)
(***************************************************************************)
EXTENDS Integers, FiniteSets

CONSTANTS
    Tracked,     \* entities with a refresh state
    Kinds,       \* number of kinds; a pass takes them in order
    Demanded,    \* entities whose access score is higher than the others'
    Refusing,    \* entities whose provider answers every ingestion with an error
    SelectLimit, \* rows selected of a kind in one pass
    HotHours,    \* hours after which an entity in demand is due
    ColdHours    \* hours after which any entity is due

ASSUME RefreshAssumption ==
    /\ Kinds \in Nat \ {0} /\ Demanded \subseteq Tracked /\ Refusing \subseteq Tracked
    /\ SelectLimit \in Nat \ {0} /\ HotHours \in Nat \ {0} /\ ColdHours \in Nat /\ HotHours <= ColdHours

VARIABLES
    kindOf,  \* the kind of each entity
    age,     \* hours since the last success, up to ColdHours
    cadence, \* next_eligible_at - last_success_at, in hours
    ingest,  \* active ingestion jobs of each entity
    current, \* what current_job_id names: the active job, or none or one that has ended
    pass     \* the scheduler's job

refreshVars == <<kindOf, age, cadence, ingest, current, pass>>

Idle == [pc |-> "idle", kind |-> 1, due |-> {}, target |-> {}, active |-> FALSE]

RefreshInit ==
    /\ kindOf \in [Tracked -> 1..Kinds]
    /\ age = [e \in Tracked |-> 0] /\ cadence = [e \in Tracked |-> ColdHours]
    /\ ingest = [e \in Tracked |-> 0] /\ current = [e \in Tracked |-> "ended"] /\ pass = Idle

-----------------------------------------------------------------------------
(* Ingestion jobs. *)

\* River inserts no second job while one with the same arguments is active.
InsertUnique(e) == ingest' = [ingest EXCEPT ![e] = 1]

\* A client asks for the entity: no current_job_id is written.
AskIngestion(e) ==
    /\ ingest[e] = 0 /\ InsertUnique(e)
    /\ UNCHANGED <<kindOf, age, cadence, current, pass>>

EndJob(e) ==
    /\ ingest[e] > 0 /\ ingest' = [ingest EXCEPT ![e] = @ - 1]
    /\ pass' = IF pass.target = {e} THEN [pass EXCEPT !.active = FALSE] ELSE pass
    /\ UNCHANGED <<kindOf, cadence>>

\* The ingestion records its success under its own job id; a recalculation decides later
\* when the entity is due again.
IngestSucceeds(e) ==
    /\ e \notin Refusing
    /\ EndJob(e)
    /\ current' = [current EXCEPT ![e] = "ended"] /\ age' = [age EXCEPT ![e] = 0]

\* Mutated form: a job that was given up still counts as active.
IngestFailsGuarded(e) == EndJob(e) /\ UNCHANGED <<current, age>>

\* The last attempt fails: the entity stays due.
IngestFails(e) == EndJob(e) /\ current' = [current EXCEPT ![e] = "ended"] /\ UNCHANGED age

-----------------------------------------------------------------------------
(* A pass. *)

\* Every hour, or once more after a failure.
StartPass ==
    /\ pass.pc = "idle" /\ pass' = [Idle EXCEPT !.pc = "recalculate"]
    /\ \E hours \in 0..1 : age' = [e \in Tracked |-> IF age[e] < ColdHours THEN age[e] + hours ELSE age[e]]
    /\ UNCHANGED <<kindOf, cadence, ingest, current>>

\* RecalculateRefreshCadence: rows locked by an ingestion keep what they have.
Recalculate ==
    /\ pass.pc = "recalculate" /\ pass' = [pass EXCEPT !.pc = "select"]
    /\ \E locked \in SUBSET {e \in Tracked : ingest[e] > 0} :
          cadence' = [e \in Tracked |-> IF e \in locked THEN cadence[e]
                                        ELSE IF e \in Demanded THEN HotHours ELSE ColdHours]
    /\ UNCHANGED <<kindOf, age, ingest, current>>

Due(k) == {e \in Tracked : kindOf[e] = k /\ age[e] >= cadence[e] /\ current[e] # "active"}

\* The SelectLimit in most demand.
Select ==
    /\ pass.pc = "select"
    /\ \E chosen \in SUBSET Due(pass.kind) :
          /\ \A e \in chosen, o \in Due(pass.kind) \ chosen : o \in Demanded => e \in Demanded
          /\ Cardinality(chosen) = IF Cardinality(Due(pass.kind)) < SelectLimit THEN Cardinality(Due(pass.kind)) ELSE SelectLimit
          /\ pass' = [pass EXCEPT !.pc = "insert", !.due = chosen]
    /\ UNCHANGED <<kindOf, age, cadence, ingest, current>>

InsertRefresh(e) ==
    /\ pass.pc = "insert" /\ e \in pass.due
    /\ InsertUnique(e)
    /\ pass' = [pass EXCEPT !.pc = "record", !.target = {e}, !.active = TRUE]
    /\ UNCHANGED <<kindOf, age, cadence, current>>

RecordWith(writes) ==
    /\ pass.pc = "record" /\ writes
    /\ pass' = [pass EXCEPT !.pc = "insert", !.due = @ \ pass.target, !.target = {}, !.active = FALSE]
    /\ UNCHANGED <<kindOf, age, cadence, ingest>>

\* current_job_id names the job that was inserted or found, whatever became of it.
RecordJob ==
    RecordWith(current' = [e \in Tracked |-> IF e \notin pass.target THEN current[e]
                                             ELSE IF pass.active THEN "active" ELSE "ended"])

\* The statement fails, and nobody hears of it.
RecordFails == RecordWith(UNCHANGED current)

NextKind ==
    /\ pass.pc = "insert" /\ pass.due = {}
    /\ pass' = IF pass.kind = Kinds THEN Idle ELSE [pass EXCEPT !.pc = "select", !.kind = @ + 1]
    /\ UNCHANGED <<kindOf, age, cadence, ingest, current>>

\* The flush, the recalculation, a query or an insert fails: the kinds that follow are
\* not looked at.
PassFails ==
    /\ pass.pc \in {"recalculate", "select"} \/ (pass.pc = "insert" /\ pass.due # {})
    /\ pass' = Idle
    /\ UNCHANGED <<kindOf, age, cadence, ingest, current>>

PassWork == StartPass \/ Recalculate \/ Select \/ RecordJob \/ NextKind

RefreshNext ==
    \/ PassWork \/ RecordFails \/ PassFails
    \/ \E e \in Tracked : InsertRefresh(e) \/ AskIngestion(e) \/ IngestSucceeds(e) \/ IngestFails(e)

RefreshSpec == RefreshInit /\ [][RefreshNext]_refreshVars

\* A pass runs every hour, and jobs are worked on. Passes, the statement that records a job
\* and the ingestions of what a provider does not refuse fail only for a time.
RefreshFairness ==
    /\ WF_refreshVars(PassWork \/ \E e \in Tracked : InsertRefresh(e)) /\ <>[][~PassFails /\ ~RecordFails]_refreshVars
    /\ \A e \in Refusing : WF_refreshVars(IngestFails(e))
    /\ \A e \in Tracked \ Refusing : WF_refreshVars(IngestSucceeds(e)) /\ <>[][~IngestFails(e)]_refreshVars

-----------------------------------------------------------------------------
(* Properties *)

RefreshTypeOK ==
    /\ kindOf \in [Tracked -> 1..Kinds]
    /\ age \in [Tracked -> 0..ColdHours] /\ cadence \in [Tracked -> {HotHours, ColdHours}]
    /\ ingest \in [Tracked -> 0..1] /\ current \in [Tracked -> {"active", "ended"}]
    /\ pass \in [pc : {"idle", "recalculate", "select", "insert", "record"}, kind : 1..Kinds,
                 due : SUBSET Tracked, target : SUBSET Tracked, active : BOOLEAN]

\* Numbers of rows of which fewer fall due in an hour, on average, than the hourly selection
\* of a kind holds: what a provider refuses is due in every hour.
Bearable ==
    {n \in [{"hot", "cold", "refused"} -> 0..Cardinality(Tracked)] :
        n.hot * ColdHours + n.cold * HotHours < (SelectLimit - n.refused) * HotHours * ColdHours}

Rows(k) ==
    LET count(S) == Cardinality({e \in S : kindOf[e] = k})
    IN  [hot |-> count(Demanded \ Refusing), cold |-> count(Tracked \ (Demanded \cup Refusing)), refused |-> count(Refusing)]

\* As long as the selection of its kind can hold what falls due, an entity nobody asks for is
\* refreshed as well, in the end: passes that fail half-way, a guard that was not written
\* or names an ended job, entities in more demand and entities that are refused in every
\* hour only delay it.
EveryEntityIsRefreshed ==
    \A e \in Tracked \ Refusing : Rows(kindOf[e]) \in Bearable /\ age[e] = ColdHours ~> age[e] = 0
==============================================================================
