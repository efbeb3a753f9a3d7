--------------------------- MODULE FingerprintRun ---------------------------
(***************************************************************************)
(* Fingerprint match runs (fingerprintmatch/service.go, jobs/fingerprint-   *)
(* _match.go, the handler in server/releases.go, jobs/retention.go): a      *)
(* request joins or creates a run, stores its credentials and inserts a     *)
(* job; the job matches and completes the run, which erases the             *)
(* fingerprint; runs are deleted an hour after they were last asked for.    *)
(* All requests here are for one fingerprint.                               *)
(***************************************************************************)
EXTENDS Naturals, FiniteSets

CONSTANTS
    Runs,      \* identities of runs
    Requesters, \* requests for a match
    Keyed,     \* those that bring a provider key
    MatchAttempts \* attempts of a job

ASSUME FingerprintAssumption == Keyed \subseteq Requesters /\ MatchAttempts \in Nat \ {0}

VARIABLES
    matchRun,       \* fingerprint_match_runs
    matchJob,  \* the job of each run that is active
    request,   \* local state of each request
    held       \* requests whose credentials are in Redis

fingerprintVars == <<matchRun, matchJob, request, held>>

Unborn == [state |-> "unborn", fingerprint |-> FALSE, expired |-> FALSE, result |-> "none"]
NoMatch == [pc |-> "none", by |-> {}, attempt |-> 0, fingerprint |-> FALSE]
ActiveRuns == {r \in Runs : matchRun[r].state \in {"queued", "working"}}
Row(r, state) == [matchRun[r] EXCEPT !.state = state]

FingerprintInit ==
    /\ matchRun = [r \in Runs |-> Unborn] /\ matchJob = [r \in Runs |-> NoMatch]
    /\ request = [q \in Requesters |-> [pc |-> "new", run |-> {}]] /\ held = {}

-----------------------------------------------------------------------------
(* A request. *)

\* One run is active for a fingerprint: it is joined, and lives another hour.
EnsureRun(q) ==
    /\ request[q].pc = "new"
    /\ \E r \in IF ActiveRuns # {} THEN ActiveRuns ELSE {x \in Runs : matchRun[x].state = "unborn"} :
          /\ matchRun' = [matchRun EXCEPT ![r] = IF r \in ActiveRuns THEN [@ EXCEPT !.expired = FALSE]
                                       ELSE [Unborn EXCEPT !.state = "queued", !.fingerprint = TRUE]]
          /\ request' = [request EXCEPT ![q] = [pc |-> "ensured", run |-> {r}]]
    /\ UNCHANGED <<matchJob, held>>

\* Redis holds the credentials for two hours.
StoreMatchKey(q) ==
    /\ request[q].pc = "ensured"
    /\ held' = IF q \in Keyed THEN held \cup {q} ELSE held
    /\ request' = [request EXCEPT ![q].pc = "stored"]
    /\ UNCHANGED <<matchRun, matchJob>>

\* River inserts no second job while one of the run is active. The number of the job is
\* only shown.
InsertFingerprintMatch(q) ==
    /\ request[q].pc = "stored"
    /\ matchJob' = [r \in Runs |-> IF r \in request[q].run /\ matchJob[r].pc = "none"
                                   THEN [NoMatch EXCEPT !.pc = "available", !.by = {q}] ELSE matchJob[r]]
    /\ request' = [request EXCEPT ![q] = [pc |-> "done", run |-> {}]]
    /\ UNCHANGED <<matchRun, held>>

\* A statement of the request fails, or the process dies.
RequestFails(q) ==
    /\ request[q].pc \in {"ensured", "stored"}
    /\ request' = [request EXCEPT ![q] = [pc |-> "done", run |-> {}]]
    /\ UNCHANGED <<matchRun, matchJob, held>>

\* Two hours are over.
CredentialsExpire ==
    /\ held # {} /\ held' = {}
    /\ UNCHANGED <<matchRun, matchJob, request>>

-----------------------------------------------------------------------------
(* The job. *)

MatchStep(r, from, job) == matchJob[r].pc = from /\ matchJob' = [matchJob EXCEPT ![r] = job]

\* Tried again, or discarded after the last attempt.
Retried(r) == IF matchJob[r].attempt + 1 < MatchAttempts
              THEN [matchJob[r] EXCEPT !.pc = "available", !.attempt = @ + 1, !.fingerprint = FALSE] ELSE NoMatch

\* Load: a job whose credentials are gone is cancelled, and its run stays as it is.
CancelWithoutCredentials(r) ==
    /\ matchJob[r].by \cap Keyed # {} /\ matchJob[r].by \cap held = {}
    /\ MatchStep(r, "available", NoMatch)
    /\ UNCHANGED <<matchRun, request, held>>

\* The row is taken whatever its state, with what is left of the fingerprint.
StartMatch(r) ==
    /\ matchJob[r].by \subseteq held \cup (Requesters \ Keyed)
    /\ matchRun[r].state \notin {"unborn", "deleted"} /\ ActiveRuns \subseteq {r}
    /\ MatchStep(r, "available", [matchJob[r] EXCEPT !.pc = "matching", !.fingerprint = matchRun[r].fingerprint])
    /\ matchRun' = [matchRun EXCEPT ![r] = Row(r, "working")]
    /\ UNCHANGED <<request, held>>

\* The run is gone, or another one has become active (the unique index).
StartFails(r) ==
    /\ matchJob[r].by \subseteq held \cup (Requesters \ Keyed)
    /\ matchRun[r].state \in {"unborn", "deleted"} \/ ~(ActiveRuns \subseteq {r})
    /\ MatchStep(r, "available", Retried(r))
    /\ UNCHANGED <<matchRun, request, held>>

\* The result is stored and the fingerprint erased; without one nothing was compared.
CompleteMatch(r) ==
    /\ MatchStep(r, "matching", [matchJob[r] EXCEPT !.pc = "finishing"])
    /\ matchRun' = IF matchRun[r].state = "deleted" THEN matchRun
              ELSE [matchRun EXCEPT ![r] = [Row(r, "completed") EXCEPT !.fingerprint = FALSE,
                                           !.result = IF matchJob[r].fingerprint THEN "matched" ELSE "empty"]]
    /\ UNCHANGED <<request, held>>

\* A statement fails: the row says so if it still can, and the job is tried again.
MatchFails(r) ==
    /\ MatchStep(r, "matching", Retried(r))
    /\ matchRun' \in {matchRun, IF matchRun[r].state = "deleted" THEN matchRun ELSE [matchRun EXCEPT ![r] = Row(r, "failed")]}
    /\ UNCHANGED <<request, held>>

\* The credentials are deleted, and River marks the job completed.
JobCompletes(r) ==
    /\ MatchStep(r, "finishing", NoMatch)
    /\ held' = held \ matchJob[r].by
    /\ UNCHANGED <<matchRun, request>>

\* The process dies; the job is rescued.
MatchCrash(r) ==
    /\ matchJob[r].pc \in {"matching", "finishing"}
    /\ matchJob' = [matchJob EXCEPT ![r] = Retried(r)]
    /\ held' \in {held, held \ matchJob[r].by}
    /\ UNCHANGED <<matchRun, request>>

-----------------------------------------------------------------------------
(* Retention. *)

HourPasses(r) ==
    /\ matchRun[r].state \notin {"unborn", "deleted"} /\ ~matchRun[r].expired
    /\ matchRun' = [matchRun EXCEPT ![r].expired = TRUE]
    /\ UNCHANGED <<matchJob, request, held>>

\* Mutated form: only runs that have ended are deleted.
DeleteEnded ==
    /\ matchRun' = [r \in Runs |-> IF matchRun[r].expired /\ r \notin ActiveRuns THEN [Unborn EXCEPT !.state = "deleted"] ELSE matchRun[r]]
    /\ UNCHANGED <<matchJob, request, held>>

\* Every hour.
DeleteExpired ==
    /\ matchRun' = [r \in Runs |-> IF matchRun[r].expired THEN [Unborn EXCEPT !.state = "deleted"] ELSE matchRun[r]]
    /\ UNCHANGED <<matchJob, request, held>>

MatchWork(r) ==
    CancelWithoutCredentials(r) \/ StartMatch(r) \/ StartFails(r) \/ CompleteMatch(r) \/ MatchFails(r) \/ JobCompletes(r)
RequestWork(q) == EnsureRun(q) \/ StoreMatchKey(q) \/ InsertFingerprintMatch(q) \/ RequestFails(q)

FingerprintNext ==
    \/ CredentialsExpire \/ DeleteExpired
    \/ \E q \in Requesters : RequestWork(q)
    \/ \E r \in Runs : MatchWork(r) \/ MatchCrash(r) \/ HourPasses(r)

FingerprintSpec == FingerprintInit /\ [][FingerprintNext]_fingerprintVars

\* The retention job runs every hour.
FingerprintFairness ==
    /\ WF_fingerprintVars(DeleteExpired)
    /\ \A r \in Runs : WF_fingerprintVars(HourPasses(r))

-----------------------------------------------------------------------------
(* Properties *)

FingerprintTypeOK ==
    /\ matchRun \in [Runs -> [state : {"unborn", "queued", "working", "completed", "failed", "deleted"},
                         fingerprint : BOOLEAN, expired : BOOLEAN, result : {"none", "matched", "empty"}]]
    /\ matchJob \in [Runs -> [pc : {"none", "available", "matching", "finishing"}, by : SUBSET Requesters,
                              attempt : 0..(MatchAttempts - 1), fingerprint : BOOLEAN]]
    /\ request \in [Requesters -> [pc : {"new", "ensured", "stored", "done"}, run : SUBSET Runs]]
    /\ held \subseteq Keyed

\* Whoever polls a run hears of its end or is told that it is gone: also when its job was
\* never inserted, was cancelled without credentials, was discarded before it could say
\* so, or took up a run that had already ended.
EveryRunEnds == \A r \in Runs : r \in ActiveRuns ~> r \notin ActiveRuns
==============================================================================
