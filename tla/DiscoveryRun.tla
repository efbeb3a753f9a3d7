----------------------------- MODULE DiscoveryRun -----------------------------
(***************************************************************************)
(* One discovery request from POST to its terminal state: the durable run   *)
(* (internal/discovery/store.go), the handler that creates it               *)
(* (internal/server/discovery.go), the job that works on it                 *)
(* (internal/jobs/discovery.go), the River row behind the job and the       *)
(* credentials handed over in Redis (internal/providercredentials).         *)
(* Every statement and every Redis call is a step.                          *)
(***************************************************************************)
EXTENDS Integers, FiniteSets

CONSTANTS
    Clients,           \* callers that submit the request
    JobIds,            \* River rows
    Refs,              \* credential references
    MaxAttempts,       \* attempts of a job
    Outcomes,          \* what an attempt can end in, of {"result", "error", "snooze"}
    KnownIdentifiers,  \* BOOLEAN: the handler may resolve the request locally
    MaxCrashes,        \* bound on worker crashes
    ExpiryMidway,      \* BOOLEAN: the run may expire while a handler or its job is under way
    Faults,            \* which of {"crash", "error", "credential_ttl"} occur
    None

ASSUME DiscoveryAssumption ==
    /\ MaxAttempts \in Nat \ {0} /\ MaxCrashes \in Nat
    /\ KnownIdentifiers \in BOOLEAN /\ ExpiryMidway \in BOOLEAN
    /\ Outcomes \subseteq {"result", "error", "snooze"}

VARIABLES
    run,     \* discovery_runs row of the request hash
    cache,   \* Redis holds the completed run
    event,   \* state announced by the last staged workflow event, or None
    river,   \* river_job rows
    creds,   \* references present in Redis
    client,  \* local state of each POST handler and of the caller behind it
    work,    \* local state of the worker that runs each job
    crashes  \* worker crashes so far

vars == <<run, cache, event, river, creds, client, work, crashes>>

Waiting == {"available", "retryable"}     \* retryable stands for scheduled too
Active == Waiting \cup {"running"}
Final == {"completed", "discarded", "cancelled"}
Terminal == {"completed", "failed"}

RunRecord == [state : {"absent", "queued", "working"} \cup Terminal, expired : BOOLEAN, job : JobIds \cup {None}]
RiverRecord == [state : {"none"} \cup Active \cup Final, attempt : 0..MaxAttempts, cred : Refs \cup {None}]
ClientRecord == [pc : {"idle", "cache", "ensure", "get", "known", "complete", "store", "insert", "promote", "attach",
                       "poll", "accepted", "answered"},
                 cred : Refs \cup {None}, job : JobIds \cup {None}]
WorkRecord == [pc : {"idle", "load", "get", "start", "work", "complete", "cache", "delete", "fail", "finish"},
               cred : Refs \cup {None}, outcome : {"ok", "error", "snooze", "cancel"}]

IdleClient == [pc |-> "idle", cred |-> None, job |-> None]
IdleWork == [pc |-> "idle", cred |-> None, outcome |-> "ok"]
NoJob == [state |-> "none", attempt |-> 0, cred |-> None]

Init ==
    /\ run = [state |-> "absent", expired |-> FALSE, job |-> None]
    /\ cache = FALSE
    /\ event = None
    /\ river = [j \in JobIds |-> NoJob]
    /\ creds = {}
    /\ client = [c \in Clients |-> IdleClient]
    /\ work = [j \in JobIds |-> IdleWork]
    /\ crashes = 0

To(c, pc) == client' = [client EXCEPT ![c].pc = pc]
Step(j, pc) == work' = [work EXCEPT ![j].pc = pc]
Finish(j, outcome) == work' = [work EXCEPT ![j].pc = "finish", ![j].outcome = outcome]

-----------------------------------------------------------------------------
(* The POST handler *)

Post(c) ==
    /\ client[c].pc = "idle"
    /\ To(c, "cache")
    /\ UNCHANGED <<run, cache, event, river, creds, work, crashes>>

\* EnsureRun: a completed run that Redis holds answers at once.
ReadCache(c) ==
    /\ client[c].pc = "cache"
    /\ To(c, IF cache THEN "answered" ELSE "ensure")
    /\ UNCHANGED <<run, cache, event, river, creds, work, crashes>>

\* Mutated form: only a failed row is started over.
RestartableFailed == run.state \in {"absent", "failed"}

\* EnsureRun: a new row, or a failed or expired one started over.
Restartable == run.state = "absent" \/ run.state = "failed" \/ run.expired

Ensure(c) ==
    /\ client[c].pc = "ensure"
    /\ IF Restartable
       THEN /\ run' = [state |-> "queued", expired |-> FALSE, job |-> None]
            /\ To(c, IF KnownIdentifiers THEN "known" ELSE "store")
       ELSE /\ run' = run
            /\ To(c, "get")
    /\ UNCHANGED <<cache, event, river, creds, work, crashes>>

\* Mutated form: whatever the row of someone else says is cached.
GetExistingCachesAny(c) ==
    /\ client[c].pc = "get"
    /\ cache' = TRUE
    /\ To(c, CASE run.state = "completed" -> "answered"
               [] run.state = "queued" -> "store"
               [] OTHER -> "poll")
    /\ UNCHANGED <<run, event, river, creds, work, crashes>>

\* EnsureRun: the row of someone else; a completed one is cached.
GetExisting(c) ==
    /\ client[c].pc = "get"
    /\ cache' = (cache \/ (run.state = "completed" /\ ~run.expired))
    /\ To(c, CASE run.state = "completed" -> "answered"
               [] run.state = "queued" -> IF KnownIdentifiers THEN "known" ELSE "store"
               [] OTHER -> "poll")
    /\ UNCHANGED <<run, event, river, creds, work, crashes>>

\* ResolveKnownIdentifiers either settles the request or leaves it to a job.
ResolveKnown(c) ==
    /\ client[c].pc = "known"
    /\ \E next \in {"complete", "store"} : To(c, next)
    /\ UNCHANGED <<run, cache, event, river, creds, work, crashes>>

\* Complete: the row and its workflow event in one transaction, then the cache.
CompleteRun ==
    /\ run' = [run EXCEPT !.state = "completed", !.expired = FALSE]
    /\ event' = "completed"

CompleteKnown(c) ==
    /\ client[c].pc = "complete"
    /\ CompleteRun
    /\ cache' = TRUE
    /\ To(c, "answered")
    /\ UNCHANGED <<river, creds, work, crashes>>

Referenced(r) == \/ \E j \in JobIds : river[j].cred = r \/ work[j].cred = r
                 \/ \E c \in Clients : client[c].cred = r

\* storeProviderCredentials: a fresh reference, or none when the caller sent no key.
StoreCredentials(c) ==
    /\ client[c].pc = "store"
    /\ \E r \in {None} \cup {x \in Refs \ creds : ~Referenced(x)} :
          /\ creds' = creds \cup ({r} \ {None})
          /\ client' = [client EXCEPT ![c].pc = "insert", ![c].cred = r]
    /\ UNCHANGED <<run, cache, event, river, work, crashes>>

\* River inserts a row unless an active one has the same request hash.
InsertJob(c) ==
    /\ client[c].pc = "insert"
    /\ \E j \in JobIds :
          /\ IF \E i \in JobIds : river[i].state \in Active
             THEN river[j].state \in Active /\ river' = river
             ELSE /\ river[j].state = "none"
                  /\ river' = [river EXCEPT ![j] = [state |-> "available", attempt |-> 0, cred |-> client[c].cred]]
          /\ client' = [client EXCEPT ![c].pc = "promote", ![c].job = j]
    /\ UNCHANGED <<run, cache, event, creds, work, crashes>>

\* InsertDiscovery: a waiting row takes the credentials, otherwise they are deleted.
Promote(c) ==
    LET j == client[c].job IN
    /\ client[c].pc = "promote"
    /\ IF river[j].state \in Waiting
       THEN /\ river' = [river EXCEPT ![j].cred = IF client[c].cred = None THEN @ ELSE client[c].cred]
            /\ creds' = creds
       ELSE /\ river' = river
            /\ creds' = creds \ {client[c].cred}
    /\ To(c, "attach")
    /\ UNCHANGED <<run, cache, event, work, crashes>>

AttachJob(c) ==
    /\ client[c].pc = "attach"
    /\ run' = IF run.state = "queued" THEN [run EXCEPT !.job = client[c].job] ELSE run
    /\ client' = [client EXCEPT ![c] = [IdleClient EXCEPT !.pc = "poll"]]
    /\ UNCHANGED <<cache, event, river, creds, work, crashes>>

\* The handler waits for a while and then answers 202; the caller goes on polling GET.
Accept(c) ==
    /\ client[c].pc = "poll"
    /\ To(c, "accepted")
    /\ UNCHANGED <<run, cache, event, river, creds, work, crashes>>

SeeTerminal(c) ==
    /\ client[c].pc \in {"poll", "accepted"}
    /\ run.state \in Terminal
    /\ To(c, "answered")
    /\ UNCHANGED <<run, cache, event, river, creds, work, crashes>>

\* A caller that sees queued or working beyond expires_at submits the request again.
Resubmit(c) ==
    /\ client[c].pc = "accepted"
    /\ run.state \notin Terminal /\ run.expired
    /\ To(c, "cache")
    /\ UNCHANGED <<run, cache, event, river, creds, work, crashes>>

\* Callers come and go, also before they have an answer.
Leave(c) ==
    /\ client[c].pc \in {"accepted", "answered"}
    /\ client' = [client EXCEPT ![c] = IdleClient]
    /\ UNCHANGED <<run, cache, event, river, creds, work, crashes>>

\* A failed statement: InsertDiscovery's callers drop the credentials.
PostError(c) ==
    /\ "error" \in Faults
    /\ client[c].pc \in {"ensure", "get", "known", "complete", "store", "insert", "promote", "attach"}
    /\ creds' = creds \ {client[c].cred}
    /\ client' = [client EXCEPT ![c] = IdleClient]
    /\ UNCHANGED <<run, cache, event, river, work, crashes>>

-----------------------------------------------------------------------------
(* The worker: DiscoverySearchWorker.Work around River's job states *)

FetchJob(j) ==
    /\ river[j].state = "available"
    /\ river' = [river EXCEPT ![j].state = "running", ![j].attempt = @ + 1]
    /\ work' = [work EXCEPT ![j] = [pc |-> "load", cred |-> river[j].cred, outcome |-> "ok"]]
    /\ UNCHANGED <<run, cache, event, creds, client, crashes>>

\* A reference that is gone cancels the job, before the deferred Fail exists.
LoadCredentials(j) ==
    /\ work[j].pc = "load"
    /\ IF work[j].cred = None \/ work[j].cred \in creds THEN Step(j, "get") ELSE Finish(j, "cancel")
    /\ UNCHANGED <<run, cache, event, river, creds, client, crashes>>

\* Mutated form: a run that is completed already is worked on again.
GetRunAgain(j) ==
    /\ work[j].pc = "get"
    /\ Step(j, "start")
    /\ UNCHANGED <<run, cache, event, river, creds, client, crashes>>

GetRun(j) ==
    /\ work[j].pc = "get"
    /\ Step(j, IF run.state = "completed" THEN "delete" ELSE "start")
    /\ UNCHANGED <<run, cache, event, river, creds, client, crashes>>

StartRun(j) ==
    /\ work[j].pc = "start"
    /\ run' = [run EXCEPT !.state = "working"]
    /\ Step(j, "work")
    /\ UNCHANGED <<cache, event, river, creds, client, crashes>>

\* shouldFailDiscoveryRun: a last attempt that ends in an error.
LastAttempt(j) == river[j].attempt >= MaxAttempts

Search(j) ==
    /\ work[j].pc = "work"
    /\ \E o \in Outcomes :
          CASE o = "result" -> Step(j, "complete")
            [] o = "snooze" -> Finish(j, "snooze")
            [] OTHER -> IF LastAttempt(j) THEN Step(j, "fail") ELSE Finish(j, "error")
    /\ UNCHANGED <<run, cache, event, river, creds, client, crashes>>

CompleteJob(j) ==
    /\ work[j].pc = "complete"
    /\ CompleteRun
    /\ Step(j, "cache")
    /\ UNCHANGED <<cache, river, creds, client, crashes>>

\* Complete: what the row says now is cached; only a completed run is used from there.
CacheResult(j) ==
    /\ work[j].pc = "cache"
    /\ cache' = (cache \/ (run.state = "completed" /\ ~run.expired))
    /\ Step(j, "delete")
    /\ UNCHANGED <<run, event, river, creds, client, crashes>>

DeleteCredentials(j) ==
    /\ work[j].pc = "delete"
    /\ creds' = creds \ {work[j].cred}
    /\ Finish(j, "ok")
    /\ UNCHANGED <<run, cache, event, river, client, crashes>>

\* Mutated form: the failed state is stored without its workflow event.
FailRunSilently(j) ==
    /\ work[j].pc = "fail"
    /\ run' = [run EXCEPT !.state = "failed", !.expired = FALSE]
    /\ event' = event
    /\ Finish(j, "error")
    /\ UNCHANGED <<cache, river, creds, client, crashes>>

\* Fail, in the deferred function: the row and its event in one transaction.
FailRun(j) ==
    /\ work[j].pc = "fail"
    /\ run' = [run EXCEPT !.state = "failed", !.expired = FALSE]
    /\ event' = "failed"
    /\ Finish(j, "error")
    /\ UNCHANGED <<cache, river, creds, client, crashes>>

\* A failed transaction: Complete returns the error, Fail gives up silently.
WorkError(j) ==
    /\ "error" \in Faults
    /\ work[j].pc \in {"start", "complete", "fail"}
    /\ IF work[j].pc = "complete" /\ LastAttempt(j) THEN Step(j, "fail") ELSE Finish(j, "error")
    /\ UNCHANGED <<run, cache, event, river, creds, client, crashes>>

\* River's completer stores the outcome after Work has returned; a snoozed job gets
\* its attempt back.
FinishJob(j) ==
    /\ work[j].pc = "finish"
    /\ river' = [river EXCEPT
          ![j].state = CASE work[j].outcome = "ok" -> "completed"
                         [] work[j].outcome = "cancel" -> "cancelled"
                         [] work[j].outcome = "error" /\ LastAttempt(j) -> "discarded"
                         [] OTHER -> "retryable",
          ![j].attempt = IF work[j].outcome = "snooze" THEN @ - 1 ELSE @]
    /\ work' = [work EXCEPT ![j] = IdleWork]
    /\ UNCHANGED <<run, cache, event, creds, client, crashes>>

RetryDue(j) ==
    /\ river[j].state = "retryable"
    /\ river' = [river EXCEPT ![j].state = "available"]
    /\ UNCHANGED <<run, cache, event, creds, client, work, crashes>>

Crash(j) ==
    /\ "crash" \in Faults
    /\ work[j].pc # "idle" /\ crashes < MaxCrashes /\ crashes' = crashes + 1
    /\ work' = [work EXCEPT ![j] = IdleWork]
    /\ UNCHANGED <<run, cache, event, river, creds, client>>

\* River's rescuer finds a running row whose worker is gone.
Rescue(j) ==
    /\ river[j].state = "running" /\ work[j].pc = "idle"
    /\ river' = [river EXCEPT ![j].state = IF LastAttempt(j) THEN "discarded" ELSE "retryable"]
    /\ UNCHANGED <<run, cache, event, creds, client, work, crashes>>

\* River's cleaner removes a final row long after its callers are gone.
CleanJob(j) ==
    /\ river[j].state \in Final
    /\ \A c \in Clients : client[c].job # j
    /\ river' = [river EXCEPT ![j] = NoJob]
    /\ run' = [run EXCEPT !.job = IF @ = j THEN None ELSE @]
    /\ UNCHANGED <<cache, event, creds, client, work, crashes>>

-----------------------------------------------------------------------------
(* Time *)

\* expires_at of the row passes; Redis drops the cached copy at the same time.
ExpireRun ==
    /\ run.state # "absent" /\ ~run.expired
    /\ \/ ExpiryMidway
       \/ /\ \A j \in JobIds : river[j].state \notin Active
          /\ \A c \in Clients : client[c].pc \in {"idle", "poll", "accepted", "answered"}
    /\ run' = [run EXCEPT !.expired = TRUE]
    /\ cache' = FALSE
    /\ UNCHANGED <<event, river, creds, client, work, crashes>>

ExpireCredentials ==
    /\ "credential_ttl" \in Faults
    /\ \E r \in creds : creds' = creds \ {r}
    /\ UNCHANGED <<run, cache, event, river, client, work, crashes>>

-----------------------------------------------------------------------------
Handler(c) ==
    \/ ReadCache(c) \/ Ensure(c) \/ GetExisting(c) \/ StoreCredentials(c)
    \/ InsertJob(c) \/ Promote(c) \/ AttachJob(c) \/ Accept(c)

Known(c) == ResolveKnown(c) \/ CompleteKnown(c)

Attempt(j) ==
    \/ LoadCredentials(j) \/ GetRun(j) \/ StartRun(j) \/ Search(j) \/ CompleteJob(j)
    \/ CacheResult(j) \/ DeleteCredentials(j) \/ FailRun(j) \/ FinishJob(j)

Queue(j) == FetchJob(j) \/ RetryDue(j) \/ Rescue(j) \/ CleanJob(j)

\* What happens as long as no identifier of the request is known: jobs settle it.
JobNext ==
    \/ \E c \in Clients : Post(c) \/ Handler(c) \/ SeeTerminal(c) \/ Resubmit(c) \/ Leave(c) \/ PostError(c)
    \/ \E j \in JobIds : Attempt(j) \/ Queue(j) \/ WorkError(j) \/ Crash(j)
    \/ ExpireRun \/ ExpireCredentials

Next == JobNext \/ \E c \in Clients : Known(c)

JobSpec == Init /\ [][JobNext]_vars
Spec == Init /\ [][Next]_vars

(* Handlers, workers, River's queue maintenance and time go on; a caller polls while *)
(* there is something to see and submits again when the run expires. A provider that *)
(* makes attempts snooze lets one through in the end. A run expires at a fixed time: *)
(* that other callers come and go does not put it off.                               *)
Fairness ==
    /\ \A c \in Clients : WF_vars(Handler(c) \/ Known(c)) /\ WF_vars(SeeTerminal(c) \/ Resubmit(c))
    /\ \A j \in JobIds : WF_vars(Attempt(j) \/ Queue(j)) /\ SF_vars(Search(j) /\ work'[j].outcome # "snooze")
    /\ SF_vars(ExpireRun)

FairSpec == Spec /\ Fairness

-----------------------------------------------------------------------------
(* Properties *)

TypeOK ==
    /\ run \in RunRecord /\ cache \in BOOLEAN /\ event \in Terminal \cup {None}
    /\ river \in [JobIds -> RiverRecord] /\ creds \subseteq Refs
    /\ client \in [Clients -> ClientRecord] /\ work \in [JobIds -> WorkRecord]
    /\ crashes \in 0..MaxCrashes

\* A terminal run has been announced by a workflow event of the same state, whichever
\* process ended it and whatever died in between.
TerminalIsAnnounced == run.state \in Terminal => event = run.state

\* A run that a job completed stays completed until it expires: retries and rescued jobs
\* of an attempt that had completed it leave it alone.
CompletedStays == [][run.state = "completed" /\ ~run.expired => run'.state = "completed"]_vars

\* Redis never answers with a result that the row no longer has.
CacheIsTrue == cache => run.state = "completed"

\* A run that has ended starts over, perhaps before everybody has seen how it ended.
StartsOver(c) == Ensure(c) /\ run.state \in Terminal /\ run' # run

\* A caller that polls, and submits again when the run expires, gets a terminal answer,
\* although workers die at their last attempt and leave the run queued or working. Callers
\* that submit the same request meanwhile start a failed or expired run over: that delays the
\* answer, and only if it happened for ever could a caller miss the end each time.
EventuallyAnswered ==
    <>[][\A c \in Clients : ~StartsOver(c)]_vars
        => \A c \in Clients : client[c].pc = "cache" ~> client[c].pc \in {"answered", "idle"}

\* 202 is given when work continues in River: once the handlers have answered, a run that
\* is queued or working has a job.
AcceptedIsBacked ==
    (/\ \E c \in Clients : client[c].pc = "accepted"
     /\ \A c \in Clients : client[c].pc \in {"idle", "accepted", "answered"}
     /\ run.state \in {"queued", "working"})
        => \E j \in JobIds : river[j].state \in Active
==============================================================================
