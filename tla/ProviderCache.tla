---------------------------- MODULE ProviderCache ----------------------------
(***************************************************************************)
(* Exact-response reuse for one provider request (internal/providercache,   *)
(* internal/ingest) over three stores: Redis (pointer, hot bodies, fetch    *)
(* lock), Postgres (source_blobs, provider_observations) and S3 (immutable  *)
(* objects), together with the retention sweep (internal/jobs/retention.go).*)
(* Workers run Resolve concurrently; every store call is a step.            *)
(***************************************************************************)
EXTENDS Integers, FiniteSets

CONSTANTS
    Workers,     \* concurrent Resolve calls for the request
    Bodies,      \* response bodies, each identified with its SHA-256 checksum
    SmallBodies, \* bodies of at most MaxRedisBodyBytes, kept hot in Redis
    Prefixes,    \* object prefixes of retention policies, past and present
    Prefix,      \* Prefix[w]: the prefix of the policy the worker runs with
    ReuseDuration, \* how long a response may be reused
    Retention,   \* RetentionPolicy.Duration
    Grace,       \* lifecycleGrace of the sweep
    MaxTime,     \* bound on the clock
    MaxFetches,  \* bound on upstream fetches
    CacheFaults, \* which of {"corrupt", "lifecycle", "crash", "lockexpiry", "evict", "error"} occur
    MaxFaults,   \* bound on how many of these happen, returned errors not counted
    OldRows,     \* BOOLEAN: start from a row left by an earlier deployment
    Nothing      \* absence: no row, no pointer, no holder

Keys == Prefixes \X Bodies
Never == MaxTime + Retention + 1   \* expires_at IS NULL

BlobRow == [key : Keys, expires_at : 0..Never, deleted : BOOLEAN, integrity : {"verified", "corrupt"}]

\* New() refuses a policy whose reuse outlives the blob retention.
ASSUME ProviderCacheAssumption ==
    /\ ReuseDuration \in Nat \ {0} /\ Retention \in Nat /\ ReuseDuration <= Retention
    /\ Grace \in Nat /\ MaxTime \in Nat /\ MaxFetches \in Nat /\ MaxFaults \in Nat
    /\ Prefix \in [Workers -> Prefixes] /\ SmallBodies \subseteq Bodies
    /\ Nothing \notin Workers \cup Bodies /\ Nothing \notin BlobRow /\ OldRows \in BOOLEAN

VARIABLES
    now,           \* wall clock
    objects,       \* S3: objects[key] is absent, good or corrupt
    blobs,         \* source_blobs by checksum, or Nothing
    observations,  \* provider_observations of the request
    pointer,       \* Redis: the request's pointer, or Nothing
    hot,           \* Redis: hot bodies by checksum
    lock,          \* Redis: the worker whose token holds the fetch lock, or Nothing
    worker,        \* local state of each Resolve call
    faults,        \* faults so far
    sweep          \* rows the retention sweep has selected, its current one first

redis == <<pointer, hot, lock>>
cacheVars == <<now, objects, blobs, observations, redis, worker, faults, sweep>>

Pointer == [checksum : Bodies, key : Keys, reusable_until : Nat]
Observation == [checksum : Bodies, observed_at : Nat, reusable_until : Nat]

IdleWorker ==
    [pc |-> "idle", phase |-> "first", p |-> Nothing, observed_at |-> 0, previous |-> Nothing,
     lost |-> FALSE, result |-> Nothing]

CacheInit ==
    /\ now = 0 /\ faults = 0
    /\ observations = {}
    /\ pointer = Nothing
    /\ hot = [b \in Bodies |-> "absent"]
    /\ lock = Nothing
    /\ worker = [w \in Workers |-> IdleWorker]
    /\ sweep = {}
    /\ \/ blobs = [b \in Bodies |-> Nothing] /\ objects = [k \in Keys |-> "absent"]
       \/ /\ OldRows
          /\ \E b \in Bodies, x \in Prefixes, expiry \in {1, Never} :
                /\ blobs = [c \in Bodies |-> IF c # b THEN Nothing ELSE
                              [key |-> <<x, b>>, expires_at |-> expiry, deleted |-> FALSE,
                               integrity |-> "verified"]]
                /\ objects = [k \in Keys |-> IF k = <<x, b>> THEN "good" ELSE "absent"]

\* A row lookups may use.
Live(b) == blobs[b] # Nothing /\ ~blobs[b].deleted /\ blobs[b].expires_at > now

Set(w, r) == worker' = [worker EXCEPT ![w] = r]
Goto(w, pc) == Set(w, [worker[w] EXCEPT !.pc = pc])

\* How a lookup that found nothing continues, by the place Resolve called it from.
AfterMiss(phase) == CASE phase = "first" -> "acquire" [] phase = "waiting" -> "wait" [] OTHER -> "fetch"
\* The call returns, through the deferred unlock when it holds the lock.
Return(w, result) ==
    Set(w, IF worker[w].phase = "locked" THEN [worker[w] EXCEPT !.pc = "unlock", !.result = result, !.p = Nothing]
           ELSE [IdleWorker EXCEPT !.pc = "done", !.result = result])

\* Calls whose error the code discards: whether one succeeds, and the faults then.
Attempt == {TRUE} \cup (IF "error" \in CacheFaults /\ faults < MaxFaults THEN {FALSE} ELSE {})
Charge(ok) == faults' = IF ok THEN faults ELSE faults + 1

Miss(w) == Set(w, [worker[w] EXCEPT !.pc = AfterMiss(worker[w].phase), !.p = Nothing])

-----------------------------------------------------------------------------
(* Resolve *)

StartResolve(w) ==
    /\ worker[w].pc = "idle"
    /\ Goto(w, "lookup")
    /\ UNCHANGED <<now, objects, blobs, observations, redis, sweep, faults>>

\* lookup: the Redis pointer first, an expired one is deleted.
LookupRedis(w) ==
    /\ worker[w].pc = "lookup"
    /\ IF pointer # Nothing /\ now < pointer.reusable_until
       THEN /\ Set(w, [worker[w] EXCEPT !.pc = "materialize", !.p = pointer])
            /\ UNCHANGED <<pointer, faults>>
       ELSE /\ Goto(w, "query")
            /\ \E ok \in Attempt : pointer' = (IF ok THEN Nothing ELSE pointer) /\ Charge(ok)
    /\ UNCHANGED <<now, objects, blobs, observations, hot, lock, sweep>>

Reusable == {o \in observations : o.reusable_until > now /\ Live(o.checksum)}

\* lookup: the newest durable observation that is reusable and whose blob is live.
LookupDurable(w) ==
    /\ worker[w].pc = "query"
    /\ IF Reusable = {} THEN Miss(w)
       ELSE \E o \in Reusable :
              /\ \A q \in Reusable : q.observed_at <= o.observed_at
              /\ Set(w, [worker[w] EXCEPT !.pc = "materialize",
                           !.p = [checksum |-> o.checksum, key |-> blobs[o.checksum].key,
                                  reusable_until |-> o.reusable_until]])
    /\ UNCHANGED <<now, objects, blobs, observations, redis, sweep, faults>>

\* materialize: a hot body is verified before it is served; a bad one is deleted.
ReadHotBody(w) ==
    LET b == worker[w].p.checksum IN
    /\ worker[w].pc = "materialize"
    /\ IF hot[b] = "bad"
       THEN \E ok \in Attempt : hot' = [hot EXCEPT ![b] = IF ok THEN "absent" ELSE @] /\ Charge(ok) /\ worker' = worker
       ELSE Goto(w, IF hot[b] = "good" THEN "remember" ELSE "get") /\ UNCHANGED <<hot, faults>>
    /\ UNCHANGED <<now, objects, blobs, observations, pointer, lock, sweep>>

ReadObject(w) ==
    /\ worker[w].pc = "get"
    /\ Goto(w, CASE objects[worker[w].p.key] = "good" -> "remember"
                 [] objects[worker[w].p.key] = "corrupt" -> "delete_corrupt"
                 [] OTHER -> "requery")
    /\ UNCHANGED <<now, objects, blobs, observations, redis, sweep, faults>>

\* The object may have moved since the pointer was written.
RequeryKey(w) ==
    LET b == worker[w].p.checksum IN
    /\ worker[w].pc = "requery"
    /\ IF Live(b) /\ blobs[b].key # worker[w].p.key
       THEN /\ Set(w, [worker[w] EXCEPT !.pc = "materialize", !.p.key = blobs[b].key])
            /\ UNCHANGED <<pointer, faults>>
       ELSE /\ Goto(w, "mark_missing")
            /\ \E ok \in Attempt : pointer' = (IF ok THEN Nothing ELSE pointer) /\ Charge(ok)
    /\ UNCHANGED <<now, objects, blobs, observations, hot, lock, sweep>>

MarkMissing(w) ==
    /\ worker[w].pc = "mark_missing"
    /\ \E ok \in Attempt :
          /\ blobs' = [blobs EXCEPT ![worker[w].p.checksum] =
                          IF @ = Nothing \/ ~ok THEN @ ELSE [@ EXCEPT !.deleted = TRUE]]
          /\ Charge(ok)
    /\ Miss(w)
    /\ UNCHANGED <<now, objects, observations, redis, sweep>>

\* invalidateCorrupt: the object, then the row, then Redis.
DeleteCorrupt(w) ==
    /\ worker[w].pc = "delete_corrupt"
    /\ objects' = [objects EXCEPT ![worker[w].p.key] = "absent"]
    /\ Goto(w, "mark_corrupt")
    /\ UNCHANGED <<now, blobs, observations, redis, sweep, faults>>

MarkCorrupt(w) ==
    /\ worker[w].pc = "mark_corrupt"
    /\ blobs' = [blobs EXCEPT ![worker[w].p.checksum] =
                    IF @ = Nothing THEN @ ELSE [@ EXCEPT !.deleted = TRUE, !.integrity = "corrupt"]]
    /\ Goto(w, "evict")
    /\ UNCHANGED <<now, objects, observations, redis, sweep, faults>>

EvictCorrupt(w) ==
    /\ worker[w].pc = "evict"
    /\ pointer' = Nothing
    /\ hot' = [hot EXCEPT ![worker[w].p.checksum] = "absent"]
    /\ Miss(w)
    /\ UNCHANGED <<now, objects, blobs, observations, lock, sweep, faults>>

\* Mutated form: the lock holder fetches without looking up again.
AcquireLockNoSecondLookup(w) ==
    /\ worker[w].pc = "acquire"
    /\ IF lock = Nothing
       THEN lock' = w /\ Set(w, [worker[w] EXCEPT !.pc = "fetch", !.phase = "locked"])
       ELSE lock' = lock /\ Set(w, [worker[w] EXCEPT !.pc = "wait", !.phase = "waiting"])
    /\ UNCHANGED <<now, objects, blobs, observations, pointer, hot, sweep, faults>>

\* SetNX: the holder looks up once more, the others poll.
AcquireLock(w) ==
    /\ worker[w].pc = "acquire"
    /\ IF lock = Nothing
       THEN /\ lock' = w
            /\ Set(w, [worker[w] EXCEPT !.pc = "lookup", !.phase = "locked"])
       ELSE /\ lock' = lock
            /\ Set(w, [worker[w] EXCEPT !.pc = "wait", !.phase = "waiting"])
    /\ UNCHANGED <<now, objects, blobs, observations, pointer, hot, sweep, faults>>

Poll(w) ==
    /\ worker[w].pc = "wait"
    /\ Goto(w, "lookup")
    /\ UNCHANGED <<now, objects, blobs, observations, redis, sweep, faults>>

\* Mutated form: a waiter keeps polling while the lock is held.
GiveUpWhenFree(w) ==
    /\ worker[w].pc = "wait" /\ lock = Nothing
    /\ Return(w, "in_progress")
    /\ UNCHANGED <<now, objects, blobs, observations, redis, sweep, faults>>

\* The 10 second deadline: ErrFetchInProgress.
GiveUp(w) ==
    /\ worker[w].pc = "wait"
    /\ Return(w, "in_progress")
    /\ UNCHANGED <<now, objects, blobs, observations, redis, sweep, faults>>

\* The upstream request. The policy gives the object key and the reuse window: zero
\* for a status that is never reused.
Fetch(w) ==
    /\ worker[w].pc = "fetch"
    /\ Cardinality(observations) < MaxFetches
    /\ \E b \in Bodies, duration \in {0, ReuseDuration} :
         Set(w, [worker[w] EXCEPT !.pc = "previous", !.observed_at = now,
                   !.p = [checksum |-> b, key |-> <<Prefix[w], b>>, reusable_until |-> now + duration]])
    /\ UNCHANGED <<now, objects, blobs, observations, redis, sweep, faults>>

-----------------------------------------------------------------------------
(* RecordObservation *)

\* A blob kept for ever keeps its key; an error here reads as no row.
ReadPrevious(w) ==
    /\ worker[w].pc = "previous"
    /\ \E ok \in Attempt :
         LET row == IF ok THEN blobs[worker[w].p.checksum] ELSE Nothing IN
         /\ Set(w, [worker[w] EXCEPT !.pc = "put",
                      !.previous = IF row = Nothing THEN Nothing ELSE row.key,
                      !.p.key = IF row # Nothing /\ row.expires_at = Never THEN row.key ELSE @])
         /\ Charge(ok)
    /\ UNCHANGED <<now, objects, blobs, observations, redis, sweep>>

\* Mutated form: the pointer is published before the transaction commits.
PutImmutablePublishes(w) ==
    /\ worker[w].pc = "put"
    /\ objects' = [objects EXCEPT ![worker[w].p.key] = IF @ = "absent" THEN "good" ELSE @]
    /\ pointer' = worker[w].p
    /\ Goto(w, "commit")
    /\ UNCHANGED <<now, blobs, observations, hot, lock, sweep, faults>>

\* PutImmutable: an existing object is taken for the same bytes.
PutImmutable(w) ==
    /\ worker[w].pc = "put"
    /\ objects' = [objects EXCEPT ![worker[w].p.key] = IF @ = "absent" THEN "good" ELSE @]
    /\ Goto(w, "commit")
    /\ UNCHANGED <<now, blobs, observations, redis, sweep, faults>>

Earlier(a, b) == IF a < b THEN a ELSE b

\* Mutated form: the retention runs from the old expiry.
NextExpiryAdds(b, expires) == IF blobs[b] = Nothing THEN expires ELSE blobs[b].expires_at + expires

\* Mutated form: a re-recorded blob takes the new expiry.
NextExpiryExcluded(b, expires) ==
    IF blobs[b] # Nothing /\ blobs[b].expires_at = Never THEN Never ELSE expires

\* expires_at of the upsert: NULL stays NULL, otherwise LEAST(old, new).
NextExpiry(b, expires) ==
    IF blobs[b] = Nothing THEN expires
    ELSE IF blobs[b].expires_at = Never THEN Never ELSE Earlier(blobs[b].expires_at, expires)

CommitObservation(w) ==
    LET p == worker[w].p IN
    /\ worker[w].pc = "commit"
    /\ blobs' = [blobs EXCEPT ![p.checksum] =
                    [key |-> p.key, deleted |-> FALSE, integrity |-> "verified",
                     expires_at |-> NextExpiry(p.checksum, worker[w].observed_at + Retention)]]
    /\ observations' = observations \cup
          {[checksum |-> p.checksum, observed_at |-> worker[w].observed_at,
            reusable_until |-> p.reusable_until]}
    /\ Goto(w, "supersede")
    /\ UNCHANGED <<now, objects, redis, sweep, faults>>

DeleteSuperseded(w) ==
    LET old == worker[w].previous IN
    /\ worker[w].pc = "supersede"
    /\ objects' = IF old # Nothing /\ old # worker[w].p.key THEN [objects EXCEPT ![old] = "absent"] ELSE objects
    /\ Goto(w, "remember")
    /\ UNCHANGED <<now, blobs, observations, redis, sweep, faults>>

\* remember: pointer and body in one pipeline, for the rest of the reuse window.
Remember(w) ==
    LET p == worker[w].p IN
    /\ worker[w].pc = "remember"
    /\ IF now < p.reusable_until
       THEN pointer' = p /\ hot' = [hot EXCEPT ![p.checksum] = IF p.checksum \in SmallBodies THEN "good" ELSE @]
       ELSE UNCHANGED <<pointer, hot>>
    /\ Return(w, p.checksum)
    /\ UNCHANGED <<now, objects, blobs, observations, lock, sweep, faults>>

\* Mutated form: the lock is deleted without comparing its token.
UnlockPlain(w) ==
    /\ worker[w].pc = "unlock"
    /\ lock' = Nothing
    /\ Goto(w, "done")
    /\ UNCHANGED <<now, objects, blobs, observations, pointer, hot, sweep, faults>>

\* The deferred compare-and-delete.
Unlock(w) ==
    /\ worker[w].pc = "unlock"
    /\ \E ok \in Attempt : lock' = (IF ok /\ lock = w THEN Nothing ELSE lock) /\ Charge(ok)
    /\ Set(w, [IdleWorker EXCEPT !.pc = "done", !.result = worker[w].result])
    /\ UNCHANGED <<now, objects, blobs, observations, pointer, hot, sweep>>

Finish(w) ==
    /\ worker[w].pc = "done"
    /\ Set(w, IdleWorker)
    /\ UNCHANGED <<now, objects, blobs, observations, redis, sweep, faults>>

\* Any provider call may fail, and with "error" any store call whose error the code
\* returns, or the context is cancelled.
Calls == {"lookup", "query", "materialize", "get", "requery", "delete_corrupt", "mark_corrupt", "evict",
          "acquire", "wait", "fetch", "put", "commit", "supersede", "remember"}
ReturnError(w) ==
    /\ worker[w].pc \in (IF "error" \in CacheFaults THEN Calls ELSE {"fetch"})
    /\ Return(w, "error")
    /\ UNCHANGED <<now, objects, blobs, observations, redis, sweep, faults>>

Fault(kind) == kind \in CacheFaults /\ faults < MaxFaults /\ faults' = faults + 1

\* The process dies: its lock stays until it expires.
WorkerDies(w) ==
    /\ Fault("crash")
    /\ worker[w].pc # "idle"
    /\ Set(w, IdleWorker)
    /\ UNCHANGED <<now, objects, blobs, observations, redis, sweep>>

-----------------------------------------------------------------------------
(* SweepExpiredBlobs *)

Expired(b) == blobs[b] # Nothing /\ ~blobs[b].deleted /\ blobs[b].expires_at + Grace <= now

SweepSelect ==
    /\ sweep = {}
    /\ sweep' = {[checksum |-> b, key |-> blobs[b].key, deleted |-> FALSE] : b \in {c \in Bodies : Expired(c)}}
    /\ sweep' # {}
    /\ UNCHANGED <<now, objects, blobs, observations, redis, worker, faults>>

SweepDelete ==
    \E s \in sweep :
        /\ ~s.deleted /\ \A r \in sweep : ~r.deleted
        /\ objects' = [objects EXCEPT ![s.key] = "absent"]
        /\ sweep' = (sweep \ {s}) \cup {[s EXCEPT !.deleted = TRUE]}
        /\ UNCHANGED <<now, blobs, observations, redis, worker, faults>>

\* The guarded UPDATE: only a row that is still expired is marked.
SweepMark ==
    \E s \in sweep :
        /\ s.deleted
        /\ blobs' = [blobs EXCEPT ![s.checksum] = IF Expired(s.checksum) THEN [@ EXCEPT !.deleted = TRUE] ELSE @]
        /\ sweep' = sweep \ {s}
        /\ UNCHANGED <<now, objects, observations, redis, worker, faults>>

SweepAbort ==
    /\ "error" \in CacheFaults
    /\ sweep # {}
    /\ sweep' = {}
    /\ UNCHANGED <<now, objects, blobs, observations, redis, worker, faults>>

-----------------------------------------------------------------------------
(* Environment: time, Redis eviction and expiry, S3 lifecycle rules, bit rot *)

Tick ==
    /\ now < MaxTime
    /\ now' = now + 1
    /\ UNCHANGED <<objects, blobs, observations, redis, worker, sweep, faults>>

LockExpires ==
    /\ Fault("lockexpiry")
    /\ lock # Nothing
    /\ lock' = Nothing
    /\ worker' = [worker EXCEPT ![lock].lost = (worker[lock].phase = "locked")]
    /\ UNCHANGED <<now, objects, blobs, observations, pointer, hot, sweep>>

\* RedisBodyDuration is over.
HotBodyExpires ==
    /\ \E b \in Bodies : hot[b] # "absent" /\ hot' = [hot EXCEPT ![b] = "absent"]
    /\ UNCHANGED <<now, objects, blobs, observations, pointer, lock, worker, sweep, faults>>

EvictPointer ==
    /\ Fault("evict")
    /\ pointer # Nothing /\ pointer' = Nothing
    /\ UNCHANGED <<now, objects, blobs, observations, hot, lock, worker, sweep>>

LifecycleExpires ==
    /\ Fault("lifecycle")
    /\ \E k \in Keys : objects[k] # "absent" /\ objects' = [objects EXCEPT ![k] = "absent"]
    /\ UNCHANGED <<now, blobs, observations, redis, worker, sweep>>

Corrupt ==
    /\ Fault("corrupt")
    /\ \/ \E k \in Keys : objects[k] = "good" /\ objects' = [objects EXCEPT ![k] = "corrupt"] /\ hot' = hot
       \/ objects' = objects /\ \E b \in Bodies : hot[b] = "good" /\ hot' = [hot EXCEPT ![b] = "bad"]
    /\ UNCHANGED <<now, blobs, observations, pointer, lock, worker, sweep>>

-----------------------------------------------------------------------------
Resolve(w) ==
    \/ StartResolve(w) \/ LookupRedis(w) \/ LookupDurable(w) \/ ReadHotBody(w) \/ ReadObject(w)
    \/ RequeryKey(w) \/ MarkMissing(w) \/ DeleteCorrupt(w) \/ MarkCorrupt(w) \/ EvictCorrupt(w)
    \/ AcquireLock(w) \/ Poll(w) \/ GiveUp(w) \/ Fetch(w)
    \/ ReadPrevious(w) \/ PutImmutable(w) \/ CommitObservation(w) \/ DeleteSuperseded(w)
    \/ Remember(w) \/ Unlock(w) \/ Finish(w)

SweepExpiredBlobs == SweepSelect \/ SweepDelete \/ SweepMark

CacheNext ==
    \/ \E w \in Workers : Resolve(w) \/ ReturnError(w) \/ WorkerDies(w)
    \/ SweepExpiredBlobs \/ SweepAbort
    \/ Tick \/ LockExpires \/ HotBodyExpires \/ EvictPointer \/ LifecycleExpires \/ Corrupt

CacheSpec == CacheInit /\ [][CacheNext]_cacheVars

(* A call keeps taking its steps; the deadline timer, once fired, stays ready in  *)
(* the polling select, which picks among ready cases at random, so it is taken in *)
(* the end although the ticker keeps making the wait loop go round.               *)
Fairness ==
    \A w \in Workers :
        /\ WF_cacheVars(worker[w].pc \notin {"idle", "wait"} /\ (Resolve(w) \/ ReturnError(w)))
        /\ SF_cacheVars(GiveUp(w))

CacheFairSpec == CacheSpec /\ Fairness

-----------------------------------------------------------------------------
(* Properties *)

CacheTypeOK ==
    /\ now \in 0..MaxTime /\ faults \in 0..MaxFaults
    /\ objects \in [Keys -> {"absent", "good", "corrupt"}]
    /\ blobs \in [Bodies -> BlobRow \cup {Nothing}]
    /\ observations \subseteq Observation
    /\ pointer \in Pointer \cup {Nothing}
    /\ hot \in [Bodies -> {"absent", "good", "bad"}]
    /\ lock \in Workers \cup {Nothing}
    /\ \A w \in Workers :
          /\ worker[w].pc \in Calls \cup {"idle", "previous", "mark_missing", "unlock", "done"}
          /\ worker[w].phase \in {"first", "waiting", "locked"}
          /\ worker[w].p \in Pointer \cup {Nothing}
          /\ worker[w].previous \in Keys \cup {Nothing}
          /\ worker[w].lost \in BOOLEAN
          /\ worker[w].result \in Bodies \cup {Nothing, "error", "in_progress"}
    /\ sweep \subseteq [checksum : Bodies, key : Keys, deleted : BOOLEAN]

Fetching(w) == worker[w].phase = "locked" /\ worker[w].pc \in
    {"fetch", "previous", "put", "commit", "supersede", "remember"}

\* Two calls fetch and record the request at the same time only when the lock of one
\* of them ran out: the compare-and-delete never frees another call's lock.
SingleFlight ==
    \A v, w \in Workers : v # w /\ Fetching(v) /\ Fetching(w) => worker[v].lost \/ worker[w].lost

\* Upstream is asked only when no recorded response can be reused, or the blob of one is
\* gone: the lookup repeated under the lock sees what the previous holder recorded after
\* this call's first lookup. A pointer to a blob that is gone ends a lookup before it
\* reaches the other recorded responses.
NothingToReuse == Reusable = {} \/ \E o \in observations : ~Live(o.checksum)
NoNeedlessFetch ==
    [][\A w \in Workers : worker[w].pc = "fetch" /\ worker'[w].pc = "previous" => NothingToReuse]_cacheVars

\* A row that lookups use has its object: neither the move to another prefix nor the
\* retention sweep, which deletes objects it selected earlier, pulls it away.
LiveRowHasObject == \A b \in Bodies : Live(b) => objects[blobs[b].key] # "absent"

\* A pointer is visible to other calls only after the observation it names committed,
\* whatever crashed or failed on the way.
PointerNamesObservation ==
    pointer # Nothing => \E o \in observations :
        o.checksum = pointer.checksum /\ o.reusable_until = pointer.reusable_until

\* Every call returns, however often bodies rot, objects vanish or a holder dies.
ResolveReturns == \A w \in Workers : worker[w].pc = "lookup" ~> worker[w].pc \in {"done", "idle"}
==============================================================================
