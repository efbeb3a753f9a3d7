----------------------------- MODULE AccessStats -----------------------------
(***************************************************************************)
(* Demand counters (internal/accessstats/access.go): reads increment a      *)
(* counter in Redis, and a flush claims counters with ZPOPMAX, adds them to *)
(* entity_access_stats in one transaction and gives them back to Redis when *)
(* that fails.                                                              *)
(***************************************************************************)
EXTENDS Integers, FiniteSets, FiniteSetsExt

CONSTANTS
    Entities,    \* canonical entities that are read
    Deletable,   \* those that may be deleted
    Flushers,    \* executions of Flush: the scheduler's, and one that was given up on
    Limit,       \* counters claimed by one flush
    MaxFetches,  \* bound on the reads of an entity
    MaxRepeated, \* bound on the reads of an entity that are counted twice
    AccessFaults \* which of {"error", "unknown", "crash", "redis"} occur

ASSUME AccessAssumption ==
    /\ Deletable \subseteq Entities /\ IsFiniteSet(Flushers)
    /\ Limit \in Nat \ {0} /\ MaxFetches \in Nat /\ MaxRepeated \in Nat

VARIABLES
    live,     \* entities that exist
    fetches,  \* reads of each entity so far
    repeated, \* those a flush still carries after its transaction committed them
    pending,  \* the sorted set in Redis
    total,    \* entity_access_stats.total_fetches, committed
    dropped,  \* counts given up because their entity is gone
    lost,     \* counts Redis handed out or was not given back, with nobody left to hold them
    flush     \* local state of each flush, with the rows its transaction wrote

accessVars == <<live, fetches, repeated, pending, total, dropped, lost, flush>>

Counts == [Entities -> 0..MaxFetches + MaxRepeated]
Zero == [e \in Entities |-> 0]
FlushRecord == [pc : {"idle", "upsert", "restore"}, claimed : Counts,
                todo : SUBSET Entities, added : SUBSET Entities, discarded : SUBSET Entities]
IdleFlush == [pc |-> "idle", claimed |-> Zero, todo |-> {}, added |-> {}, discarded |-> {}]

AccessInit ==
    /\ live = Entities /\ fetches = Zero /\ repeated = Zero
    /\ pending = Zero /\ total = Zero /\ dropped = Zero /\ lost = Zero
    /\ flush = [f \in Flushers |-> IdleFlush]

\* A successful read; its entity may be gone by the time the counter is written.
Track(e) ==
    /\ fetches[e] < MaxFetches
    /\ fetches' = [fetches EXCEPT ![e] = @ + 1]
    /\ pending' = [pending EXCEPT ![e] = @ + 1]
    /\ UNCHANGED <<live, repeated, total, dropped, lost, flush>>

\* The row goes with its entity, after the transactions that reference it.
Delete(e) ==
    /\ e \in live \cap Deletable /\ \A f \in Flushers : e \notin flush[f].added
    /\ live' = live \ {e}
    /\ total' = [total EXCEPT ![e] = 0]
    /\ dropped' = [dropped EXCEPT ![e] = @ + total[e]]
    /\ UNCHANGED <<fetches, repeated, pending, lost, flush>>

\* The Limit highest counters.
Highest == {q \in SUBSET {e \in Entities : pending[e] > 0} :
              /\ Cardinality(q) <= Limit
              /\ \A e \in q, o \in Entities \ q : pending[e] >= pending[o]
              /\ Cardinality(q) < Limit => \A o \in Entities \ q : pending[o] = 0}

Claim(q) == [IdleFlush EXCEPT !.pc = "upsert", !.todo = q, !.claimed = [e \in Entities |-> IF e \in q THEN pending[e] ELSE 0]]

\* Mutated form: the counters are read and only removed by a later command.
PopKeeping(f) ==
    /\ flush[f].pc = "idle"
    /\ \E q \in Highest \ {{}} : flush' = [flush EXCEPT ![f] = Claim(q)]
    /\ UNCHANGED <<live, fetches, repeated, pending, total, dropped, lost>>

\* ZPOPMAX reads and removes in one step.
Pop(f) ==
    /\ flush[f].pc = "idle"
    /\ \E q \in Highest \ {{}} :
          /\ flush' = [flush EXCEPT ![f] = Claim(q)]
          /\ pending' = [e \in Entities |-> IF e \in q THEN 0 ELSE pending[e]]
    /\ UNCHANGED <<live, fetches, repeated, total, dropped, lost>>

\* Redis executes ZPOPMAX and its answer is lost: the flush ends and has claimed nothing.
LosePop(f) ==
    /\ "redis" \in AccessFaults /\ flush[f].pc = "idle"
    /\ \E q \in Highest \ {{}} :
          /\ pending' = [e \in Entities |-> IF e \in q THEN 0 ELSE pending[e]]
          /\ lost' = [e \in Entities |-> IF e \in q THEN lost[e] + pending[e] ELSE lost[e]]
    /\ UNCHANGED <<live, fetches, repeated, total, dropped, flush>>

\* Mutated form: a missing entity fails the flush.
UpsertStrict(f, e) ==
    /\ flush[f].pc = "upsert" /\ e \in flush[f].todo
    /\ \A g \in Flushers \ {f} : e \notin flush[g].added
    /\ flush' = IF e \in live
                THEN [flush EXCEPT ![f].todo = @ \ {e}, ![f].added = @ \cup {e}]
                ELSE [flush EXCEPT ![f].pc = "restore", ![f].added = {}]
    /\ UNCHANGED <<live, fetches, repeated, pending, total, dropped, lost>>

\* One row, waiting for a transaction that wrote it; a missing entity is remembered.
Upsert(f, e) ==
    /\ flush[f].pc = "upsert" /\ e \in flush[f].todo
    /\ \A g \in Flushers \ {f} : e \notin flush[g].added
    /\ flush' = IF e \in live
                THEN [flush EXCEPT ![f].todo = @ \ {e}, ![f].added = @ \cup {e}]
                ELSE [flush EXCEPT ![f].todo = @ \ {e}, ![f].discarded = @ \cup {e}]
    /\ dropped' = IF e \in live THEN dropped ELSE [dropped EXCEPT ![e] = @ + flush[f].claimed[e]]
    /\ UNCHANGED <<live, fetches, repeated, pending, total, lost>>

Rollback(f) ==
    /\ flush' = [flush EXCEPT ![f].pc = "restore", ![f].todo = {}, ![f].added = {}]
    /\ UNCHANGED <<live, fetches, repeated, pending, total, dropped, lost>>

\* BEGIN or a statement fails, or a commit that does not take effect.
Fail(f) == "error" \in AccessFaults /\ flush[f].pc = "upsert" /\ Rollback(f)

\* The rows are not taken in a common order: Postgres ends one of two flushes that
\* wait for each other.
Waits(f, g) == flush[f].todo # {} /\ flush[f].todo \subseteq flush[g].added
BreakDeadlock(f) == (\E g \in Flushers \ {f} : Waits(f, g) /\ Waits(g, f)) /\ Rollback(f)

\* What a flush still has to persist of an entity.
Carried(f, e) == IF e \in flush[f].discarded THEN 0 ELSE flush[f].claimed[e]

\* Mutated form: every claimed counter is given back.
RestoreAll(f) ==
    /\ flush[f].pc = "restore"
    /\ pending' = [e \in Entities |-> pending[e] + flush[f].claimed[e]]
    /\ flush' = [flush EXCEPT ![f] = IdleFlush]
    /\ UNCHANGED <<live, fetches, repeated, total, dropped, lost>>

\* restore: the claimed increments, without those of missing entities.
Restore(f) ==
    /\ flush[f].pc = "restore"
    /\ pending' = [e \in Entities |-> pending[e] + Carried(f, e)]
    /\ flush' = [flush EXCEPT ![f] = IdleFlush]
    /\ UNCHANGED <<live, fetches, repeated, total, dropped, lost>>

Commit(f) ==
    /\ flush[f].pc = "upsert" /\ flush[f].todo = {}
    /\ total' = [e \in Entities |-> total[e] + IF e \in flush[f].added THEN flush[f].claimed[e] ELSE 0]
    /\ flush' = [flush EXCEPT ![f] = IdleFlush]
    /\ UNCHANGED <<live, fetches, repeated, pending, dropped, lost>>

\* The transaction commits, but the flush hears of an error, because the answer is lost or
\* its context ends first: it restores what is in the table already.
CommitUnknown(f) ==
    /\ "unknown" \in AccessFaults
    /\ flush[f].pc = "upsert" /\ flush[f].todo = {}
    /\ \A e \in flush[f].added : repeated[e] + flush[f].claimed[e] <= MaxRepeated
    /\ total' = [e \in Entities |-> total[e] + IF e \in flush[f].added THEN flush[f].claimed[e] ELSE 0]
    /\ repeated' = [e \in Entities |-> repeated[e] + IF e \in flush[f].added THEN flush[f].claimed[e] ELSE 0]
    /\ flush' = [flush EXCEPT ![f].pc = "restore", ![f].added = {}]
    /\ UNCHANGED <<live, fetches, pending, dropped, lost>>

\* The process dies, or Redis refuses what is given back: the claim is lost.
Lose(f) ==
    /\ \/ "crash" \in AccessFaults /\ flush[f].pc # "idle"
       \/ "redis" \in AccessFaults /\ flush[f].pc = "restore"
    /\ flush' = [flush EXCEPT ![f] = IdleFlush]
    /\ lost' = [e \in Entities |-> lost[e] + Carried(f, e)]
    /\ UNCHANGED <<live, fetches, repeated, pending, total, dropped>>

Flush(f) == Pop(f) \/ (\E e \in Entities : Upsert(f, e)) \/ Restore(f) \/ Commit(f) \/ BreakDeadlock(f)

AccessNext ==
    \/ \E e \in Entities : Track(e) \/ Delete(e)
    \/ \E f \in Flushers : Flush(f) \/ LosePop(f) \/ Fail(f) \/ CommitUnknown(f) \/ Lose(f)

AccessSpec == AccessInit /\ [][AccessNext]_accessVars

\* The scheduler flushes every hour, and Postgres does not fail for ever.
AccessFairness ==
    /\ \A f \in Flushers : WF_accessVars(Flush(f))
    /\ <>[][\A f \in Flushers : ~Fail(f) /\ ~CommitUnknown(f)]_accessVars

-----------------------------------------------------------------------------
(* Properties *)

AccessTypeOK ==
    /\ live \subseteq Entities /\ fetches \in [Entities -> 0..MaxFetches] /\ repeated \in [Entities -> 0..MaxRepeated]
    /\ pending \in Counts /\ total \in Counts /\ dropped \in Counts /\ lost \in Counts
    /\ flush \in [Flushers -> FlushRecord]

InFlight(e) == MapThenSumSet(LAMBDA f : Carried(f, e), Flushers)

\* While statements fail, flushes overlap and entities disappear between a read and its
\* flush, a read is in one place: in Redis, in a flush, in the table or gone with its entity.
\* It is in a second one only when its flush restored it without knowing that its commit had
\* taken effect, and in none only after a flush died with it, Redis refused a restore or
\* the answer to ZPOPMAX was lost.
CountsAreConserved ==
    \A e \in Entities : fetches[e] + repeated[e] = pending[e] + InFlight(e) + total[e] + dropped[e] + lost[e]

\* The counter of a deleted entity does not poison every later flush: whenever reads pause
\* (MaxFetches makes them), every read of an entity that stays is persisted in the end,
\* beyond those counted twice, unless it is lost. This takes flushes that can claim all
\* entities: ZPOPMAX takes the highest counters first.
Persisted(e) == total[e] + lost[e] = fetches[e] + repeated[e]
ReadsArePersisted == Cardinality(Entities) <= Limit => []<>(\A e \in live : Persisted(e))
==============================================================================
