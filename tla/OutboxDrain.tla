---------------------------- MODULE OutboxDrain ----------------------------
(***************************************************************************)
(* The outbox drain (jobs/outbox.go): every minute one job sequences both   *)
(* outboxes, batch after batch. The sequencers of a batch run at the same   *)
(* time under a deadline of their own, and any failure ends the job. What a *)
(* sequencer does inside its transaction is ChangeFeed.                     *)
(***************************************************************************)
EXTENDS Naturals, FiniteSets

CONSTANTS
    Feeds,      \* the outboxes that are drained
    MaxRows,    \* bound on the rows staged in an outbox
    BatchSize,  \* rows a sequencer takes
    MaxBatches, \* batches of one job
    MaxDeaths   \* bound on process deaths

ASSUME DrainAssumption == {MaxRows, MaxDeaths} \subseteq Nat /\ {BatchSize, MaxBatches} \subseteq Nat \ {0}

VARIABLES
    condition, \* how the sequencer of a feed fares: it works, fails, or outlasts its deadline
    staged,    \* rows emitted so far
    unsequenced, \* rows with sequenced_at IS NULL
    sequencer, \* the goroutine of the current batch, and what it left in its channel
    drain,     \* the job
    deaths

drainVars == <<condition, staged, unsequenced, sequencer, drain, deaths>>

NoDrain == [pc |-> "idle", batch |-> 0, expired |-> FALSE]
Stopped == [f \in Feeds |-> "none"]
Running == {f \in Feeds : sequencer[f] = "running"}
AfterBatch(f) == IF unsequenced[f] < BatchSize THEN 0 ELSE unsequenced[f] - BatchSize

DrainInit ==
    /\ condition \in [Feeds -> {"works", "fails", "slow"}]
    /\ staged = [f \in Feeds |-> 0] /\ unsequenced = staged
    /\ sequencer = Stopped /\ drain = NoDrain /\ deaths = 0

\* A transaction commits with a row in an outbox.
Stage(f) ==
    /\ staged[f] < MaxRows
    /\ staged' = [staged EXCEPT ![f] = @ + 1] /\ unsequenced' = [unsequenced EXCEPT ![f] = @ + 1]
    /\ UNCHANGED <<condition, sequencer, drain, deaths>>

\* Every minute, or again after a failure.
StartDrain ==
    /\ drain.pc = "idle" /\ drain' = [drain EXCEPT !.pc = "batch"]
    /\ UNCHANGED <<condition, staged, unsequenced, sequencer, deaths>>

-----------------------------------------------------------------------------
(* sequenceBatch. *)

\* Both goroutines are started before either is waited for.
SequenceBatch ==
    /\ drain.pc = "batch" /\ drain' = [drain EXCEPT !.pc = "wait"]
    /\ sequencer' = [f \in Feeds |-> "running"]
    /\ UNCHANGED <<condition, staged, unsequenced, deaths>>

\* Mutated form: both feeds take the same advisory lock.
CommitUnderOneLock(f) ==
    /\ sequencer[f] = "running" /\ condition[f] = "works" /\ \A g \in Running : condition[g] # "slow"
    /\ sequencer' = [sequencer EXCEPT ![f] = "sequenced"]
    /\ unsequenced' = [unsequenced EXCEPT ![f] = AfterBatch(f)]
    /\ UNCHANGED <<condition, staged, drain, deaths>>

\* Under an advisory lock of its feed, which only an abandoned sequencer still holds.
SequenceCommits(f) ==
    /\ sequencer[f] = "running" /\ condition[f] = "works"
    /\ sequencer' = [sequencer EXCEPT ![f] = "sequenced"]
    /\ unsequenced' = [unsequenced EXCEPT ![f] = AfterBatch(f)]
    /\ UNCHANGED <<condition, staged, drain, deaths>>

SequenceFails(f) ==
    /\ sequencer[f] = "running" /\ condition[f] = "fails"
    /\ sequencer' = [sequencer EXCEPT ![f] = "failed"]
    /\ UNCHANGED <<condition, staged, unsequenced, drain, deaths>>

\* Half a minute: a sequencer that works has its result by now.
Deadline ==
    /\ drain.pc = "wait" /\ ~drain.expired /\ Running # {}
    /\ \A f \in Running : condition[f] # "works"
    /\ drain' = [drain EXCEPT !.expired = TRUE]
    /\ UNCHANGED <<condition, staged, unsequenced, sequencer, deaths>>

\* The contexts of goroutines that still run are cancelled: each rolls back, or its
\* commit was under way.
Cancel ==
    /\ sequencer' = Stopped
    /\ \E committed \in SUBSET Running :
          unsequenced' = [f \in Feeds |-> IF f \in committed THEN AfterBatch(f) ELSE unsequenced[f]]

\* waitSequenceResult prefers a result to an expired context.
BothSequenced == \A f \in Feeds : sequencer[f] = "sequenced"

\* The job goes on with the next batch or ends with the failures.
BatchEnds ==
    /\ drain.pc = "wait" /\ (drain.expired \/ Running = {})
    /\ drain' = IF BothSequenced THEN [drain EXCEPT !.pc = "pending"] ELSE NoDrain
    /\ Cancel
    /\ UNCHANGED <<condition, staged, deaths>>

-----------------------------------------------------------------------------
(* The loop of Work. *)

CheckPending ==
    /\ drain.pc = "pending"
    /\ drain' = IF (\E f \in Feeds : unsequenced[f] > 0) /\ drain.batch + 1 < MaxBatches
                THEN [NoDrain EXCEPT !.pc = "batch", !.batch = drain.batch + 1] ELSE NoDrain
    /\ UNCHANGED <<condition, staged, unsequenced, sequencer, deaths>>

\* The query fails.
PendingFails ==
    /\ drain.pc = "pending" /\ drain' = NoDrain
    /\ UNCHANGED <<condition, staged, unsequenced, sequencer, deaths>>

\* Two minutes are over: several batches have been sequenced by then.
JobTimeout ==
    /\ drain.pc = "wait" /\ drain.batch > 0
    /\ drain' = NoDrain /\ Cancel
    /\ UNCHANGED <<condition, staged, deaths>>

\* The process dies; Postgres rolls back what was open. The job is rescued.
DrainCrash ==
    /\ drain.pc # "idle" /\ deaths < MaxDeaths /\ deaths' = deaths + 1
    /\ drain' = NoDrain /\ Cancel
    /\ UNCHANGED <<condition, staged>>

DrainWork == StartDrain \/ SequenceBatch \/ BatchEnds \/ CheckPending
Sequencing(f) == SequenceCommits(f) \/ SequenceFails(f)

DrainNext ==
    \/ DrainWork \/ Deadline \/ PendingFails \/ JobTimeout \/ DrainCrash
    \/ \E f \in Feeds : Stage(f) \/ Sequencing(f)

\* The periodic job runs, a sequencer that works or fails does so in time, and time
\* passes.
DrainFairness ==
    /\ WF_drainVars(DrainWork) /\ WF_drainVars(Deadline)
    /\ \A f \in Feeds : WF_drainVars(Sequencing(f))

DrainSpec == DrainInit /\ [][DrainNext]_drainVars

-----------------------------------------------------------------------------
(* Properties *)

DrainTypeOK ==
    /\ condition \in [Feeds -> {"works", "fails", "slow"}]
    /\ staged \in [Feeds -> 0..MaxRows] /\ unsequenced \in [Feeds -> 0..MaxRows]
    /\ sequencer \in [Feeds -> {"none", "running", "sequenced", "failed"}]
    /\ drain \in [pc : {"idle", "batch", "wait", "pending"}, batch : 0..(MaxBatches - 1), expired : BOOLEAN]
    /\ deaths \in 0..MaxDeaths

\* A feed whose sequencer works is drained, however many batches its backlog takes and
\* even if the other sequencer fails or outlasts its deadline every time.
HealthyFeedDrains == \A f \in Feeds : condition[f] = "works" /\ unsequenced[f] > 0 ~> unsequenced[f] = 0
==============================================================================
