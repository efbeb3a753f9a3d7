----------------------------- MODULE ChangeFeed -----------------------------
(***************************************************************************)
(* The public change feed: canonical publications stage rows in            *)
(* change_outbox inside their own transaction, sequencers move staged rows *)
(* into the numbered change_log, and consumers page through the log with a *)
(* cursor (internal/changelog).  A database transaction is the unit of     *)
(* visibility; everything a sequencer stages before its commit is local.   *)
(***************************************************************************)
EXTENDS Integers, FiniteSets

CONSTANTS
    Txs,         \* publication transactions, each runs at most once
    Entities,    \* canonical entities
    Sequencers,  \* concurrent callers of Sequence (ingestions and the drainer)
    Drainer,     \* the caller that is the periodic outbox drain job
    Consumers,   \* clients of GET /api/v2/changes
    Batch,       \* the limit argument of Sequence
    Limit,       \* the limit argument of ReadPage
    Operations,  \* operator interventions explored: subset of {"backup", "restore", "rebuild"}
    MaxStreams   \* bound on the databases ever initialised

ASSUME ChangeFeedAssumption ==
    /\ Batch \in Nat \ {0}
    /\ Limit \in Nat \ {0}
    /\ MaxStreams \in Nat \ {0}
    /\ Drainer \in Sequencers
    /\ Operations \subseteq {"backup", "restore", "rebuild"}

VARIABLES
    clock,     \* start times handed out by now()
    tx,        \* publication transactions
    version,   \* entities.projection_version, committed
    outbox,    \* change_outbox, committed rows
    log,       \* change_log, committed rows
    cursor,    \* change_cursor: stream_id and last_sequence
    seqr,      \* local state of each Sequence call
    client,    \* what each consumer persists, and its request in flight
    snapshot   \* the last database backup, and whether the current stream comes from it

database == <<version, outbox, log, cursor>>
vars == <<clock, tx, database, seqr, client, snapshot>>

Row == [id : Txs, entity : Entities, version : Nat, committed_at : Nat, sequenced : BOOLEAN]
Entry == [sequence : Nat, outbox_id : Txs, entity : Entities, version : Nat]
Cursor == [stream_id : Nat, last_sequence : Nat]
TxRecord ==
    [state : {"idle", "committed", "aborted"}]
      \cup [state : {"open"}, entity : Entities, start : Nat]
      \cup [state : {"holding"}, entity : Entities, start : Nat, version : Nat]
SequencerRecord ==
    [pc : {"idle", "locked", "cursor", "writing"}, sequence : Nat,
     entries : SUBSET Row, staged : SUBSET Entry]
ClientRecord ==
    [stream : Nat, after : Nat, seen : SUBSET Txs, copy : [Entities -> Nat],
     pc : {"idle", "reading", "applying"}, reply : Nat, head : Nat, page : SUBSET Entry]

NoStream == 0
IdleTx == [state |-> "idle"]
IdleSequencer == [pc |-> "idle", sequence |-> 0, entries |-> {}, staged |-> {}]

Init ==
    /\ clock = 0
    /\ tx = [t \in Txs |-> IdleTx]
    /\ version = [e \in Entities |-> 0]
    /\ outbox = {}
    /\ log = {}
    /\ cursor = [stream_id |-> 1, last_sequence |-> 0]
    /\ seqr = [s \in Sequencers |-> IdleSequencer]
    /\ client = [c \in Consumers |->
                    [stream |-> NoStream, after |-> 0, seen |-> {}, copy |-> [e \in Entities |-> 0],
                     pc |-> "idle", reply |-> NoStream, head |-> 0, page |-> {}]]
    /\ snapshot = [version |-> version, outbox |-> outbox, log |-> log, cursor |-> cursor,
                   restored |-> FALSE]

-----------------------------------------------------------------------------
(* Publications *)

\* The transaction starts: committed_at defaults to now(), its START time.
Begin(t, e) ==
    /\ tx[t].state = "idle"
    /\ clock' = clock + 1
    /\ tx' = [tx EXCEPT ![t] = [state |-> "open", entity |-> e, start |-> clock + 1]]
    /\ UNCHANGED <<database, seqr, client, snapshot>>

\* SELECT ... FROM entities ... FOR UPDATE waits for the row, then the merge
\* computes the next projection version.
LockEntity(t) ==
    /\ tx[t].state = "open"
    /\ \A u \in Txs : tx[u].state = "holding" => tx[u].entity # tx[t].entity
    /\ tx' = [tx EXCEPT ![t] = [state |-> "holding", entity |-> tx[t].entity,
                                start |-> tx[t].start, version |-> version[tx[t].entity] + 1]]
    /\ UNCHANGED <<clock, database, seqr, client, snapshot>>

\* Mutated form: the projection is published without its outbox row.
CommitWithoutRow(t) ==
    /\ tx[t].state = "holding"
    /\ version' = [version EXCEPT ![tx[t].entity] = tx[t].version]
    /\ tx' = [tx EXCEPT ![t] = [state |-> "committed"]]
    /\ UNCHANGED <<clock, outbox, log, cursor, seqr, client, snapshot>>

\* The projection and its outbox row become visible together.
Commit(t) ==
    /\ tx[t].state = "holding"
    /\ version' = [version EXCEPT ![tx[t].entity] = tx[t].version]
    /\ outbox' = outbox \cup {[id |-> t, entity |-> tx[t].entity, version |-> tx[t].version,
                               committed_at |-> tx[t].start, sequenced |-> FALSE]}
    /\ tx' = [tx EXCEPT ![t] = [state |-> "committed"]]
    /\ UNCHANGED <<clock, log, cursor, seqr, client, snapshot>>

Rollback(t) ==
    /\ tx[t].state \in {"open", "holding"}
    /\ tx' = [tx EXCEPT ![t] = [state |-> "aborted"]]
    /\ UNCHANGED <<clock, database, seqr, client, snapshot>>

-----------------------------------------------------------------------------
(* Sequence *)

Pending == {r \in outbox : ~r.sequenced}

AdvisoryLockFree(s) == \A o \in Sequencers \ {s} : seqr[o].pc = "idle"

\* pg_advisory_xact_lock: held to the end of the transaction.
AcquireLock(s) ==
    /\ seqr[s].pc = "idle"
    /\ AdvisoryLockFree(s)
    /\ seqr' = [seqr EXCEPT ![s].pc = "locked"]
    /\ UNCHANGED <<clock, tx, database, client, snapshot>>

\* SELECT last_sequence ... FOR UPDATE, a second lock held to the end.
CursorRowFree(s) == \A o \in Sequencers \ {s} : seqr[o].pc \notin {"cursor", "writing"}

\* Mutated form: off by one.
ReadCursorOffByOne(s) ==
    /\ seqr[s].pc = "locked"
    /\ CursorRowFree(s)
    /\ seqr' = [seqr EXCEPT ![s].pc = "cursor", ![s].sequence = cursor.last_sequence - 1]
    /\ UNCHANGED <<clock, tx, database, client, snapshot>>

ReadCursor(s) ==
    /\ seqr[s].pc = "locked"
    /\ CursorRowFree(s)
    /\ seqr' = [seqr EXCEPT ![s].pc = "cursor", ![s].sequence = cursor.last_sequence]
    /\ UNCHANGED <<clock, tx, database, client, snapshot>>

\* ORDER BY committed_at LIMIT Batch
FirstRows(rows) ==
    {q \in SUBSET rows :
        /\ Cardinality(q) <= Batch
        /\ Cardinality(q) < Batch => q = rows
        /\ \A a \in q, b \in rows \ q : a.committed_at <= b.committed_at}

SelectPending(s) ==
    /\ seqr[s].pc = "cursor"
    /\ \E q \in FirstRows(Pending) :
          seqr' = [seqr EXCEPT ![s].pc = "writing", ![s].entries = q]
    /\ UNCHANGED <<clock, tx, database, client, snapshot>>

\* One iteration of the loop: the INSERT into change_log and the UPDATE of the
\* outbox row, both invisible until the commit.
InsertEntry(s) ==
    /\ seqr[s].pc = "writing"
    /\ \E r \in seqr[s].entries :
          /\ \A q \in seqr[s].entries : r.committed_at <= q.committed_at
          /\ seqr' = [seqr EXCEPT
                ![s].sequence = @ + 1,
                ![s].entries = @ \ {r},
                ![s].staged = @ \cup {[sequence |-> seqr[s].sequence + 1, outbox_id |-> r.id,
                                       entity |-> r.entity, version |-> r.version]}]
    /\ UNCHANGED <<clock, tx, database, client, snapshot>>

StagedIds(s) == {e.outbox_id : e \in seqr[s].staged}

\* Mutated form: marks every row, staged or not.
MarkEveryRow(ids) == {[r EXCEPT !.sequenced = TRUE] : r \in outbox}

MarkSequenced(ids) ==
    {[r EXCEPT !.sequenced = @ \/ r.id \in ids] : r \in outbox}

\* Mutated form: the cursor is not advanced.
CommitWithoutCursor(s) ==
    /\ seqr[s].pc = "writing"
    /\ seqr[s].entries = {}
    /\ log' = log \cup seqr[s].staged
    /\ outbox' = MarkSequenced(StagedIds(s))
    /\ seqr' = [seqr EXCEPT ![s] = IdleSequencer]
    /\ UNCHANGED <<clock, tx, version, cursor, client, snapshot>>

CommitSequence(s) ==
    /\ seqr[s].pc = "writing"
    /\ seqr[s].entries = {}
    /\ log' = log \cup seqr[s].staged
    /\ outbox' = MarkSequenced(StagedIds(s))
    /\ cursor' = IF seqr[s].staged = {} THEN cursor
                 ELSE [cursor EXCEPT !.last_sequence = seqr[s].sequence]
    /\ seqr' = [seqr EXCEPT ![s] = IdleSequencer]
    /\ UNCHANGED <<clock, tx, version, client, snapshot>>

\* Any error, deadline or crash: the transaction rolls back and the lock goes.
AbortSequence(s) ==
    /\ seqr[s].pc # "idle"
    /\ seqr' = [seqr EXCEPT ![s] = IdleSequencer]
    /\ UNCHANGED <<clock, tx, database, client, snapshot>>

-----------------------------------------------------------------------------
(* ReadPage and the consumer's side of the protocol *)

LogHead == IF log = {} THEN 0 ELSE CHOOSE n \in {e.sequence : e \in log} :
                                    \A e \in log : e.sequence <= n

\* Mutated form: the stream identity is not compared.
ValidatePosition(known, stream, after, head) ==
    IF after > head THEN "change_cursor_ahead" ELSE "none"

\* validateCursor: the code of the conflict, or "none".
ValidateCursor(known, stream, after, head) ==
    CASE known # NoStream /\ known # stream -> "change_stream_changed"
      [] ~(known # NoStream /\ known # stream) /\ after > head -> "change_cursor_ahead"
      [] OTHER -> "none"

\* First query of ReadPage: stream identity and head, then validateCursor.
ReadMetadata(c) ==
    /\ client[c].pc = "idle"
    /\ ValidateCursor(client[c].stream, cursor.stream_id, client[c].after, LogHead) = "none"
    /\ client' = [client EXCEPT ![c].pc = "reading", ![c].reply = cursor.stream_id,
                                ![c].head = LogHead]
    /\ UNCHANGED <<clock, tx, database, seqr, snapshot>>

\* Mutated form: the consumer clamps its cursor to the new head.
ConflictClamping(c) ==
    /\ client[c].pc = "idle"
    /\ ValidateCursor(client[c].stream, cursor.stream_id, client[c].after, LogHead) # "none"
    /\ client' = [client EXCEPT ![c].stream = cursor.stream_id,
                                ![c].after = IF @ > LogHead THEN LogHead ELSE @]
    /\ UNCHANGED <<clock, tx, database, seqr, snapshot>>

\* 409: the consumer adopts the returned stream and replays from zero.
Conflict(c) ==
    /\ client[c].pc = "idle"
    /\ ValidateCursor(client[c].stream, cursor.stream_id, client[c].after, LogHead) # "none"
    /\ client' = [client EXCEPT ![c].stream = cursor.stream_id, ![c].after = 0]
    /\ UNCHANGED <<clock, tx, database, seqr, snapshot>>

\* Mutated form: the newest rows first.
PageRowsDescending(after, head) ==
    LET rows == {e \in log : e.sequence > after /\ e.sequence <= head}
    IN  {e \in rows : Cardinality({o \in rows : o.sequence > e.sequence}) < Limit}

\* ORDER BY sequence LIMIT Limit of the entries in (after, head].
PageRows(after, head) ==
    LET rows == {e \in log : e.sequence > after /\ e.sequence <= head}
    IN  {e \in rows : Cardinality({o \in rows : o.sequence < e.sequence}) < Limit}

NextCursor(page, after) ==
    IF page = {} THEN after
    ELSE CHOOSE n \in {e.sequence : e \in page} : \A e \in page : e.sequence <= n

\* Second query of ReadPage, a statement of its own.
ReadEntries(c) ==
    /\ client[c].pc = "reading"
    /\ client' = [client EXCEPT ![c].pc = "applying",
                                ![c].page = PageRows(client[c].after, client[c].head)]
    /\ UNCHANGED <<clock, tx, database, seqr, snapshot>>

\* The consumer fetches the current projection of every changed entity and
\* commits its cursor with its local effects.
ApplyPage(c) ==
    /\ client[c].pc = "applying"
    /\ LET page == client[c].page
           changed == {e.entity : e \in page}
       IN  client' = [client EXCEPT
               ![c].pc = "idle", ![c].reply = NoStream, ![c].page = {}, ![c].head = 0,
               ![c].stream = client[c].reply,
               ![c].after = NextCursor(page, @),
               ![c].seen = @ \cup {e.outbox_id : e \in page},
               ![c].copy = [e \in Entities |-> IF e \in changed THEN version[e] ELSE @[e]]]
    /\ UNCHANGED <<clock, tx, database, seqr, snapshot>>

\* The request fails or the consumer restarts before its local commit.
DropPage(c) ==
    /\ client[c].pc # "idle"
    /\ client' = [client EXCEPT ![c].pc = "idle", ![c].reply = NoStream, ![c].page = {}, ![c].head = 0]
    /\ UNCHANGED <<clock, tx, database, seqr, snapshot>>

-----------------------------------------------------------------------------
(* Operator interventions on the database (docs/change-feed.md).  Backups and *)
(* rebuilds happen outside the program; bounded by Operations and MaxStreams.  *)

TakeBackup ==
    /\ "backup" \in Operations
    /\ snapshot' = [version |-> version, outbox |-> outbox, log |-> log, cursor |-> cursor,
                    restored |-> snapshot.restored]
    /\ UNCHANGED <<clock, tx, database, seqr, client>>

\* Every connection is lost: open transactions and requests die with it.
DropConnections ==
    /\ tx' = [t \in Txs |-> IF tx[t].state \in {"open", "holding"} THEN [state |-> "aborted"]
                            ELSE tx[t]]
    /\ seqr' = [s \in Sequencers |-> IdleSequencer]
    /\ client' = [c \in Consumers |->
                    IF client[c].pc = "reading"
                    THEN [client[c] EXCEPT !.pc = "idle", !.reply = NoStream, !.head = 0]
                    ELSE client[c]]

\* Restoring a snapshot restores its stream identity and its head.
RestoreBackup ==
    /\ "restore" \in Operations
    /\ database # <<snapshot.version, snapshot.outbox, snapshot.log, snapshot.cursor>>
    /\ version' = snapshot.version
    /\ outbox' = snapshot.outbox
    /\ log' = snapshot.log
    /\ cursor' = snapshot.cursor
    /\ snapshot' = [snapshot EXCEPT !.restored = TRUE]
    /\ DropConnections
    /\ UNCHANGED clock

\* A new database generates a new stream identity.
Rebuild ==
    /\ "rebuild" \in Operations
    /\ cursor.stream_id < MaxStreams
    /\ version' = [e \in Entities |-> 0]
    /\ outbox' = {}
    /\ log' = {}
    /\ cursor' = [stream_id |-> cursor.stream_id + 1, last_sequence |-> 0]
    /\ DropConnections
    /\ snapshot' = [version |-> version', outbox |-> outbox', log |-> log', cursor |-> cursor',
                    restored |-> FALSE]
    /\ UNCHANGED clock

-----------------------------------------------------------------------------
Publish == \E t \in Txs : (\E e \in Entities : Begin(t, e)) \/ LockEntity(t) \/ Commit(t) \/ Rollback(t)

Sequence(s) == AcquireLock(s) \/ ReadCursor(s) \/ SelectPending(s) \/ InsertEntry(s) \/ CommitSequence(s)

Poll(c) == ReadMetadata(c) \/ Conflict(c) \/ ReadEntries(c) \/ ApplyPage(c)

Next ==
    \/ Publish
    \/ \E s \in Sequencers : Sequence(s) \/ AbortSequence(s)
    \/ \E c \in Consumers : Poll(c) \/ DropPage(c)
    \/ TakeBackup \/ RestoreBackup \/ Rebuild

Spec == Init /\ [][Next]_vars

\* A transaction that holds the lock ends: every caller runs under a deadline.
\* The lock queue is first come first served and the drain job comes back every
\* minute: a statement it reaches again and again does not fail for ever.
\* Consumers keep polling.
Fairness ==
    /\ \A s \in Sequencers : WF_vars(Sequence(s) /\ seqr[s].pc # "idle")
    /\ SF_vars(AcquireLock(Drainer)) /\ SF_vars(ReadCursor(Drainer)) /\ SF_vars(SelectPending(Drainer))
    /\ \A n \in 0 .. Cardinality(Txs) : SF_vars(seqr[Drainer].sequence = n /\ InsertEntry(Drainer))
    /\ SF_vars(CommitSequence(Drainer))
    /\ \A c \in Consumers : /\ WF_vars(ReadMetadata(c) \/ Conflict(c))
                            /\ SF_vars(ReadEntries(c)) /\ SF_vars(ApplyPage(c))

FairSpec == Spec /\ Fairness

-----------------------------------------------------------------------------
(* Properties *)

TypeOK ==
    /\ clock \in Nat
    /\ tx \in [Txs -> TxRecord]
    /\ version \in [Entities -> Nat]
    /\ outbox \subseteq Row
    /\ log \subseteq Entry
    /\ cursor \in Cursor
    /\ seqr \in [Sequencers -> SequencerRecord]
    /\ client \in [Consumers -> ClientRecord]
    /\ snapshot \in [version : [Entities -> Nat], outbox : SUBSET Row, log : SUBSET Entry,
                     cursor : Cursor, restored : BOOLEAN]

\* The log carries exactly the numbers 1 .. last_sequence, each once, whatever
\* callers of Sequence run together, abort or crash.
GapFree ==
    /\ {e.sequence : e \in log} = 1 .. cursor.last_sequence
    /\ \A e, f \in log : e.sequence = f.sequence => e = f

\* A staged row reaches the log once, and is marked exactly when it is there.
ExactlyOnce ==
    /\ \A r \in outbox : r.sequenced <=> \E e \in log : e.outbox_id = r.id
    /\ \A e, f \in log : e.outbox_id = f.outbox_id => e = f

\* A consumer never persists a cursor past an entry it has not applied, although
\* pages are read by two statements while sequencers commit between them, and a
\* database initialised anew counts from one again. A stream restored from a backup
\* is the exception (AcceptedIsSafe).
NoSkip ==
    ~snapshot.restored => \A c \in Consumers, e \in log :
        client[c].stream = cursor.stream_id /\ e.sequence <= client[c].after
            => e.outbox_id \in client[c].seen

\* Entries of one entity may be numbered against their version order (committed_at is
\* a start time), yet a consumer at the end of a drained feed holds every current version.
CaughtUpIsCurrent ==
    ~snapshot.restored => \A c \in Consumers :
        (client[c].stream = cursor.stream_id /\ client[c].after = cursor.last_sequence /\ Pending = {})
            => \A e \in Entities : version[e] > 0 => client[c].copy[e] = version[e]

\* Within one stream the log only grows, and only above its head, unless an operator
\* restores a backup: a page bounded by an earlier head can never gain an entry.
AppendOnly ==
    [][cursor'.stream_id = cursor.stream_id /\ ~RestoreBackup =>
          /\ log \subseteq log'
          /\ \A e \in log' \ log : e.sequence > cursor.last_sequence]_vars

\* The drain job eventually numbers every committed publication.
EventuallySequenced ==
    \A t \in Txs : tx[t].state = "committed" ~> \E e \in log : e.outbox_id = t

\* A consumer that keeps polling eventually holds the current projections.
EventuallyCurrent ==
    \A c \in Consumers : <>[](\A e \in Entities : version[e] > 0 => client[c].copy[e] = version[e])

\* docs/change-feed.md: "The endpoint returns 409 ... instead of an empty page when
\* continuing would be unsafe".  A request that is accepted continues safely.
AcceptedIsSafe ==
    \A c \in Consumers : client[c].pc = "reading" =>
        \A e \in log : e.sequence <= client[c].after => e.outbox_id \in client[c].seen

-----------------------------------------------------------------------------
(* The feed implements the abstract event feed, as long as no operator replaces *)
(* the database.                                                                *)
Numbered == [n \in 1 .. cursor.last_sequence |->
                (CHOOSE e \in log : e.sequence = n).outbox_id]

Abstract == INSTANCE EventFeed WITH
    Events <- Txs,
    Readers <- Consumers,
    published <- {r.id : r \in outbox},
    feed <- Numbered,
    position <- [c \in Consumers |-> client[c].after],
    given <- [c \in Consumers |-> client[c].seen]

\* Sequencing, paging, crashes and retries are steps of, or invisible to, the event feed.
ImplementsEventFeed == Abstract!Spec
=============================================================================
