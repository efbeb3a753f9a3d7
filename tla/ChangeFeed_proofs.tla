-------------------------- MODULE ChangeFeed_proofs --------------------------
(***************************************************************************)
(* Safety of the change feed for any number of publications, sequencers,    *)
(* consumers, restores and rebuilds.  The invariant describes, besides the  *)
(* committed tables and the backup of them, what the one transaction that   *)
(* holds the sequencer lock has staged.                                     *)
(***************************************************************************)
EXTENDS ChangeFeed, Sequences, FiniteSetTheorems, WellFoundedInduction, TLAPS

\* The committed tables are consistent: the log is numbered 1 .. last, a row is
\* marked exactly when it is logged, and ids are keys.
Consistent(o, l, last) ==
    /\ {e.sequence : e \in l} = 1 .. last
    /\ \A e, f \in l : e.sequence = f.sequence => e = f
    /\ \A e, f \in l : e.outbox_id = f.outbox_id => e = f
    /\ \A r \in o : r.sequenced <=> \E e \in l : e.outbox_id = r.id
    /\ \A e \in l : \E r \in o : e.outbox_id = r.id
    /\ \A r, q \in o : r.id = q.id => r = q
    /\ \A r \in o : tx[r.id].state = "committed"

\* At most one sequencer is past the lock.
Exclusive == \A s, o \in Sequencers : s # o => seqr[s].pc = "idle" \/ seqr[o].pc = "idle"

\* What a sequencer has read and staged agrees with the committed tables.
Local(s) ==
    /\ seqr[s].pc # "writing" => seqr[s].entries = {} /\ seqr[s].staged = {}
    /\ seqr[s].pc \in {"cursor", "writing"} => seqr[s].sequence >= cursor.last_sequence
    /\ seqr[s].pc = "cursor" => seqr[s].sequence = cursor.last_sequence
    /\ seqr[s].pc = "writing" =>
         /\ {e.sequence : e \in seqr[s].staged} = (cursor.last_sequence + 1) .. seqr[s].sequence
         /\ \A e, f \in seqr[s].staged : e.sequence = f.sequence => e = f
         /\ \A e, f \in seqr[s].staged : e.outbox_id = f.outbox_id => e = f
         /\ seqr[s].entries \subseteq Pending
         /\ \A e \in seqr[s].staged : \E r \in Pending \ seqr[s].entries : e.outbox_id = r.id

\* A request in flight works within the head it was answered with.
PageBounded ==
    \A c \in Consumers :
        /\ client[c].pc # "applying" => client[c].page = {}
        /\ \A e \in client[c].page : e.sequence \in 1 .. client[c].head

IInv ==
    /\ TypeOK
    /\ Consistent(outbox, log, cursor.last_sequence)
    /\ Consistent(snapshot.outbox, snapshot.log, snapshot.cursor.last_sequence)
    /\ Exclusive
    /\ \A s \in Sequencers : Local(s)
    /\ PageBounded
-----------------------------------------------------------------------------
\* A non-empty set of numbers below a bound has a greatest element: the MAX of
\* the head and the last entry of a page exist.
LEMMA MaxExists ==
    ASSUME NEW n \in Nat, NEW T, T \subseteq 1 .. n, T # {}
    PROVE  \E m \in T : \A x \in T : x <= m
<1> DEFINE D == {d \in Nat : n - d \in T}
<1>1. D \subseteq Nat /\ D # {}
  <2>1. PICK x \in T : TRUE
    OBVIOUS
  <2>2. n - x \in Nat /\ n - (n - x) = x
    BY <2>1
  <2> QED BY <2>1, <2>2
<1> DEFINE R == {p \in Nat \X Nat : p[1] < p[2]}
<1>2. IsWellFoundedOn(R, Nat)
  BY NatLessThanWellFounded, Zenon DEF OpToRel
<1>3. PICK d \in D : \A y \in D : ~(y < d)
  <2>1. PICK d \in D : \A y \in D : ~(<<y, d>> \in R)
    <3> HIDE DEF D, R
    <3> QED BY <1>1, <1>2, WFMin, Zenon
  <2> QED BY <2>1
<1>4. \A x \in T : x <= n - d
  <2> SUFFICES ASSUME NEW x \in T PROVE x <= n - d
    OBVIOUS
  <2>1. n - x \in Nat /\ n - (n - x) = x
    OBVIOUS
  <2>2. n - x \in D
    BY <2>1
  <2>3. ~(n - x < d)
    BY <1>3, <2>2
  <2> QED BY <2>1, <2>3
<1> QED BY <1>3, <1>4

\* In a consistent state the head of ReadPage is last_sequence.
LEMMA HeadIsLast ==
    ASSUME TypeOK, Consistent(outbox, log, cursor.last_sequence)
    PROVE  LogHead = cursor.last_sequence
<1> DEFINE T == {e.sequence : e \in log}
           n == cursor.last_sequence
<1>1. n \in Nat /\ T = 1 .. n
  BY DEF TypeOK, Cursor, Consistent
<1>2. CASE log = {}
  BY <1>1, <1>2 DEF LogHead
<1>3. CASE log # {}
  <2>1. n \in T /\ \A e \in log : e.sequence <= n
    BY <1>1, <1>3
  <2>2. \A m \in T : (\A e \in log : e.sequence <= m) => m = n
    BY <1>1, <2>1
  <2> QED BY <1>3, <2>1, <2>2 DEF LogHead
<1> QED BY <1>2, <1>3

\* The cursor a page returns is a number no smaller than the one it was asked from.
LEMMA NextCursorType ==
    ASSUME NEW head \in Nat, NEW after \in Nat, NEW page,
           \A e \in page : e.sequence \in 1 .. head
    PROVE  NextCursor(page, after) \in Nat
<1> DEFINE T == {e.sequence : e \in page}
<1>1. CASE page = {}
  BY <1>1 DEF NextCursor
<1>2. CASE page # {}
  <2>1. \E m \in T : \A x \in T : x <= m
    <3>1. T \subseteq 1 .. head /\ T # {}
      BY <1>2
    <3> HIDE DEF T
    <3> QED BY <3>1, MaxExists
  <2>2. PICK m \in T : \A e \in page : e.sequence <= m
    BY <2>1
  <2>3. NextCursor(page, after) \in T
    BY <1>2, <2>2 DEF NextCursor
  <2> QED BY <2>3
<1> QED BY <1>1, <1>2

-----------------------------------------------------------------------------
LEMMA InitInvariant == Init => IInv
<1> SUFFICES ASSUME Init PROVE IInv
  OBVIOUS
<1> USE ChangeFeedAssumption DEF Init, IdleTx, IdleSequencer, NoStream
<1>1. TypeOK
  BY DEF TypeOK, TxRecord, Row, Entry, Cursor, SequencerRecord, ClientRecord
<1>2. Consistent(outbox, log, cursor.last_sequence)
  BY DEF Consistent
<1>3. Consistent(snapshot.outbox, snapshot.log, snapshot.cursor.last_sequence)
  BY DEF Consistent
<1>4. Exclusive /\ PageBounded /\ \A s \in Sequencers : Local(s)
  BY DEF Exclusive, PageBounded, Local
<1> QED BY <1>1, <1>2, <1>3, <1>4 DEF IInv

\* Publications: the tables gain at most one fresh pending row.
LEMMA PublishStep ==
    ASSUME IInv, NEW t \in Txs,
           (\E e \in Entities : Begin(t, e)) \/ LockEntity(t) \/ Commit(t) \/ Rollback(t)
    PROVE  IInv'
<1> USE DEF IInv
<1>1. TypeOK'
  <2>1. CASE \E e \in Entities : Begin(t, e)
    BY <2>1 DEF Begin, TypeOK, TxRecord, database
  <2>2. CASE LockEntity(t)
    <3>1. tx[t].entity \in Entities /\ tx[t].start \in Nat
      BY <2>2 DEF LockEntity, TypeOK, TxRecord
    <3>2. tx' \in [Txs -> TxRecord]
      BY <2>2, <3>1 DEF LockEntity, TypeOK, TxRecord
    <3> QED BY <2>2, <3>2 DEF LockEntity, TypeOK, database
  <2>3. CASE Commit(t)
    <3>1. tx[t].entity \in Entities /\ tx[t].start \in Nat /\ tx[t].version \in Nat
      BY <2>3 DEF Commit, TypeOK, TxRecord
    <3>2. tx' \in [Txs -> TxRecord]
      BY <2>3 DEF Commit, TypeOK, TxRecord
    <3>3. version' \in [Entities -> Nat]
      BY <2>3, <3>1 DEF Commit, TypeOK
    <3>4. [id |-> t, entity |-> tx[t].entity, version |-> tx[t].version,
           committed_at |-> tx[t].start, sequenced |-> FALSE] \in Row
      BY <3>1 DEF Row
    <3>5. outbox' \subseteq Row
      BY <2>3, <3>4 DEF Commit, TypeOK
    <3> QED BY <2>3, <3>2, <3>3, <3>5 DEF Commit, TypeOK
  <2>4. CASE Rollback(t)
    BY <2>4 DEF Rollback, TypeOK, TxRecord, database
  <2> QED BY <2>1, <2>2, <2>3, <2>4
<1>2. \A u \in Txs : tx[u].state = "committed" => tx'[u].state = "committed"
  BY DEF Begin, LockEntity, Commit, Rollback, TypeOK
<1>3. UNCHANGED <<log, cursor, seqr, client, snapshot>>
  BY DEF Begin, LockEntity, Commit, Rollback, database
<1>4. \/ outbox' = outbox
      \/ /\ tx[t].state # "committed" /\ tx'[t].state = "committed"
         /\ \E r : outbox' = outbox \cup {r} /\ r.id = t /\ r.sequenced = FALSE
  <2>1. CASE Commit(t)
    <3> DEFINE row == [id |-> t, entity |-> tx[t].entity, version |-> tx[t].version,
                       committed_at |-> tx[t].start, sequenced |-> FALSE]
    <3>1. outbox' = outbox \cup {row} /\ row.id = t /\ row.sequenced = FALSE
      BY <2>1 DEF Commit
    <3>2. tx[t].state # "committed" /\ tx'[t].state = "committed"
      BY <2>1 DEF Commit, TypeOK
    <3> QED BY <3>1, <3>2
  <2>2. CASE (\E e \in Entities : Begin(t, e)) \/ LockEntity(t) \/ Rollback(t)
    BY <2>2 DEF Begin, LockEntity, Rollback, database
  <2> QED BY <2>1, <2>2
<1>5. Consistent(outbox, log, cursor.last_sequence)'
  <2>1. \A q \in outbox : q.id \in Txs /\ tx[q.id].state = "committed"
    BY DEF TypeOK, Row, Consistent
  <2>2. CASE outbox' = outbox
    BY <1>2, <1>3, <2>1, <2>2 DEF Consistent
  <2>3. CASE /\ tx[t].state # "committed" /\ tx'[t].state = "committed"
             /\ \E r : outbox' = outbox \cup {r} /\ r.id = t /\ r.sequenced = FALSE
    <3>1. PICK r : outbox' = outbox \cup {r} /\ r.id = t /\ r.sequenced = FALSE
      BY <2>3
    <3>2. \A q \in outbox : q.id # t
      BY <2>1, <2>3
    <3>3. \A f \in log : f.outbox_id # t
      BY <3>2 DEF Consistent
    <3>4. \A q \in outbox' : q.sequenced <=> \E f \in log : f.outbox_id = q.id
      BY <3>1, <3>3 DEF Consistent
    <3>5. \A q, p \in outbox' : q.id = p.id => q = p
      BY <3>1, <3>2 DEF Consistent
    <3>6. \A q \in outbox' : tx'[q.id].state = "committed"
      BY <3>1, <2>1, <2>3, <1>2
    <3>7. \A f \in log : \E q \in outbox' : f.outbox_id = q.id
      BY <3>1 DEF Consistent
    <3> QED BY <1>3, <3>4, <3>5, <3>6, <3>7 DEF Consistent
  <2> QED BY <1>4, <2>2, <2>3
<1>6. Consistent(snapshot.outbox, snapshot.log, snapshot.cursor.last_sequence)'
  <2>1. \A q \in snapshot.outbox : q.id \in Txs
    BY DEF TypeOK, Row
  <2> QED BY <1>2, <1>3, <2>1 DEF Consistent
<1>7. \A s \in Sequencers : Local(s)'
  <2>1. outbox \subseteq outbox'
    BY <1>4
  <2> QED BY <1>3, <2>1 DEF Local, Pending
<1>8. Exclusive' /\ PageBounded'
  BY <1>3 DEF Exclusive, PageBounded
<1> QED BY <1>1, <1>5, <1>6, <1>7, <1>8

\* A Sequence call before its commit changes only its own local state.
LEMMA SequencerLocalStep ==
    ASSUME IInv, NEW s \in Sequencers,
           AcquireLock(s) \/ ReadCursor(s) \/ SelectPending(s) \/ InsertEntry(s) \/ AbortSequence(s)
    PROVE  IInv'
<1>0. /\ TypeOK /\ Exclusive /\ PageBounded /\ \A o \in Sequencers : Local(o)
      /\ Consistent(outbox, log, cursor.last_sequence)
      /\ Consistent(snapshot.outbox, snapshot.log, snapshot.cursor.last_sequence)
  BY DEF IInv
<1>a. seqr \in [Sequencers -> SequencerRecord]
  BY <1>0 DEF TypeOK
<1>1. UNCHANGED <<clock, tx, version, outbox, log, cursor, client, snapshot>>
  BY DEF AcquireLock, ReadCursor, SelectPending, InsertEntry, AbortSequence, database
<1>2. \A o \in Sequencers \ {s} : seqr'[o] = seqr[o]
  BY <1>a DEF AcquireLock, ReadCursor, SelectPending, InsertEntry, AbortSequence, SequencerRecord
<1>3. /\ Consistent(outbox, log, cursor.last_sequence)'
      /\ Consistent(snapshot.outbox, snapshot.log, snapshot.cursor.last_sequence)'
      /\ PageBounded'
  BY <1>0, <1>1 DEF Consistent, PageBounded
<1>4. cursor.last_sequence \in Nat
  BY <1>0 DEF TypeOK, Cursor
<1>5. seqr[s].sequence \in Nat /\ seqr[s].staged \subseteq Entry /\ seqr[s].entries \subseteq Row
  BY <1>a DEF SequencerRecord
<1>6. seqr' \in [Sequencers -> SequencerRecord]
  <2>1. CASE AcquireLock(s)
    BY <2>1, <1>a DEF AcquireLock, SequencerRecord
  <2>2. CASE ReadCursor(s)
    BY <2>2, <1>a, <1>4 DEF ReadCursor, SequencerRecord
  <2>3. CASE SelectPending(s)
    <3>1. PICK q \in FirstRows(Pending) :
             seqr' = [seqr EXCEPT ![s].pc = "writing", ![s].entries = q]
      BY <2>3 DEF SelectPending
    <3>2. q \subseteq Row
      BY <3>1, <1>0 DEF FirstRows, Pending, TypeOK
    <3> QED BY <3>1, <3>2, <1>a DEF SequencerRecord
  <2>4. CASE InsertEntry(s)
    <3>1. PICK r \in seqr[s].entries :
             seqr' = [seqr EXCEPT
                ![s].sequence = @ + 1,
                ![s].entries = @ \ {r},
                ![s].staged = @ \cup {[sequence |-> seqr[s].sequence + 1, outbox_id |-> r.id,
                                       entity |-> r.entity, version |-> r.version]}]
      BY <2>4 DEF InsertEntry
    <3>2. [sequence |-> seqr[s].sequence + 1, outbox_id |-> r.id,
           entity |-> r.entity, version |-> r.version] \in Entry
      BY <1>5 DEF Entry, Row
    <3> QED BY <3>1, <3>2, <1>a DEF SequencerRecord
  <2>5. CASE AbortSequence(s)
    BY <2>5, <1>a DEF AbortSequence, IdleSequencer, SequencerRecord
  <2> QED BY <2>1, <2>2, <2>3, <2>4, <2>5
<1>7. TypeOK'
  BY <1>0, <1>1, <1>6 DEF TypeOK
<1>8. Exclusive'
  <2>1. seqr'[s].pc = "idle" \/ seqr[s].pc # "idle" \/ \A o \in Sequencers \ {s} : seqr[o].pc = "idle"
      BY <1>a DEF AcquireLock, ReadCursor, SelectPending, InsertEntry, AbortSequence, AdvisoryLockFree,
                IdleSequencer, SequencerRecord
  <2> QED BY <1>0, <1>2, <2>1 DEF Exclusive
<1>9. ASSUME NEW o \in Sequencers, o # s
      PROVE  Local(o)'
  BY <1>0, <1>1, <1>2, <1>9 DEF Local, Pending
<1>10. Local(s)'
  <2>1. CASE AcquireLock(s)
    BY <2>1, <1>0, <1>a, <1>1 DEF AcquireLock, Local, SequencerRecord
  <2>2. CASE ReadCursor(s)
    BY <2>2, <1>0, <1>a, <1>1, <1>4 DEF ReadCursor, Local, SequencerRecord
  <2>3. CASE SelectPending(s)
    <3>1. PICK q \in FirstRows(Pending) :
             seqr' = [seqr EXCEPT ![s].pc = "writing", ![s].entries = q]
      BY <2>3 DEF SelectPending
    <3>2. seqr[s].staged = {} /\ seqr[s].sequence = cursor.last_sequence
      BY <2>3, <1>0 DEF SelectPending, Local
    <3>3. seqr'[s] = [pc |-> "writing", sequence |-> cursor.last_sequence, entries |-> q, staged |-> {}]
      BY <3>1, <3>2, <1>a DEF SequencerRecord
    <3>4. q \subseteq Pending' /\ cursor' = cursor
      BY <1>1 DEF FirstRows, Pending
    <3> QED BY <3>3, <3>4, <1>4 DEF Local
  <2>4. CASE InsertEntry(s)
    <3>1. PICK r \in seqr[s].entries :
             seqr' = [seqr EXCEPT
                ![s].sequence = @ + 1,
                ![s].entries = @ \ {r},
                ![s].staged = @ \cup {[sequence |-> seqr[s].sequence + 1, outbox_id |-> r.id,
                                       entity |-> r.entity, version |-> r.version]}]
      BY <2>4 DEF InsertEntry
    <3> DEFINE new == [sequence |-> seqr[s].sequence + 1, outbox_id |-> r.id,
                       entity |-> r.entity, version |-> r.version]
    <3>3. new.sequence = seqr[s].sequence + 1 /\ new.outbox_id = r.id
      OBVIOUS
    <3>a. seqr' = [seqr EXCEPT ![s].sequence = @ + 1, ![s].entries = @ \ {r},
                               ![s].staged = @ \cup {new}]
      BY <3>1
    <3>b. seqr[s].pc = "writing"
      BY <2>4 DEF InsertEntry
    <3> HIDE DEF new
    <3>2. /\ seqr'[s].pc = "writing" /\ seqr[s].pc = "writing"
          /\ seqr'[s].sequence = seqr[s].sequence + 1
          /\ seqr'[s].entries = seqr[s].entries \ {r}
          /\ seqr'[s].staged = seqr[s].staged \cup {new}
      BY <3>a, <3>b, <1>a DEF SequencerRecord
    <3>4. /\ {e.sequence : e \in seqr[s].staged} = (cursor.last_sequence + 1) .. seqr[s].sequence
          /\ seqr[s].sequence >= cursor.last_sequence
          /\ \A e, f \in seqr[s].staged : e.sequence = f.sequence => e = f
          /\ \A e, f \in seqr[s].staged : e.outbox_id = f.outbox_id => e = f
          /\ seqr[s].entries \subseteq Pending
          /\ \A e \in seqr[s].staged : \E p \in Pending \ seqr[s].entries : e.outbox_id = p.id
      BY <1>0, <3>2 DEF Local
    <3>5. \A p, q \in Pending : p.id = q.id => p = q
      BY <1>0 DEF Consistent, Pending
    <3>6. \A e \in seqr[s].staged : e.outbox_id # r.id /\ e.sequence # seqr[s].sequence + 1
      BY <3>4, <3>5, <1>4, <1>5
    <3>7. {e.sequence : e \in seqr'[s].staged} = (cursor.last_sequence + 1) .. seqr'[s].sequence
      <4>1. {e.sequence : e \in seqr'[s].staged}
              = {e.sequence : e \in seqr[s].staged} \cup {seqr[s].sequence + 1}
        BY <3>2, <3>3
      <4> QED BY <4>1, <3>2, <3>4, <1>4, <1>5
    <3>8. /\ \A e, f \in seqr'[s].staged : e.sequence = f.sequence => e = f
          /\ \A e, f \in seqr'[s].staged : e.outbox_id = f.outbox_id => e = f
      BY <3>2, <3>3, <3>4, <3>6
    <3>9. \A e \in seqr'[s].staged : \E p \in Pending \ seqr'[s].entries : e.outbox_id = p.id
      BY <3>2, <3>3, <3>4
    <3>10. seqr'[s].sequence >= cursor.last_sequence /\ seqr'[s].entries \subseteq Pending
      BY <3>2, <3>4, <1>4, <1>5
    <3>11. Pending' = Pending /\ cursor' = cursor
      BY <1>1 DEF Pending
    <3> QED BY <3>2, <3>7, <3>8, <3>9, <3>10, <3>11 DEF Local
  <2>5. CASE AbortSequence(s)
    BY <2>5, <1>a, <1>1 DEF AbortSequence, IdleSequencer, Local, SequencerRecord
  <2> QED BY <2>1, <2>2, <2>3, <2>4, <2>5
<1> QED BY <1>3, <1>7, <1>8, <1>9, <1>10 DEF IInv

\* The commit of a Sequence call: staged entries continue the log, their rows are marked.
LEMMA CommitSequenceStep ==
    ASSUME IInv, NEW s \in Sequencers, CommitSequence(s)
    PROVE  IInv'
<1> DEFINE S == seqr[s].staged
           last == cursor.last_sequence
           n == seqr[s].sequence
           Mark(r) == [r EXCEPT !.sequenced = @ \/ r.id \in StagedIds(s)]
<1>0. /\ TypeOK /\ Exclusive /\ PageBounded /\ \A o \in Sequencers : Local(o)
      /\ Consistent(outbox, log, last)
      /\ Consistent(snapshot.outbox, snapshot.log, snapshot.cursor.last_sequence)
  BY DEF IInv
<1>1. /\ seqr \in [Sequencers -> SequencerRecord] /\ cursor \in Cursor
      /\ outbox \subseteq Row /\ log \subseteq Entry
  BY <1>0 DEF TypeOK
<1>2. last \in Nat /\ n \in Nat /\ S \subseteq Entry
  BY <1>1 DEF SequencerRecord, Cursor
<1>3. /\ log' = log \cup S
      /\ outbox' = {Mark(r) : r \in outbox}
      /\ seqr' = [seqr EXCEPT ![s] = IdleSequencer]
      /\ UNCHANGED <<clock, tx, version, client, snapshot>>
      /\ seqr[s].pc = "writing" /\ seqr[s].entries = {}
  BY DEF CommitSequence, MarkSequenced
<1>4. /\ {e.sequence : e \in S} = (last + 1) .. n
      /\ n >= last
      /\ \A e, f \in S : e.sequence = f.sequence => e = f
      /\ \A e, f \in S : e.outbox_id = f.outbox_id => e = f
      /\ \A e \in S : \E r \in Pending : e.outbox_id = r.id
  BY <1>0, <1>3 DEF Local
<1>5. cursor' \in Cursor /\ cursor'.last_sequence = n
  <2>1. CASE S = {}
    <3>1. n = last
      BY <1>2, <1>4, <2>1
    <3> QED BY <1>1, <2>1, <3>1 DEF CommitSequence
  <2>2. CASE S # {}
    BY <1>1, <1>2, <2>2 DEF CommitSequence, Cursor
  <2> QED BY <2>1, <2>2
<1>6. \A r \in outbox : /\ Mark(r) \in Row /\ Mark(r).id = r.id
                        /\ Mark(r).sequenced <=> (r.sequenced \/ \E e \in S : e.outbox_id = r.id)
  BY <1>1 DEF Row, StagedIds
<1> HIDE DEF Mark
<1>7. TypeOK'
  <2>1. seqr' \in [Sequencers -> SequencerRecord]
    BY <1>1, <1>3 DEF IdleSequencer, SequencerRecord
  <2>2. outbox' \subseteq Row /\ log' \subseteq Entry
    BY <1>1, <1>2, <1>3, <1>6
  <2> QED BY <1>0, <1>3, <1>5, <2>1, <2>2 DEF TypeOK
<1>8. Consistent(outbox, log, last)'
  <2>1. {e.sequence : e \in log'} = 1 .. n
    <3>1. {e.sequence : e \in log'} = {e.sequence : e \in log} \cup {e.sequence : e \in S}
      BY <1>3
    <3>2. {e.sequence : e \in log} = 1 .. last
      BY <1>0 DEF Consistent
    <3> QED BY <3>1, <3>2, <1>2, <1>4
  <2>2. \A e \in log, f \in S : e.sequence < f.sequence
    <3>1. \A e \in log : e.sequence \in 1 .. last
      BY <1>0 DEF Consistent
    <3>2. \A f \in S : f.sequence \in (last + 1) .. n
      BY <1>4
    <3> QED BY <3>1, <3>2, <1>2
  <2>3. \A e, f \in log' : e.sequence = f.sequence => e = f
    BY <1>0, <1>1, <1>2, <1>3, <1>4, <2>2 DEF Consistent, Entry
  <2>4. \A e \in log, f \in S : e.outbox_id # f.outbox_id
    BY <1>0, <1>4 DEF Consistent, Pending
  <2>5. \A e, f \in log' : e.outbox_id = f.outbox_id => e = f
    BY <1>0, <1>3, <1>4, <2>4 DEF Consistent
  <2>6. \A q \in outbox' : q.sequenced <=> \E e \in log' : e.outbox_id = q.id
    <3> SUFFICES ASSUME NEW r \in outbox
                 PROVE  Mark(r).sequenced <=> \E e \in log \cup S : e.outbox_id = Mark(r).id
      BY <1>3
    <3>1. r.sequenced <=> \E e \in log : e.outbox_id = r.id
      BY <1>0 DEF Consistent
    <3> QED BY <1>6, <3>1
  <2>7. \A e \in log' : \E q \in outbox' : e.outbox_id = q.id
    BY <1>0, <1>3, <1>4, <1>6 DEF Consistent, Pending
  <2>8. \A p, q \in outbox' : p.id = q.id => p = q
    BY <1>0, <1>3, <1>6 DEF Consistent
  <2>9. \A q \in outbox' : tx'[q.id].state = "committed"
    BY <1>0, <1>3, <1>6 DEF Consistent
  <2> QED BY <1>5, <2>1, <2>3, <2>5, <2>6, <2>7, <2>8, <2>9 DEF Consistent
<1>9. Consistent(snapshot.outbox, snapshot.log, snapshot.cursor.last_sequence)'
  BY <1>0, <1>3 DEF Consistent
<1>10. Exclusive'
  BY <1>0, <1>1, <1>3 DEF Exclusive, IdleSequencer
<1>11. \A o \in Sequencers : Local(o)'
  <2>1. Local(s)'
    BY <1>1, <1>3 DEF Local, IdleSequencer
  <2>2. ASSUME NEW o \in Sequencers, o # s PROVE Local(o)'
    <3>1. seqr[o].pc = "idle" /\ seqr'[o] = seqr[o]
      BY <1>0, <1>1, <1>3, <2>2 DEF Exclusive
    <3>2. seqr[o].entries = {} /\ seqr[o].staged = {}
      BY <1>0, <3>1 DEF Local
    <3> QED BY <3>1, <3>2 DEF Local
  <2> QED BY <2>1, <2>2
<1>12. PageBounded'
  BY <1>0, <1>3 DEF PageBounded
<1> QED BY <1>7, <1>8, <1>9, <1>10, <1>11, <1>12 DEF IInv

\* Consumers only read the database.
LEMMA ConsumerStep ==
    ASSUME IInv, NEW c \in Consumers, Poll(c) \/ DropPage(c)
    PROVE  IInv'
<1>0. /\ TypeOK /\ Exclusive /\ PageBounded /\ \A o \in Sequencers : Local(o)
      /\ Consistent(outbox, log, cursor.last_sequence)
      /\ Consistent(snapshot.outbox, snapshot.log, snapshot.cursor.last_sequence)
  BY DEF IInv
<1>1. UNCHANGED <<clock, tx, version, outbox, log, cursor, seqr, snapshot>>
  BY DEF Poll, ReadMetadata, Conflict, ReadEntries, ApplyPage, DropPage, database
<1>2. /\ client \in [Consumers -> ClientRecord] /\ cursor.stream_id \in Nat
      /\ version \in [Entities -> Nat] /\ log \subseteq Entry
  BY <1>0 DEF TypeOK, Cursor
<1>3. LogHead \in Nat /\ LogHead = cursor.last_sequence
  BY <1>0, HeadIsLast DEF TypeOK, Cursor
<1>4. /\ client' \in [Consumers -> ClientRecord]
      /\ client'[c].pc # "applying" => client'[c].page = {}
      /\ \A e \in client'[c].page : e.sequence \in 1 .. client'[c].head
  <2> DEFINE k == client[c]
  <2>0. /\ k \in ClientRecord /\ \A e \in k.page : e.sequence \in 1 .. k.head
        /\ k.pc # "applying" => k.page = {}
    BY <1>0, <1>2 DEF PageBounded
  <2>1. CASE ReadMetadata(c)
    BY <2>0, <2>1, <1>2, <1>3 DEF ReadMetadata, ClientRecord
  <2>2. CASE Conflict(c)
    BY <2>0, <2>2, <1>2 DEF Conflict, ClientRecord
  <2>3. CASE ReadEntries(c)
    <3>1. /\ PageRows(k.after, k.head) \subseteq log
          /\ \A e \in PageRows(k.after, k.head) : e.sequence > k.after /\ e.sequence <= k.head
      BY DEF PageRows
    <3>2. \A e \in PageRows(k.after, k.head) : e.sequence \in 1 .. k.head
      BY <2>0, <3>1, <1>2 DEF ClientRecord, Entry
    <3> HIDE DEF k
    <3> QED BY <2>0, <2>3, <3>1, <3>2, <1>2 DEF k, ReadEntries, ClientRecord
  <2>4. CASE ApplyPage(c)
    <3>1. NextCursor(k.page, k.after) \in Nat
      BY <2>0, NextCursorType DEF ClientRecord
    <3>2. {e.outbox_id : e \in k.page} \subseteq Txs
      BY <2>0 DEF ClientRecord, Entry
    <3>3. \A ch : [e \in Entities |-> IF e \in ch THEN version[e] ELSE k.copy[e]] \in [Entities -> Nat]
      BY <2>0, <1>2 DEF ClientRecord
    <3> DEFINE seen == k.seen \cup {e.outbox_id : e \in k.page}
               copy == [e \in Entities |-> IF e \in {f.entity : f \in k.page} THEN version[e] ELSE k.copy[e]]
               next == NextCursor(k.page, k.after)
    <3>4. client' = [client EXCEPT ![c] = [k EXCEPT
              !.pc = "idle", !.reply = 0, !.page = {}, !.head = 0, !.stream = k.reply,
              !.after = next, !.seen = seen, !.copy = copy]]
      BY <2>4, <1>2 DEF ApplyPage, NoStream
    <3>5. seen \in SUBSET Txs /\ copy \in [Entities -> Nat] /\ next \in Nat
      BY <2>0, <3>1, <3>2, <3>3 DEF ClientRecord
    <3> HIDE DEF k, seen, copy, next
    <3> QED BY <2>0, <3>4, <3>5, <1>2 DEF ClientRecord
  <2>5. CASE DropPage(c)
    BY <2>0, <2>5, <1>2 DEF DropPage, ClientRecord, NoStream
  <2> QED BY <2>1, <2>2, <2>3, <2>4, <2>5 DEF Poll
<1>5. \A d \in Consumers \ {c} : client'[d] = client[d]
  BY <1>2 DEF Poll, ReadMetadata, Conflict, ReadEntries, ApplyPage, DropPage
<1>6. PageBounded'
  BY <1>0, <1>4, <1>5 DEF PageBounded
<1>7. TypeOK'
  BY <1>0, <1>1, <1>4 DEF TypeOK
<1>8. /\ Consistent(outbox, log, cursor.last_sequence)'
      /\ Consistent(snapshot.outbox, snapshot.log, snapshot.cursor.last_sequence)'
      /\ Exclusive' /\ \A o \in Sequencers : Local(o)'
  BY <1>0, <1>1 DEF Consistent, Exclusive, Local, Pending
<1> QED BY <1>6, <1>7, <1>8 DEF IInv

\* Backups, restores and rebuilds replace the tables by consistent ones.
LEMMA OperatorStep ==
    ASSUME IInv, TakeBackup \/ RestoreBackup \/ Rebuild
    PROVE  IInv'
<1>0. /\ TypeOK /\ Exclusive /\ PageBounded /\ \A o \in Sequencers : Local(o)
      /\ Consistent(outbox, log, cursor.last_sequence)
      /\ Consistent(snapshot.outbox, snapshot.log, snapshot.cursor.last_sequence)
  BY DEF IInv
<1>1. CASE TakeBackup
  <2>1. /\ snapshot'.version = version /\ snapshot'.outbox = outbox /\ snapshot'.log = log
        /\ snapshot'.cursor = cursor
        /\ UNCHANGED <<clock, tx, version, outbox, log, cursor, seqr, client>>
    BY <1>1 DEF TakeBackup, database
  <2>2. TypeOK'
    BY <1>0, <1>1, <2>1 DEF TakeBackup, TypeOK
  <2>3. /\ Consistent(outbox, log, cursor.last_sequence)'
        /\ Consistent(snapshot.outbox, snapshot.log, snapshot.cursor.last_sequence)'
    BY <1>0, <2>1 DEF Consistent
  <2> QED BY <1>0, <2>1, <2>2, <2>3 DEF IInv, Exclusive, PageBounded, Local, Pending
<1>2. ASSUME DropConnections
      PROVE  /\ tx' \in [Txs -> TxRecord]
             /\ \A t \in Txs : tx[t].state = "committed" => tx'[t].state = "committed"
             /\ seqr' \in [Sequencers -> SequencerRecord] /\ Exclusive' /\ \A o \in Sequencers : Local(o)'
             /\ client' \in [Consumers -> ClientRecord] /\ PageBounded'
  <2>1. tx' \in [Txs -> TxRecord] /\ \A t \in Txs : tx[t].state = "committed" => tx'[t].state = "committed"
    BY <1>0, <1>2 DEF DropConnections, TypeOK, TxRecord
  <2>2. seqr' = [o \in Sequencers |-> IdleSequencer]
    BY <1>2 DEF DropConnections
  <2>3. client' \in [Consumers -> ClientRecord] /\ PageBounded'
    <3> SUFFICES ASSUME NEW c \in Consumers
                 PROVE  /\ client'[c] \in ClientRecord
                        /\ client'[c].pc # "applying" => client'[c].page = {}
                        /\ \A e \in client'[c].page : e.sequence \in 1 .. client'[c].head
      BY <1>2 DEF DropConnections, PageBounded
    <3>1. client[c] \in ClientRecord
      BY <1>0 DEF TypeOK
    <3> QED BY <1>0, <1>2, <3>1 DEF DropConnections, PageBounded, ClientRecord, NoStream
  <2> QED BY <2>1, <2>2, <2>3 DEF IdleSequencer, SequencerRecord, Exclusive, Local
<1>3. CASE RestoreBackup
  <2>1. DropConnections
    BY <1>3 DEF RestoreBackup
  <2>2. /\ version' = snapshot.version /\ outbox' = snapshot.outbox /\ log' = snapshot.log
        /\ cursor' = snapshot.cursor /\ clock' = clock
        /\ snapshot' = [snapshot EXCEPT !.restored = TRUE]
    BY <1>3 DEF RestoreBackup
  <2>6. /\ snapshot'.version = snapshot.version /\ snapshot'.outbox = snapshot.outbox
        /\ snapshot'.log = snapshot.log /\ snapshot'.cursor = snapshot.cursor
        /\ snapshot' \in [version : [Entities -> Nat], outbox : SUBSET Row, log : SUBSET Entry,
                           cursor : Cursor, restored : BOOLEAN]
    BY <1>0, <2>2 DEF TypeOK
  <2>3. TypeOK'
    BY <1>0, <1>2, <2>1, <2>2, <2>6 DEF TypeOK
  <2>4. \A q \in snapshot.outbox : q.id \in Txs
    BY <1>0 DEF TypeOK, Row
  <2>5. /\ Consistent(outbox, log, cursor.last_sequence)'
        /\ Consistent(snapshot.outbox, snapshot.log, snapshot.cursor.last_sequence)'
    BY <1>0, <1>2, <2>1, <2>2, <2>4, <2>6 DEF Consistent
  <2> QED BY <1>2, <2>1, <2>3, <2>5 DEF IInv
<1>4. CASE Rebuild
  <2>1. DropConnections
    BY <1>4 DEF Rebuild
  <2>2. /\ version' = [e \in Entities |-> 0] /\ outbox' = {} /\ log' = {}
        /\ cursor' = [stream_id |-> cursor.stream_id + 1, last_sequence |-> 0]
        /\ snapshot' = [version |-> version', outbox |-> outbox', log |-> log', cursor |-> cursor',
                        restored |-> FALSE]
        /\ clock' = clock
    BY <1>4 DEF Rebuild
  <2>3. version' \in [Entities -> Nat] /\ cursor' \in Cursor
    BY <1>0, <2>2 DEF TypeOK, Cursor
  <2>4. TypeOK'
    BY <1>0, <1>2, <2>1, <2>2, <2>3 DEF TypeOK
  <2>5. /\ Consistent(outbox, log, cursor.last_sequence)'
        /\ Consistent(snapshot.outbox, snapshot.log, snapshot.cursor.last_sequence)'
    BY <2>2 DEF Consistent
  <2> QED BY <1>2, <2>1, <2>4, <2>5 DEF IInv
<1> QED BY <1>1, <1>3, <1>4

LEMMA InductiveStep == IInv /\ [Next]_vars => IInv'
<1> SUFFICES ASSUME IInv, [Next]_vars PROVE IInv'
  OBVIOUS
<1>1. CASE Publish
  <2>2. PICK t \in Txs : (\E e \in Entities : Begin(t, e)) \/ LockEntity(t) \/ Commit(t) \/ Rollback(t)
    BY <1>1 DEF Publish
  <2> QED BY <2>2, PublishStep
<1>2. CASE \E s \in Sequencers : Sequence(s) \/ AbortSequence(s)
  BY <1>2, SequencerLocalStep, CommitSequenceStep DEF Sequence
<1>3. CASE \E c \in Consumers : Poll(c) \/ DropPage(c)
  BY <1>3, ConsumerStep
<1>4. CASE TakeBackup \/ RestoreBackup \/ Rebuild
  BY <1>4, OperatorStep
<1>5. CASE UNCHANGED vars
  BY <1>5 DEF vars, database, IInv, TypeOK, Consistent, Exclusive, Local, Pending, PageBounded
<1> QED BY <1>1, <1>2, <1>3, <1>4, <1>5 DEF Next

\* The inductive invariant holds in every reachable state.
THEOREM Invariance == Spec => []IInv
BY InitInvariant, InductiveStep, PTL DEF Spec

-----------------------------------------------------------------------------
\* Every reachable state is well typed: tables, transactions, requests and backups.
THEOREM TypeSafety == Spec => []TypeOK
<1>1. IInv => TypeOK
  BY DEF IInv
<1> QED BY <1>1, Invariance, PTL

\* The numbering of Sequence is gap-free and without duplicates for any number of
\* concurrent callers, aborts, restores and rebuilds.
THEOREM GapFreeSafety == Spec => []GapFree
<1>1. IInv => GapFree
  BY DEF IInv, Consistent, GapFree
<1> QED BY <1>1, Invariance, PTL

\* No outbox row is numbered twice or lost by a sequencer that aborts between its writes.
THEOREM ExactlyOnceSafety == Spec => []ExactlyOnce
<1>1. IInv => ExactlyOnce
  BY DEF IInv, Consistent, ExactlyOnce
<1> QED BY <1>1, Invariance, PTL

-----------------------------------------------------------------------------
(* What consumers may rely on, for any number of them: the log only grows   *)
(* above its head, and a persisted cursor has passed nothing that was not    *)
(* applied. A page is read by two statements, so the proof is about requests *)
(* in flight: the page is a prefix of what lies beyond the cursor, and later *)
(* entries lie beyond the head it was bounded by.                            *)

\* A backup is one of the current stream, and nobody knows a stream to come.
KnownStreams ==
    /\ snapshot.cursor.stream_id = cursor.stream_id /\ cursor.stream_id >= 1
    /\ \A c \in Consumers : client[c].stream <= cursor.stream_id /\ client[c].reply <= cursor.stream_id

\* A consumer starts at zero, and a request is answered by the stream it names, if any.
Position(c) ==
    /\ client[c].stream = NoStream => client[c].after = 0
    /\ client[c].pc # "idle" => client[c].reply # NoStream /\ client[c].stream \in {NoStream, client[c].reply}

\* Its cursor is one the log has reached.
Behind(c) ==
    ~snapshot.restored /\ client[c].stream = cursor.stream_id => client[c].after <= cursor.last_sequence

\* A request in flight, answered by the current stream, has a head the log has reached,
\* and its page skips nothing.
PageIsPrefix(c) ==
    ~snapshot.restored /\ client[c].pc # "idle" /\ client[c].reply = cursor.stream_id =>
        /\ client[c].head <= cursor.last_sequence
        /\ \A e \in log, f \in client[c].page :
              client[c].after < e.sequence /\ e.sequence <= f.sequence => e \in client[c].page

DInv ==
    /\ KnownStreams
    /\ \A c \in Consumers : Position(c) /\ Behind(c) /\ PageIsPrefix(c)
    /\ NoSkip

-----------------------------------------------------------------------------
(* The log *)

\* What a commit of the sequencer adds lies beyond the head.
LEMMA CommitAppends ==
    ASSUME IInv, NEW s \in Sequencers, CommitSequence(s)
    PROVE  /\ log \subseteq log' /\ \A e \in log' \ log : e.sequence > cursor.last_sequence
           /\ cursor'.stream_id = cursor.stream_id /\ cursor'.last_sequence >= cursor.last_sequence
<1> DEFINE last == cursor.last_sequence
           n == seqr[s].sequence
<1>1. /\ Local(s) /\ seqr[s].pc = "writing" /\ log' = log \cup seqr[s].staged
      /\ last \in Nat /\ n \in Nat /\ cursor \in Cursor
  BY DEF IInv, TypeOK, Cursor, SequencerRecord, CommitSequence
<1>2. {e.sequence : e \in seqr[s].staged} = (last + 1) .. n /\ n >= last
  BY <1>1 DEF Local
<1>3. \A e \in seqr[s].staged : e.sequence > last
  <2> SUFFICES ASSUME NEW e \in seqr[s].staged PROVE e.sequence > last
    OBVIOUS
  <2>1. e.sequence \in (last + 1) .. n
    BY <1>2
  <2> QED BY <1>1, <2>1
<1>4. cursor'.stream_id = cursor.stream_id /\ cursor'.last_sequence >= last
  BY <1>1, <1>2 DEF CommitSequence, Cursor
<1> QED BY <1>1, <1>3, <1>4

\* Who else leaves the log, the cursor and the consumers alone.
LEMMA OthersKeep ==
    ASSUME \/ Publish \/ TakeBackup
           \/ \E s \in Sequencers : \/ AcquireLock(s) \/ ReadCursor(s) \/ SelectPending(s) \/ InsertEntry(s)
                                    \/ AbortSequence(s)
    PROVE  UNCHANGED <<log, cursor, client>>
BY DEF Publish, Begin, LockEntity, Commit, Rollback, TakeBackup, AcquireLock, ReadCursor, SelectPending,
       InsertEntry, AbortSequence, database

LEMMA ConsumersKeep ==
    ASSUME NEW c \in Consumers, Poll(c) \/ DropPage(c)
    PROVE  UNCHANGED <<log, cursor, snapshot>>
BY DEF Poll, DropPage, ReadMetadata, Conflict, ReadEntries, ApplyPage, database

LEMMA AppendStep ==
    ASSUME IInv, [Next]_vars, cursor'.stream_id = cursor.stream_id, ~RestoreBackup
    PROVE  /\ log \subseteq log'
           /\ \A e \in log' \ log : e.sequence > cursor.last_sequence
<1>1. CASE \E s \in Sequencers : CommitSequence(s)
  BY <1>1, CommitAppends
<1>2. CASE Rebuild
  <2>1. cursor.stream_id \in Nat
    BY DEF IInv, TypeOK, Cursor
  <2> QED BY <1>2, <2>1 DEF Rebuild
<1>3. ASSUME log' = log PROVE log \subseteq log' /\ \A e \in log' \ log : e.sequence > cursor.last_sequence
  BY <1>3
<1>4. CASE UNCHANGED vars
  BY <1>3, <1>4 DEF vars, database
<1>5. CASE \E c \in Consumers : Poll(c) \/ DropPage(c)
  BY <1>3, <1>5, ConsumersKeep
<1>6. CASE \/ Publish \/ TakeBackup
           \/ \E s \in Sequencers : \/ AcquireLock(s) \/ ReadCursor(s) \/ SelectPending(s) \/ InsertEntry(s)
                                    \/ AbortSequence(s)
  BY <1>3, <1>6, OthersKeep
<1> QED BY <1>1, <1>2, <1>4, <1>5, <1>6 DEF Next, Sequence

\* Within one stream the log only grows, and only above its head, unless an operator
\* restores a backup (changelog.Sequence, internal/changelog/sequence.go).
THEOREM AppendOnlySafety == Spec => AppendOnly
<1>1. IInv /\ [Next]_vars =>
        [cursor'.stream_id = cursor.stream_id /\ ~RestoreBackup =>
           /\ log \subseteq log'
           /\ \A e \in log' \ log : e.sequence > cursor.last_sequence]_vars
  BY AppendStep
<1> QED BY <1>1, Invariance, PTL DEF Spec, AppendOnly

-----------------------------------------------------------------------------
(* Pages and cursors *)

LEMMA InitDInv == Init => DInv
BY DEF Init, DInv, KnownStreams, Position, Behind, PageIsPrefix, NoSkip, NoStream

\* The rows before an entry of a full page are in the page.
LEMMA PageSkipsNothing ==
    ASSUME IInv, NEW after \in Nat, NEW head \in Nat,
           NEW e \in log, NEW f \in PageRows(after, head), after < e.sequence, e.sequence <= f.sequence
    PROVE  e \in PageRows(after, head)
<1> DEFINE rows == {r \in log : r.sequence > after /\ r.sequence <= head}
           Before(r) == {o \in rows : o.sequence < r.sequence}
<1>1. \A r \in log : r.sequence \in Nat
  BY DEF IInv, TypeOK, Entry
<1>2. f \in rows /\ Cardinality(Before(f)) < Limit
  BY DEF PageRows
<1>3. e \in rows
  BY <1>1, <1>2
<1>4. IsFiniteSet(rows)
  <2>1. IsFiniteSet(log)
    <3> DEFINE last == cursor.last_sequence
    <3>1. last \in Nat /\ {r.sequence : r \in log} = 1 .. last /\ \A r, q \in log : r.sequence = q.sequence => r = q
      BY DEF IInv, TypeOK, Cursor, Consistent
    <3>2. IsFiniteSet(1 .. last)
      BY <3>1, FS_Interval
    <3> DEFINE g == [r \in log |-> r.sequence]
    <3>3. g \in Injection(log, 1 .. last)
      <4>1. \A r \in log : r.sequence \in 1 .. last
        BY <3>1
      <4>2. g \in [log -> 1 .. last] /\ \A r, q \in log : g[r] = g[q] => r = q
        BY <3>1, <4>1
      <4> HIDE DEF g
      <4> QED BY <4>2 DEF Injection, IsInjective
    <3> HIDE DEF g
    <3> QED BY <3>2, <3>3, FS_Injection DEF ExistsInjection
  <2> QED BY <2>1, FS_Subset
<1>5. Before(e) \subseteq Before(f) /\ Before(f) \subseteq rows
  BY <1>1, <1>2, <1>3
<1>6. IsFiniteSet(Before(f)) /\ Cardinality(Before(e)) <= Cardinality(Before(f)) /\ Cardinality(Before(e)) \in Nat
      /\ Cardinality(Before(f)) \in Nat
  <2>1. IsFiniteSet(Before(f))
    BY <1>4, <1>5, FS_Subset
  <2> HIDE DEF Before
  <2>2. IsFiniteSet(Before(e)) /\ Cardinality(Before(e)) <= Cardinality(Before(f))
    BY <1>5, <2>1, FS_Subset
  <2> QED BY <2>1, <2>2, FS_CardinalityType
<1>7. Limit \in Nat
  BY ChangeFeedAssumption
<1>8. Cardinality(Before(e)) < Limit
  <2> HIDE DEF Before
  <2> QED BY <1>2, <1>6, <1>7
<1> QED BY <1>3, <1>8 DEF PageRows

\* Entries beyond the head of a request do not concern it.
LEMMA LogGrows ==
    ASSUME IInv, DInv, client' = client, snapshot' = snapshot,
           log \subseteq log', \A e \in log' \ log : e.sequence > cursor.last_sequence,
           log' \subseteq Entry,
           cursor'.stream_id = cursor.stream_id, cursor'.last_sequence \in Nat,
           cursor'.last_sequence >= cursor.last_sequence
    PROVE  DInv'
<1>0. /\ KnownStreams /\ NoSkip /\ PageBounded /\ cursor.last_sequence \in Nat
      /\ client \in [Consumers -> ClientRecord] /\ log \subseteq Entry
      /\ \A c \in Consumers : Position(c) /\ Behind(c) /\ PageIsPrefix(c) /\ client[c].after \in Nat /\ client[c].head \in Nat
      /\ \A e \in log' : e.sequence \in Nat
  BY DEF IInv, DInv, TypeOK, Cursor, ClientRecord, Entry
<1>1. KnownStreams' /\ \A c \in Consumers : Position(c)' /\ Behind(c)'
  BY <1>0 DEF KnownStreams, Position, Behind
<1>2. ASSUME NEW c \in Consumers PROVE PageIsPrefix(c)'
  <2> SUFFICES ASSUME ~snapshot.restored, client[c].pc # "idle", client[c].reply = cursor.stream_id
               PROVE  /\ client[c].head <= cursor'.last_sequence
                      /\ \A e \in log', f \in client[c].page :
                            client[c].after < e.sequence /\ e.sequence <= f.sequence => e \in client[c].page
    BY DEF PageIsPrefix
  <2>1. client[c].head <= cursor.last_sequence
    BY <1>0 DEF PageIsPrefix
  <2>2. ASSUME NEW e \in log', NEW f \in client[c].page, client[c].after < e.sequence, e.sequence <= f.sequence
        PROVE  e \in client[c].page
    <3>1. f.sequence \in 1 .. client[c].head
      BY <1>0 DEF PageBounded
    <3>2. e.sequence <= cursor.last_sequence
      BY <1>0, <2>1, <2>2, <3>1
    <3>3. e \in log
      BY <1>0, <3>2
    <3> QED BY <1>0, <2>2, <3>3 DEF PageIsPrefix
  <2> QED BY <1>0, <2>1, <2>2
<1>3. ASSUME ~snapshot.restored, NEW c \in Consumers, NEW e \in log',
             client[c].stream = cursor.stream_id, e.sequence <= client[c].after
      PROVE  e.outbox_id \in client[c].seen
  <2>1. CASE e \in log
    BY <1>0, <1>3, <2>1 DEF NoSkip
  <2>2. CASE e \notin log
    BY <1>0, <1>3, <2>2 DEF Behind
  <2> QED BY <2>1, <2>2
<1>4. NoSkip'
  BY <1>3 DEF NoSkip
<1> QED BY <1>1, <1>2, <1>4 DEF DInv

\* The log, the cursor and the backup stay, and so do all consumers but one.
LEMMA ConsumerKeeps ==
    ASSUME IInv, IInv', DInv, NEW c \in Consumers, Poll(c) \/ DropPage(c)
    PROVE  DInv'
<1> DEFINE k == client[c]
<1>0. /\ KnownStreams /\ NoSkip /\ PageBounded /\ cursor \in Cursor /\ LogHead = cursor.last_sequence
      /\ client \in [Consumers -> ClientRecord] /\ k \in ClientRecord
      /\ Position(c) /\ Behind(c) /\ PageIsPrefix(c)
      /\ k.after \in Nat /\ k.head \in Nat /\ k.stream \in Nat /\ cursor.last_sequence \in Nat
      /\ cursor.stream_id \in Nat /\ cursor.stream_id >= 1
      /\ (k.pc # "applying" => k.page = {}) /\ \A e \in k.page : e.sequence \in 1 .. k.head
      /\ \A e \in log : e.sequence \in 1 .. cursor.last_sequence
  BY HeadIsLast DEF IInv, DInv, TypeOK, Cursor, ClientRecord, KnownStreams, PageBounded, Consistent
<1>1. UNCHANGED <<log, cursor, snapshot>>
  BY ConsumersKeep
<1>2. \A d \in Consumers \ {c} : client'[d] = client[d]
  BY <1>0 DEF Poll, DropPage, ReadMetadata, Conflict, ReadEntries, ApplyPage
<1>3. SUFFICES /\ client'[c].stream <= cursor.stream_id /\ client'[c].reply <= cursor.stream_id
               /\ Position(c)' /\ Behind(c)' /\ PageIsPrefix(c)'
               /\ ~snapshot.restored /\ client'[c].stream = cursor.stream_id =>
                     \A e \in log : e.sequence <= client'[c].after => e.outbox_id \in client'[c].seen
  BY <1>0, <1>1, <1>2 DEF DInv, KnownStreams, Position, Behind, PageIsPrefix, NoSkip
<1>4. k.stream <= cursor.stream_id /\ k.reply <= cursor.stream_id
  BY <1>0 DEF KnownStreams
<1>5. ~snapshot.restored /\ k.stream = cursor.stream_id =>
          \A e \in log : e.sequence <= k.after => e.outbox_id \in k.seen
  BY <1>0 DEF NoSkip
<1>6. CASE ReadMetadata(c)
  <2>1. /\ client'[c].pc = "reading" /\ client'[c].reply = cursor.stream_id /\ client'[c].head = LogHead
        /\ client'[c].stream = k.stream /\ client'[c].after = k.after /\ client'[c].seen = k.seen
        /\ client'[c].page = {}
    BY <1>0, <1>6 DEF ReadMetadata, ClientRecord
  <2>2. k.stream = NoStream \/ k.stream = cursor.stream_id
    BY <1>6 DEF ReadMetadata, ValidateCursor
  <2> QED BY <1>0, <1>1, <1>4, <1>5, <2>1, <2>2 DEF Position, Behind, PageIsPrefix, NoStream
<1>7. CASE Conflict(c)
  <2>1. /\ client'[c].pc = "idle" /\ client'[c].reply = k.reply /\ client'[c].after = 0
        /\ client'[c].stream = cursor.stream_id /\ client'[c].seen = k.seen
    BY <1>0, <1>7 DEF Conflict, ClientRecord
  <2> QED BY <1>0, <1>1, <1>4, <2>1 DEF Position, Behind, PageIsPrefix
<1>8. CASE ReadEntries(c)
  <2>1. /\ k.pc = "reading" /\ client'[c].pc = "applying" /\ client'[c].reply = k.reply /\ client'[c].head = k.head
        /\ client'[c].stream = k.stream /\ client'[c].after = k.after /\ client'[c].seen = k.seen
        /\ client'[c].page = PageRows(k.after, k.head)
    BY <1>0, <1>8 DEF ReadEntries, ClientRecord
  <2>2. \A e \in log, f \in PageRows(k.after, k.head) :
            k.after < e.sequence /\ e.sequence <= f.sequence => e \in PageRows(k.after, k.head)
    BY <1>0, PageSkipsNothing
  <2> QED BY <1>0, <1>1, <1>4, <1>5, <2>1, <2>2 DEF Position, Behind, PageIsPrefix
<1>9. CASE ApplyPage(c)
  <2> DEFINE T == {e.sequence : e \in k.page}
             n == NextCursor(k.page, k.after)
  <2>1. /\ k.pc = "applying" /\ client'[c].pc = "idle" /\ client'[c].reply = NoStream
        /\ client'[c].stream = k.reply /\ client'[c].after = n
        /\ client'[c].seen = k.seen \cup {e.outbox_id : e \in k.page}
        /\ client'[c].page = {}
    BY <1>0, <1>9 DEF ApplyPage, ClientRecord
  <2>2. k.page = {} => n = k.after
    BY DEF NextCursor
  <2>3. ASSUME k.page # {} PROVE \E f \in k.page : n = f.sequence
    <3>1. \E m \in T : \A x \in T : x <= m
      <4>1. T \subseteq 1 .. k.head /\ T # {}
        BY <1>0, <2>3
      <4> HIDE DEF T
      <4> QED BY <1>0, <4>1, MaxExists
    <3>2. PICK m \in T : \A e \in k.page : e.sequence <= m
      BY <3>1
    <3>3. n \in T
      BY <2>3, <3>2 DEF NextCursor
    <3> QED BY <3>3
  <2>4. ~snapshot.restored /\ k.reply = cursor.stream_id => n <= cursor.last_sequence
    BY <1>0, <2>1, <2>2, <2>3 DEF Position, Behind, PageIsPrefix, NoStream
  <2>5. ASSUME ~snapshot.restored, k.reply = cursor.stream_id, NEW e \in log, e.sequence <= n
        PROVE  e.outbox_id \in client'[c].seen
    <3>1. CASE e.sequence <= k.after
      BY <1>0, <1>5, <2>1, <2>5, <3>1 DEF Position, NoStream
    <3>2. CASE ~(e.sequence <= k.after)
      BY <1>0, <2>1, <2>2, <2>3, <2>5, <3>2 DEF PageIsPrefix
    <3> QED BY <3>1, <3>2
  <2>6. k.reply # NoStream
    BY <1>0, <2>1 DEF Position
  <2> QED BY <1>0, <1>1, <1>4, <2>1, <2>4, <2>5, <2>6 DEF Position, Behind, PageIsPrefix, NoStream
<1>10. CASE DropPage(c)
  <2>1. /\ client'[c].pc = "idle" /\ client'[c].reply = NoStream
        /\ client'[c].stream = k.stream /\ client'[c].after = k.after /\ client'[c].seen = k.seen
    BY <1>0, <1>10 DEF DropPage, ClientRecord
  <2> QED BY <1>0, <1>1, <1>4, <1>5, <2>1 DEF Position, Behind, PageIsPrefix, NoStream
<1> QED BY <1>6, <1>7, <1>8, <1>9, <1>10 DEF Poll

\* A backup that is restored excepts the stream; a new database has a stream nobody knows.
LEMMA OperatorKeeps ==
    ASSUME IInv, IInv', DInv, TakeBackup \/ RestoreBackup \/ Rebuild
    PROVE  DInv'
<1>0. /\ KnownStreams /\ cursor \in Cursor /\ cursor.stream_id \in Nat /\ cursor.stream_id >= 1
      /\ client \in [Consumers -> ClientRecord]
      /\ \A c \in Consumers : /\ Position(c) /\ Behind(c) /\ PageIsPrefix(c)
                              /\ client[c].stream \in Nat /\ client[c].reply \in Nat
  BY DEF IInv, DInv, TypeOK, Cursor, ClientRecord, KnownStreams
<1>1. CASE TakeBackup
  <2>1. /\ UNCHANGED <<log, cursor, client>> /\ snapshot'.cursor = cursor /\ snapshot'.restored = snapshot.restored
    BY <1>1 DEF TakeBackup, database
  <2> QED BY <1>0, <2>1 DEF DInv, KnownStreams, Position, Behind, PageIsPrefix, NoSkip
<1>2. ASSUME DropConnections, NEW c \in Consumers
      PROVE  /\ client'[c].stream = client[c].stream /\ client'[c].after = client[c].after
             /\ client'[c].pc # "idle" => client[c].pc # "idle" /\ client'[c].reply = client[c].reply
             /\ client'[c].reply \in {client[c].reply, NoStream}
  <2>1. client'[c] = IF client[c].pc = "reading" THEN [client[c] EXCEPT !.pc = "idle", !.reply = NoStream, !.head = 0]
                     ELSE client[c]
    BY <1>2 DEF DropConnections
  <2>2. client[c] \in ClientRecord
    BY <1>0
  <2>3. CASE client[c].pc = "reading"
    BY <2>1, <2>2, <2>3 DEF ClientRecord
  <2>4. CASE client[c].pc # "reading"
    BY <2>1, <2>4
  <2> QED BY <2>3, <2>4
<1>3. CASE RestoreBackup
  <2>1. /\ DropConnections /\ cursor' = snapshot.cursor /\ snapshot' = [snapshot EXCEPT !.restored = TRUE]
    BY <1>3 DEF RestoreBackup
  <2>2. snapshot'.restored /\ snapshot'.cursor = snapshot.cursor
    BY <2>1 DEF IInv, TypeOK
  <2>3. cursor'.stream_id = cursor.stream_id
    BY <1>0, <2>1 DEF KnownStreams
  <2>4. KnownStreams'
    BY <1>0, <1>2, <2>1, <2>2, <2>3 DEF KnownStreams, NoStream
  <2>5. ASSUME NEW c \in Consumers PROVE Position(c)' /\ Behind(c)' /\ PageIsPrefix(c)'
    BY <1>0, <1>2, <2>1, <2>2 DEF Position, Behind, PageIsPrefix
  <2> QED BY <2>2, <2>4, <2>5 DEF DInv, NoSkip
<1>4. CASE Rebuild
  <2>1. /\ DropConnections /\ cursor' = [stream_id |-> cursor.stream_id + 1, last_sequence |-> 0]
        /\ snapshot'.cursor = cursor'
    BY <1>4 DEF Rebuild
  <2>2. KnownStreams'
    BY <1>0, <1>2, <2>1 DEF KnownStreams, NoStream
  <2>3. ASSUME NEW c \in Consumers
        PROVE  client'[c].stream # cursor'.stream_id /\ (client'[c].pc # "idle" => client'[c].reply # cursor'.stream_id)
    BY <1>0, <1>2, <2>1 DEF KnownStreams
  <2>4. ASSUME NEW c \in Consumers PROVE Position(c)' /\ Behind(c)' /\ PageIsPrefix(c)'
    BY <1>0, <1>2, <2>1, <2>3 DEF Position, Behind, PageIsPrefix
  <2> QED BY <2>2, <2>3, <2>4 DEF DInv, NoSkip
<1> QED BY <1>1, <1>3, <1>4

LEMMA DeliveryStep == IInv /\ IInv' /\ DInv /\ [Next]_vars => DInv'
<1> SUFFICES ASSUME IInv, IInv', DInv, [Next]_vars PROVE DInv'
  OBVIOUS
<1>0. cursor.last_sequence \in Nat /\ cursor'.last_sequence \in Nat /\ log' \subseteq Entry
  BY DEF IInv, TypeOK, Cursor
<1>1. ASSUME UNCHANGED <<log, cursor, client, snapshot>> PROVE DInv'
  BY <1>1 DEF DInv, KnownStreams, Position, Behind, PageIsPrefix, NoSkip
<1>2. CASE \E s \in Sequencers : CommitSequence(s)
  <2>1. PICK s \in Sequencers : CommitSequence(s)
    BY <1>2
  <2>2. client' = client /\ snapshot' = snapshot
    BY <2>1 DEF CommitSequence
  <2> QED BY <1>0, <2>1, <2>2, CommitAppends, LogGrows
<1>3. CASE \/ Publish
           \/ \E s \in Sequencers : \/ AcquireLock(s) \/ ReadCursor(s) \/ SelectPending(s) \/ InsertEntry(s)
                                    \/ AbortSequence(s)
  <2>1. snapshot' = snapshot
    BY <1>3 DEF Publish, Begin, LockEntity, Commit, Rollback, AcquireLock, ReadCursor, SelectPending,
                InsertEntry, AbortSequence
  <2> QED BY <1>1, <1>3, <2>1, OthersKeep
<1>4. CASE \E c \in Consumers : Poll(c) \/ DropPage(c)
  BY <1>4, ConsumerKeeps
<1>5. CASE TakeBackup \/ RestoreBackup \/ Rebuild
  BY <1>5, OperatorKeeps
<1>6. CASE UNCHANGED vars
  BY <1>1, <1>6 DEF vars, database
<1> QED BY <1>2, <1>3, <1>4, <1>5, <1>6 DEF Next, Sequence

\* A consumer never persists a cursor past an entry it has not applied, for any number of
\* consumers, sequencers and rebuilds (ReadPage, internal/changelog/feed.go).
THEOREM NoSkipSafety == Spec => []NoSkip
<1>1. DInv => NoSkip
  BY DEF DInv
<1> QED BY <1>1, InitDInv, DeliveryStep, Invariance, PTL DEF Spec

-----------------------------------------------------------------------------
(* What a caught-up consumer holds: publications are numbered in an order that *)
(* need not be their version order, so the proof relates rows to versions,     *)
(* entries to rows, and copies to the entries behind the cursor.               *)

\* The current version of an entity has a row, no row is newer, and an entry repeats its row.
NewestHasRow(v, o) == \A e \in Entities : v[e] > 0 => \E r \in o : r.entity = e /\ r.version = v[e]

RowsAreOld(v, o) == \A r \in o : r.version <= v[r.entity]

Repeats(l, o) == \A e \in l : \E r \in o : r.id = e.outbox_id /\ r.entity = e.entity /\ r.version = e.version

Versions(v, o, l) == NewestHasRow(v, o) /\ RowsAreOld(v, o) /\ Repeats(l, o)

\* The holder of an entity row computed its version from the current one, and is alone.
HolderIsNext ==
    \A t \in Txs : tx[t].state = "holding" => tx[t].version = version[tx[t].entity] + 1

HolderIsAlone ==
    \A t, u \in Txs : tx[t].state = "holding" /\ tx[u].state = "holding" /\ tx[t].entity = tx[u].entity => t = u

\* Behind its cursor a consumer holds at least what was announced, and nothing from the future.
Covered(c) ==
    ~snapshot.restored /\ client[c].stream = cursor.stream_id =>
        \A e \in log : e.sequence <= client[c].after =>
            e.version <= client[c].copy[e.entity] /\ client[c].copy[e.entity] <= version[e.entity]

VInv ==
    /\ Versions(version, outbox, log)
    /\ Versions(snapshot.version, snapshot.outbox, snapshot.log)
    /\ HolderIsNext /\ HolderIsAlone
    /\ \A s \in Sequencers : Repeats(seqr[s].staged, outbox)
    /\ \A c \in Consumers : Covered(c)

LEMMA InitVInv == Init => VInv
BY DEF Init, VInv, Versions, NewestHasRow, RowsAreOld, Repeats, HolderIsNext, HolderIsAlone, Covered,
       IdleTx, IdleSequencer, NoStream

\* Entries repeat their rows whatever rows are added.
LEMMA RepeatsGrows ==
    ASSUME NEW l, NEW o, NEW p, Repeats(l, o), o \subseteq p
    PROVE  Repeats(l, p)
BY DEF Repeats

\* A version only grows, by the transaction that holds its entity.
LEMMA PublishVersions ==
    ASSUME IInv, VInv, NEW t \in Txs,
           (\E e \in Entities : Begin(t, e)) \/ LockEntity(t) \/ Commit(t) \/ Rollback(t)
    PROVE  VInv'
<1>0. /\ tx \in [Txs -> TxRecord] /\ version \in [Entities -> Nat] /\ outbox \subseteq Row /\ log \subseteq Entry
      /\ HolderIsNext /\ HolderIsAlone /\ NewestHasRow(version, outbox) /\ RowsAreOld(version, outbox)
      /\ Repeats(log, outbox) /\ \A s \in Sequencers : Repeats(seqr[s].staged, outbox)
      /\ Versions(snapshot.version, snapshot.outbox, snapshot.log)
      /\ \A c \in Consumers : Covered(c)
  BY DEF IInv, VInv, TypeOK, Versions
<1>1. UNCHANGED <<log, cursor, seqr, client, snapshot>>
  BY DEF Begin, LockEntity, Commit, Rollback, database
<1>2. CASE ~Commit(t)
  <2>1. UNCHANGED <<version, outbox>>
    BY <1>2 DEF Begin, LockEntity, Rollback, database
  <2>2. \A u \in Txs \ {t} : tx'[u] = tx[u]
    BY <1>0, <1>2 DEF Begin, LockEntity, Rollback
  <2>3. \/ tx'[t].state # "holding"
        \/ /\ tx'[t].state = "holding" /\ tx'[t].entity = tx[t].entity
           /\ tx'[t].version = version[tx[t].entity] + 1
           /\ \A u \in Txs : tx[u].state = "holding" => tx[u].entity # tx[t].entity
    <3>1. CASE LockEntity(t)
      <4>1. tx'[t] = [state |-> "holding", entity |-> tx[t].entity,
                      start |-> tx[t].start, version |-> version[tx[t].entity] + 1]
        BY <1>0, <3>1 DEF LockEntity
      <4> QED BY <3>1, <4>1 DEF LockEntity
    <3>2. CASE ~LockEntity(t)
      BY <1>0, <1>2, <3>2 DEF Begin, Rollback
    <3> QED BY <3>1, <3>2
  <2>4. HolderIsNext'
    BY <1>0, <2>1, <2>2, <2>3 DEF HolderIsNext
  <2>5. HolderIsAlone'
    BY <1>0, <2>1, <2>2, <2>3 DEF HolderIsAlone
  <2>6. Versions(version, outbox, log)' /\ Versions(snapshot.version, snapshot.outbox, snapshot.log)'
    BY <1>0, <1>1, <2>1 DEF Versions
  <2>7. \A s \in Sequencers : Repeats(seqr[s].staged, outbox)'
    BY <1>0, <1>1, <2>1 DEF Repeats
  <2>8. \A c \in Consumers : Covered(c)'
    BY <1>0, <1>1, <2>1 DEF Covered
  <2> QED BY <2>4, <2>5, <2>6, <2>7, <2>8 DEF VInv
<1>3. CASE Commit(t)
  <2> DEFINE new == [id |-> t, entity |-> tx[t].entity, version |-> tx[t].version,
                     committed_at |-> tx[t].start, sequenced |-> FALSE]
  <2>1. PICK e \in Entities : e = tx[t].entity
    BY <1>0, <1>3 DEF Commit, TxRecord
  <2>2. tx[t].version = version[e] + 1 /\ version[e] \in Nat
    BY <1>0, <1>3, <2>1 DEF Commit, HolderIsNext
  <2>3. /\ version' = [version EXCEPT ![e] = version[e] + 1] /\ outbox' = outbox \cup {new}
        /\ tx' = [tx EXCEPT ![t] = [state |-> "committed"]]
    BY <1>3, <2>1, <2>2 DEF Commit
  <2>4. new.entity = e /\ new.version = version[e] + 1
    BY <2>1, <2>2
  <2> HIDE DEF new
  <2>5. /\ version'[e] = version[e] + 1 /\ \A f \in Entities \ {e} : version'[f] = version[f]
        /\ \A f \in Entities : version[f] <= version'[f] /\ version[f] \in Nat /\ version'[f] \in Nat
    BY <1>0, <2>2, <2>3
  <2>6. NewestHasRow(version, outbox)'
    BY <1>0, <2>3, <2>4, <2>5 DEF NewestHasRow
  <2>7. RowsAreOld(version, outbox)'
    BY <1>0, <2>3, <2>4, <2>5 DEF RowsAreOld, Row
  <2>8. Repeats(log, outbox)' /\ \A s \in Sequencers : Repeats(seqr[s].staged, outbox)'
    BY <1>0, <1>1, <2>3 DEF Repeats
  <2>9. tx'[t].state = "committed" /\ \A u \in Txs \ {t} : tx'[u] = tx[u]
    BY <1>0, <2>3
  <2>10. HolderIsAlone'
    BY <1>0, <2>9 DEF HolderIsAlone
  <2>11. HolderIsNext'
    <3> SUFFICES ASSUME NEW u \in Txs, tx'[u].state = "holding"
                 PROVE  tx'[u].version = version'[tx'[u].entity] + 1
      BY DEF HolderIsNext
    <3>1. u # t /\ tx'[u] = tx[u]
      BY <2>9
    <3>2. tx[t].state = "holding"
      BY <1>3 DEF Commit
    <3>3. tx[u].entity \in Entities /\ tx[u].entity # e
      BY <1>0, <2>1, <3>1, <3>2 DEF HolderIsAlone, TxRecord
    <3> QED BY <1>0, <2>5, <3>1, <3>3 DEF HolderIsNext
  <2>12. \A c \in Consumers : Covered(c)'
    <3> SUFFICES ASSUME NEW c \in Consumers, ~snapshot.restored, client[c].stream = cursor.stream_id,
                        NEW l \in log, l.sequence <= client[c].after
                 PROVE  l.version <= client[c].copy[l.entity] /\ client[c].copy[l.entity] <= version'[l.entity]
      BY <1>1 DEF Covered
    <3>1. l.entity \in Entities /\ client[c].copy \in [Entities -> Nat]
      BY <1>0 DEF IInv, TypeOK, Entry, ClientRecord
    <3>2. l.version <= client[c].copy[l.entity] /\ client[c].copy[l.entity] <= version[l.entity]
      BY <1>0 DEF Covered
    <3> QED BY <2>5, <3>1, <3>2
  <2>13. Versions(snapshot.version, snapshot.outbox, snapshot.log)'
    BY <1>0, <1>1 DEF Versions
  <2> QED BY <1>1, <2>6, <2>7, <2>8, <2>10, <2>11, <2>12, <2>13 DEF VInv, Versions
<1> QED BY <1>2, <1>3

\* Marking a row leaves what it says of its entity.
LEMMA MarkKeeps ==
    ASSUME NEW ids, outbox \subseteq Row
    PROVE  /\ \A r \in outbox : \E q \in MarkSequenced(ids) :
                  q.id = r.id /\ q.entity = r.entity /\ q.version = r.version
           /\ \A q \in MarkSequenced(ids) : \E r \in outbox :
                  q.id = r.id /\ q.entity = r.entity /\ q.version = r.version
<1> DEFINE Mark(r) == [r EXCEPT !.sequenced = @ \/ r.id \in ids]
<1>1. \A r \in outbox : Mark(r).id = r.id /\ Mark(r).entity = r.entity /\ Mark(r).version = r.version
  BY DEF Row
<1>2. MarkSequenced(ids) = {Mark(r) : r \in outbox}
  BY DEF MarkSequenced
<1> HIDE DEF Mark
<1> QED BY <1>1, <1>2

\* A Sequence call stages what the rows say, and its commit announces that.
LEMMA SequencerVersions ==
    ASSUME IInv, IInv', VInv, DInv, NEW s \in Sequencers, Sequence(s) \/ AbortSequence(s)
    PROVE  VInv'
<1>0. /\ seqr \in [Sequencers -> SequencerRecord] /\ version \in [Entities -> Nat] /\ outbox \subseteq Row
      /\ HolderIsNext /\ HolderIsAlone /\ NewestHasRow(version, outbox) /\ RowsAreOld(version, outbox)
      /\ Repeats(log, outbox) /\ \A o \in Sequencers : Repeats(seqr[o].staged, outbox)
      /\ Versions(snapshot.version, snapshot.outbox, snapshot.log)
      /\ \A c \in Consumers : Covered(c)
  BY DEF IInv, VInv, TypeOK, Versions
<1>1. UNCHANGED <<tx, version, client, snapshot>>
  BY DEF Sequence, AcquireLock, ReadCursor, SelectPending, InsertEntry, CommitSequence, AbortSequence, database
<1>2. HolderIsNext' /\ HolderIsAlone' /\ Versions(snapshot.version, snapshot.outbox, snapshot.log)'
  BY <1>0, <1>1 DEF HolderIsNext, HolderIsAlone, Versions
<1>3. \A o \in Sequencers \ {s} : seqr'[o] = seqr[o]
  BY <1>0 DEF Sequence, AcquireLock, ReadCursor, SelectPending, InsertEntry, CommitSequence, AbortSequence
<1>4. CASE ~CommitSequence(s)
  <2>1. UNCHANGED <<outbox, log, cursor>>
    BY <1>4 DEF Sequence, AcquireLock, ReadCursor, SelectPending, InsertEntry, AbortSequence, database
  <2>2. Repeats(seqr'[s].staged, outbox)
    <3>1. CASE InsertEntry(s)
      <4>1. PICK r \in seqr[s].entries :
             seqr' = [seqr EXCEPT
                ![s].sequence = @ + 1,
                ![s].entries = @ \ {r},
                ![s].staged = @ \cup {[sequence |-> seqr[s].sequence + 1, outbox_id |-> r.id,
                                       entity |-> r.entity, version |-> r.version]}]
        BY <3>1 DEF InsertEntry
      <4>2. r \in outbox
        BY <3>1 DEF InsertEntry, IInv, Local, Pending
      <4> DEFINE new == [sequence |-> seqr[s].sequence + 1, outbox_id |-> r.id,
                         entity |-> r.entity, version |-> r.version]
      <4>3. new.outbox_id = r.id /\ new.entity = r.entity /\ new.version = r.version
        OBVIOUS
      <4>4. seqr' = [seqr EXCEPT ![s].sequence = @ + 1, ![s].entries = @ \ {r}, ![s].staged = @ \cup {new}]
        BY <4>1
      <4> HIDE DEF new
      <4>5. seqr'[s].staged = seqr[s].staged \cup {new}
        BY <1>0, <4>4 DEF SequencerRecord
      <4> QED BY <1>0, <4>2, <4>3, <4>5 DEF Repeats
    <3>2. CASE ~InsertEntry(s)
      <4>1. seqr'[s].staged = seqr[s].staged \/ seqr'[s].staged = {}
        BY <1>0, <1>4, <3>2 DEF Sequence, AcquireLock, ReadCursor, SelectPending, AbortSequence,
                                IdleSequencer, SequencerRecord
      <4> QED BY <1>0, <4>1 DEF Repeats
    <3> QED BY <3>1, <3>2
  <2>3. \A o \in Sequencers : Repeats(seqr[o].staged, outbox)'
    BY <1>0, <1>3, <2>1, <2>2 DEF Repeats
  <2>4. Versions(version, outbox, log)' /\ \A c \in Consumers : Covered(c)'
    BY <1>0, <1>1, <2>1 DEF Versions, Covered
  <2> QED BY <1>2, <2>3, <2>4 DEF VInv
<1>5. CASE CommitSequence(s)
  <2>1. /\ log' = log \cup seqr[s].staged /\ outbox' = MarkSequenced(StagedIds(s))
        /\ seqr' = [seqr EXCEPT ![s] = IdleSequencer]
    BY <1>5 DEF CommitSequence
  <2>2. /\ \A r \in outbox : \E q \in outbox' : q.id = r.id /\ q.entity = r.entity /\ q.version = r.version
        /\ \A q \in outbox' : \E r \in outbox : q.id = r.id /\ q.entity = r.entity /\ q.version = r.version
    BY <1>0, <2>1, MarkKeeps
  <2>3. NewestHasRow(version, outbox)'
    <3> SUFFICES ASSUME NEW e \in Entities, version[e] > 0
                 PROVE  \E q \in outbox' : q.entity = e /\ q.version = version[e]
      BY <1>1 DEF NewestHasRow
    <3>1. PICK r \in outbox : r.entity = e /\ r.version = version[e]
      BY <1>0 DEF NewestHasRow
    <3> QED BY <2>2, <3>1
  <2>4. RowsAreOld(version, outbox)'
    BY <1>0, <1>1, <2>2 DEF RowsAreOld
  <2>5. Repeats(log', outbox')
    <3> SUFFICES ASSUME NEW e \in log \cup seqr[s].staged
                 PROVE  \E q \in outbox' : q.id = e.outbox_id /\ q.entity = e.entity /\ q.version = e.version
      BY <2>1 DEF Repeats
    <3>1. PICK r \in outbox : r.id = e.outbox_id /\ r.entity = e.entity /\ r.version = e.version
      BY <1>0 DEF Repeats
    <3> QED BY <2>2, <3>1
  <2>6. \A o \in Sequencers : seqr'[o].staged = {}
    <3>1. seqr'[s].staged = {}
      BY <1>0, <2>1 DEF IdleSequencer
    <3>2. seqr[s].pc = "writing"
      BY <1>5 DEF CommitSequence
    <3>3. \A o \in Sequencers \ {s} : seqr[o].pc = "idle" /\ seqr[o].staged = {}
      BY <3>2 DEF IInv, Exclusive, Local
    <3> QED BY <1>3, <3>1, <3>3
  <2>7. \A o \in Sequencers : Repeats(seqr'[o].staged, outbox')
    BY <2>6 DEF Repeats
  <2>8. \A c \in Consumers : Covered(c)'
    <3> SUFFICES ASSUME NEW c \in Consumers, ~snapshot.restored, client[c].stream = cursor.stream_id,
                        NEW e \in log', e.sequence <= client[c].after
                 PROVE  e.version <= client[c].copy[e.entity] /\ client[c].copy[e.entity] <= version[e.entity]
      BY <1>1, <1>5, CommitAppends DEF Covered
    <3>1. client[c].after <= cursor.last_sequence /\ client[c].after \in Nat /\ cursor.last_sequence \in Nat
      BY DEF DInv, Behind, IInv, TypeOK, ClientRecord, Cursor
    <3>2. e.sequence \in Nat
      BY DEF IInv, TypeOK, Entry
    <3>3. e \in log
      BY <1>5, <3>1, <3>2, CommitAppends
    <3> QED BY <1>0, <3>3 DEF Covered
  <2> QED BY <1>2, <2>3, <2>4, <2>5, <2>7, <2>8 DEF VInv, Versions
<1> QED BY <1>4, <1>5

\* A consumer that applies a page fetches current projections of all it announces.
LEMMA ConsumerVersions ==
    ASSUME IInv, DInv, VInv, NEW c \in Consumers, Poll(c) \/ DropPage(c)
    PROVE  VInv'
<1> DEFINE k == client[c]
<1>0. /\ client \in [Consumers -> ClientRecord] /\ k \in ClientRecord /\ version \in [Entities -> Nat]
      /\ log \subseteq Entry /\ RowsAreOld(version, outbox) /\ Repeats(log, outbox)
      /\ k.after \in Nat /\ k.head \in Nat /\ \A e \in k.page : e.sequence \in 1 .. k.head
      /\ Position(c) /\ PageIsPrefix(c) /\ \A d \in Consumers : Covered(d)
  BY DEF IInv, DInv, VInv, TypeOK, Versions, ClientRecord, PageBounded
<1>1. UNCHANGED <<tx, version, outbox, log, cursor, seqr, snapshot>>
  BY DEF Poll, DropPage, ReadMetadata, Conflict, ReadEntries, ApplyPage, database
<1>2. \A d \in Consumers \ {c} : client'[d] = client[d]
  BY <1>0 DEF Poll, DropPage, ReadMetadata, Conflict, ReadEntries, ApplyPage
<1>3. Covered(c)'
  <2>1. CASE ReadMetadata(c) \/ ReadEntries(c) \/ DropPage(c)
    <3>1. client'[c].stream = k.stream /\ client'[c].after = k.after /\ client'[c].copy = k.copy
      BY <1>0, <2>1 DEF ReadMetadata, ReadEntries, DropPage, ClientRecord
    <3> QED BY <1>0, <1>1, <3>1 DEF Covered
  <2>2. CASE Conflict(c)
    <3>1. client'[c].after = 0
      BY <1>0, <2>2 DEF Conflict, ClientRecord
    <3>2. \A e \in log : e.sequence >= 1
      BY DEF IInv, Consistent
    <3> QED BY <1>0, <1>1, <3>1, <3>2 DEF Covered, Entry
  <2>3. CASE ApplyPage(c)
    <3> DEFINE T == {e.sequence : e \in k.page}
               n == NextCursor(k.page, k.after)
               changed == {e.entity : e \in k.page}
               copy == [e \in Entities |-> IF e \in changed THEN version[e] ELSE k.copy[e]]
    <3>1. /\ k.pc = "applying" /\ client'[c].stream = k.reply /\ client'[c].after = n
          /\ client'[c].copy = copy
      BY <1>0, <2>3 DEF ApplyPage, ClientRecord
    <3>2. k.page = {} => n = k.after
      BY DEF NextCursor
    <3>3. ASSUME k.page # {} PROVE \E f \in k.page : n = f.sequence
      <4>1. \E m \in T : \A x \in T : x <= m
        <5>1. T \subseteq 1 .. k.head /\ T # {}
          BY <1>0, <3>3
        <5> HIDE DEF T
        <5> QED BY <1>0, <5>1, MaxExists
      <4>2. PICK m \in T : \A e \in k.page : e.sequence <= m
        BY <4>1
      <4>3. n \in T
        BY <3>3, <4>2 DEF NextCursor
      <4> QED BY <4>3
    <3> SUFFICES ASSUME ~snapshot.restored, k.reply = cursor.stream_id, NEW e \in log, e.sequence <= n
                 PROVE  e.version <= copy[e.entity] /\ copy[e.entity] <= version[e.entity]
      BY <1>1, <3>1 DEF Covered
    <3>4. e.entity \in Entities /\ e.sequence \in Nat /\ e.version \in Nat /\ version[e.entity] \in Nat
      BY <1>0 DEF Entry
    <3>5. e.version <= version[e.entity]
      BY <1>0 DEF RowsAreOld, Repeats
    <3>6. e \in k.page \/ e.sequence <= k.after
      BY <1>0, <3>1, <3>2, <3>3, <3>4 DEF PageIsPrefix
    <3>7. CASE e.entity \in changed
      BY <3>4, <3>5, <3>7
    <3>8. CASE e.entity \notin changed
      <4>1. e.sequence <= k.after
        BY <3>6, <3>8
      <4>2. k.stream = cursor.stream_id
        <5>1. k.stream = NoStream => k.after = 0
          BY <1>0 DEF Position
        <5>2. e.sequence >= 1
          BY DEF IInv, Consistent
        <5> QED BY <1>0, <3>1, <3>4, <4>1, <5>1, <5>2 DEF Position
      <4>3. copy[e.entity] = k.copy[e.entity]
        BY <3>4, <3>8
      <4> QED BY <1>0, <4>1, <4>2, <4>3 DEF Covered
    <3> QED BY <3>7, <3>8
  <2> QED BY <2>1, <2>2, <2>3 DEF Poll
<1>4. \A d \in Consumers : Covered(d)'
  BY <1>0, <1>1, <1>2, <1>3 DEF Covered
<1> QED BY <1>1, <1>4 DEF VInv, Versions, HolderIsNext, HolderIsAlone, Repeats

\* Operators replace the tables together; what was open is gone.
LEMMA OperatorVersions ==
    ASSUME IInv, DInv, VInv, TakeBackup \/ RestoreBackup \/ Rebuild
    PROVE  VInv'
<1>0. /\ Versions(version, outbox, log) /\ Versions(snapshot.version, snapshot.outbox, snapshot.log)
      /\ HolderIsNext /\ HolderIsAlone /\ \A s \in Sequencers : Repeats(seqr[s].staged, outbox)
      /\ \A c \in Consumers : Covered(c)
  BY DEF VInv
<1>1. CASE TakeBackup
  <2>1. /\ UNCHANGED <<tx, version, outbox, log, cursor, seqr, client>>
        /\ snapshot'.version = version /\ snapshot'.outbox = outbox /\ snapshot'.log = log
        /\ snapshot'.restored = snapshot.restored
    BY <1>1 DEF TakeBackup, database
  <2> QED BY <1>0, <2>1 DEF VInv, Versions, HolderIsNext, HolderIsAlone, Repeats, Covered
<1>2. ASSUME DropConnections
      PROVE  HolderIsNext' /\ HolderIsAlone' /\ \A s \in Sequencers : seqr'[s].staged = {}
  <2>1. \A t \in Txs : tx'[t].state # "holding"
    BY <1>2 DEF DropConnections
  <2>2. \A s \in Sequencers : seqr'[s].staged = {}
    BY <1>2 DEF DropConnections, IdleSequencer
  <2> QED BY <2>1, <2>2 DEF HolderIsNext, HolderIsAlone
<1>3. CASE RestoreBackup
  <2>1. /\ version' = snapshot.version /\ outbox' = snapshot.outbox /\ log' = snapshot.log
        /\ snapshot' = [snapshot EXCEPT !.restored = TRUE] /\ DropConnections
    BY <1>3 DEF RestoreBackup
  <2>2. /\ snapshot'.version = snapshot.version /\ snapshot'.outbox = snapshot.outbox
        /\ snapshot'.log = snapshot.log /\ snapshot'.restored
    BY <2>1 DEF IInv, TypeOK
  <2>3. \A c \in Consumers : Covered(c)'
    BY <2>2 DEF Covered
  <2> QED BY <1>0, <1>2, <2>1, <2>2, <2>3 DEF VInv, Versions, Repeats
<1>4. CASE Rebuild
  <2>1. /\ version' = [e \in Entities |-> 0] /\ outbox' = {} /\ log' = {} /\ DropConnections
        /\ snapshot'.version = version' /\ snapshot'.outbox = outbox' /\ snapshot'.log = log'
    BY <1>4 DEF Rebuild
  <2>2. Versions(version, outbox, log)'
    BY <2>1 DEF Versions, NewestHasRow, RowsAreOld, Repeats
  <2>3. Versions(snapshot.version, snapshot.outbox, snapshot.log)'
    BY <2>1, <2>2
  <2>4. \A c \in Consumers : Covered(c)'
    BY <2>1 DEF Covered
  <2> QED BY <1>2, <2>1, <2>2, <2>3, <2>4 DEF VInv, Repeats
<1> QED BY <1>1, <1>3, <1>4

LEMMA VersionStep == IInv /\ IInv' /\ DInv /\ VInv /\ [Next]_vars => VInv'
<1> SUFFICES ASSUME IInv, IInv', DInv, VInv, [Next]_vars PROVE VInv'
  OBVIOUS
<1>1. CASE UNCHANGED vars
  BY <1>1 DEF vars, database, VInv, Versions, HolderIsNext, HolderIsAlone, Repeats, Covered
<1> QED BY <1>1, PublishVersions, SequencerVersions, ConsumerVersions, OperatorVersions DEF Next, Publish

\* At the end of a drained feed a consumer holds every current version, although entries of one
\* entity may be numbered against their version order (ReadPage, internal/changelog/feed.go).
THEOREM CurrencySafety == Spec => []CaughtUpIsCurrent
<1>1. IInv /\ VInv => CaughtUpIsCurrent
  <2> SUFFICES ASSUME IInv, VInv, ~snapshot.restored, NEW c \in Consumers,
                      client[c].stream = cursor.stream_id, client[c].after = cursor.last_sequence, Pending = {},
                      NEW e \in Entities, version[e] > 0
               PROVE  client[c].copy[e] = version[e]
    BY DEF CaughtUpIsCurrent
  <2>1. PICK r \in outbox : r.entity = e /\ r.version = version[e]
    BY DEF VInv, Versions, NewestHasRow
  <2>2. PICK l \in log : l.outbox_id = r.id
    BY DEF Pending, IInv, Consistent
  <2>3. l.entity = e /\ l.version = version[e]
    <3>1. PICK q \in outbox : q.id = l.outbox_id /\ q.entity = l.entity /\ q.version = l.version
      BY DEF VInv, Versions, Repeats
    <3>2. q = r
      BY <2>2, <3>1 DEF IInv, Consistent
    <3> QED BY <2>1, <3>1, <3>2
  <2>4. l.sequence <= client[c].after
    BY DEF IInv, Consistent
  <2>5. version[e] <= client[c].copy[e] /\ client[c].copy[e] <= version[e]
    BY <2>3, <2>4 DEF VInv, Covered
  <2>6. version[e] \in Nat /\ client[c].copy[e] \in Nat
    BY DEF IInv, TypeOK, ClientRecord
  <2> QED BY <2>5, <2>6
<1>2. Spec => []DInv
  BY InitDInv, DeliveryStep, Invariance, PTL DEF Spec
<1> QED BY <1>1, <1>2, InitVInv, VersionStep, Invariance, PTL DEF Spec

-----------------------------------------------------------------------------
(* The feed implements the abstract event feed as long as no operator restores *)
(* or rebuilds the database: one stream, so the numbered log is one growing    *)
(* sequence and cursors never go back.                                         *)

\* No operator replaces the database.
OneDatabase == Operations \subseteq {"backup"}

OneStream == ~snapshot.restored /\ cursor.stream_id = 1

\* A page in flight holds entries of the log beyond the cursor.
PageIsLogged ==
    \A c \in Consumers : \A e \in client[c].page : e \in log /\ client[c].after < e.sequence

RInv == OneStream /\ PageIsLogged

LEMMA InitRInv == Init => RInv
BY DEF Init, RInv, OneStream, PageIsLogged

LEMMA RStep ==
    ASSUME OneDatabase, IInv, DInv, RInv, [Next]_vars
    PROVE  RInv'
<1>0. /\ snapshot \in [version : [Entities -> Nat], outbox : SUBSET Row, log : SUBSET Entry,
                       cursor : Cursor, restored : BOOLEAN]
      /\ client \in [Consumers -> ClientRecord] /\ log \subseteq Entry
      /\ \A c \in Consumers : client[c].pc # "applying" => client[c].page = {}
  BY DEF IInv, TypeOK, PageBounded
<1>1. ~RestoreBackup /\ ~Rebuild
  BY DEF OneDatabase, RestoreBackup, Rebuild
<1>2. CASE \E s \in Sequencers : CommitSequence(s)
  <2>1. PICK s \in Sequencers : CommitSequence(s)
    BY <1>2
  <2>2. snapshot' = snapshot /\ client' = client
    BY <2>1 DEF CommitSequence
  <2> QED BY <2>1, <2>2, CommitAppends DEF RInv, OneStream, PageIsLogged
<1>3. CASE \/ Publish
           \/ \E s \in Sequencers : \/ AcquireLock(s) \/ ReadCursor(s) \/ SelectPending(s) \/ InsertEntry(s)
                                    \/ AbortSequence(s)
  <2>1. snapshot' = snapshot
    BY <1>3 DEF Publish, Begin, LockEntity, Commit, Rollback, AcquireLock, ReadCursor, SelectPending,
                InsertEntry, AbortSequence
  <2> QED BY <1>3, <2>1, OthersKeep DEF RInv, OneStream, PageIsLogged
<1>4. CASE \E c \in Consumers : Poll(c) \/ DropPage(c)
  <2>1. PICK c \in Consumers : Poll(c) \/ DropPage(c)
    BY <1>4
  <2>2. UNCHANGED <<log, cursor, snapshot>>
    BY <2>1, ConsumersKeep
  <2>3. \A d \in Consumers \ {c} : client'[d] = client[d]
    BY <1>0, <2>1 DEF Poll, DropPage, ReadMetadata, Conflict, ReadEntries, ApplyPage
  <2>4. \A e \in client'[c].page : e \in log /\ client'[c].after < e.sequence
    <3>1. CASE ReadEntries(c)
      <4>1. client'[c].page = PageRows(client[c].after, client[c].head) /\ client'[c].after = client[c].after
        BY <1>0, <3>1 DEF ReadEntries, ClientRecord
      <4>2. client[c].after \in Nat /\ \A e \in log : e.sequence \in Nat
        BY <1>0 DEF ClientRecord, Entry
      <4> QED BY <4>1, <4>2 DEF PageRows
    <3>2. CASE ReadMetadata(c) \/ Conflict(c) \/ ApplyPage(c) \/ DropPage(c)
      <4>1. CASE ReadMetadata(c) \/ Conflict(c)
        <5>1. client'[c].page = client[c].page /\ client[c].pc = "idle"
          BY <1>0, <4>1 DEF ReadMetadata, Conflict, ClientRecord
        <5> QED BY <1>0, <5>1
      <4>2. CASE ApplyPage(c)
        <5>1. client[c] \in ClientRecord
          BY <1>0
        <5>2. client'[c].page = {} /\ client'[c].pc = "idle"
          BY <1>0, <4>2, <5>1 DEF ApplyPage, ClientRecord
        <5> QED BY <5>2
      <4>3. CASE DropPage(c)
        <5>1. client'[c].page = {}
          BY <1>0, <4>3 DEF DropPage
        <5> QED BY <5>1
      <4> QED BY <3>2, <4>1, <4>2, <4>3
    <3> QED BY <2>1, <3>1, <3>2 DEF Poll
  <2> QED BY <2>2, <2>3, <2>4 DEF RInv, OneStream, PageIsLogged
<1>5. CASE TakeBackup
  BY <1>5, OthersKeep DEF TakeBackup, RInv, OneStream, PageIsLogged
<1>6. CASE UNCHANGED vars
  BY <1>6 DEF vars, database, RInv, OneStream, PageIsLogged
<1> QED BY <1>1, <1>2, <1>3, <1>4, <1>5, <1>6 DEF Next, Sequence

\* What a number of the feed stands for.
NumbersEntries ==
    /\ cursor.last_sequence \in Nat /\ Numbered \in Seq(Txs) /\ Len(Numbered) = cursor.last_sequence
    /\ \A e \in log : e.sequence \in 1 .. cursor.last_sequence /\ Numbered[e.sequence] = e.outbox_id
    /\ \A n \in 1 .. cursor.last_sequence : \E e \in log : e.sequence = n /\ Numbered[n] = e.outbox_id

LEMMA NumberedIs == IInv => NumbersEntries
<1> SUFFICES ASSUME IInv PROVE NumbersEntries
  OBVIOUS
<1> DEFINE last == cursor.last_sequence
<1>1. /\ last \in Nat /\ log \subseteq Entry /\ {e.sequence : e \in log} = 1 .. last
      /\ \A e, f \in log : e.sequence = f.sequence => e = f
  BY DEF IInv, TypeOK, Cursor, Consistent
<1>2. ASSUME NEW e \in log PROVE e.sequence \in 1 .. last /\ Numbered[e.sequence] = e.outbox_id
  <2>1. e.sequence \in 1 .. last
    BY <1>1
  <2>2. (CHOOSE f \in log : f.sequence = e.sequence) = e
    BY <1>1
  <2> QED BY <2>1, <2>2 DEF Numbered
<1>3. \A n \in 1 .. last : \E e \in log : e.sequence = n /\ Numbered[n] = e.outbox_id
  <2> SUFFICES ASSUME NEW n \in 1 .. last PROVE \E e \in log : e.sequence = n /\ Numbered[n] = e.outbox_id
    OBVIOUS
  <2>1. PICK e \in log : e.sequence = n
    BY <1>1
  <2> QED BY <1>2, <2>1
<1>4. Numbered \in [1 .. last -> Txs]
  <2>1. DOMAIN Numbered = 1 .. last /\ Numbered = [n \in 1 .. last |-> Numbered[n]]
    BY DEF Numbered
  <2>2. \A n \in 1 .. last : Numbered[n] \in Txs
    BY <1>1, <1>3 DEF Entry
  <2> QED BY <2>1, <2>2
<1>5. Numbered \in Seq(Txs) /\ Len(Numbered) = last
  BY <1>1, <1>4
<1> QED BY <1>1, <1>2, <1>3, <1>5 DEF NumbersEntries

LEMMA NumberedNext == (IInv => NumbersEntries)'
BY NumberedIs, PTL

\* A step that leaves the four mapped variables alone is a stutter of the event feed.
LEMMA Stutters ==
    ASSUME {r.id : r \in outbox'} = {r.id : r \in outbox}, log' = log, cursor' = cursor,
           \A c \in Consumers : client'[c].after = client[c].after /\ client'[c].seen = client[c].seen
    PROVE  UNCHANGED Abstract!fvars
<1>1. Numbered' = Numbered
  BY DEF Numbered
<1>2. /\ [c \in Consumers |-> client'[c].after] = [c \in Consumers |-> client[c].after]
      /\ [c \in Consumers |-> client'[c].seen] = [c \in Consumers |-> client[c].seen]
  OBVIOUS
<1> QED BY <1>1, <1>2 DEF Abstract!fvars

LEMMA InitRefines == Init => Abstract!Init
<1> SUFFICES ASSUME Init PROVE Abstract!Init
  OBVIOUS
<1>1. {r.id : r \in outbox} = {}
  BY DEF Init
<1>2. Numbered = <<>>
  BY DEF Init, Numbered
<1>3. /\ [c \in Consumers |-> client[c].after] = [c \in Consumers |-> 0]
      /\ [c \in Consumers |-> client[c].seen] = [c \in Consumers |-> {}]
  BY DEF Init
<1> QED BY <1>1, <1>2, <1>3 DEF Abstract!Init

\* A publication that commits is published.
LEMMA CommitPublishes ==
    ASSUME IInv, IInv', NEW t \in Txs, Commit(t)
    PROVE  Abstract!Publish(t)
<1>1. /\ outbox' = outbox \cup {[id |-> t, entity |-> tx[t].entity, version |-> tx[t].version,
                                 committed_at |-> tx[t].start, sequenced |-> FALSE]}
      /\ UNCHANGED <<log, cursor, client>> /\ tx[t].state # "committed"
  BY DEF Commit
<1>2. {r.id : r \in outbox'} = {r.id : r \in outbox} \cup {t}
  <2> DEFINE new == [id |-> t, entity |-> tx[t].entity, version |-> tx[t].version,
                     committed_at |-> tx[t].start, sequenced |-> FALSE]
  <2>1. new.id = t /\ outbox' = outbox \cup {new}
    BY <1>1
  <2> HIDE DEF new
  <2> QED BY <2>1
<1>3. t \notin {r.id : r \in outbox}
  BY <1>1 DEF IInv, Consistent
<1>4. Numbered' = Numbered
  BY <1>1 DEF Numbered
<1>5. /\ [c \in Consumers |-> client'[c].after] = [c \in Consumers |-> client[c].after]
      /\ [c \in Consumers |-> client'[c].seen] = [c \in Consumers |-> client[c].seen]
  BY <1>1
<1> QED BY <1>2, <1>3, <1>4, <1>5 DEF Abstract!Publish

\* The commit of a Sequence call appends its batch of published rows, each new to the feed.
LEMMA CommitSequenceExtends ==
    ASSUME IInv, IInv', NEW s \in Sequencers, CommitSequence(s)
    PROVE  Abstract!Extend \/ UNCHANGED Abstract!fvars
<1> DEFINE ids == {r.id : r \in outbox}
<1>1. /\ log' = log \cup seqr[s].staged /\ outbox' = MarkSequenced(StagedIds(s)) /\ client' = client
      /\ log \subseteq log' /\ outbox \subseteq Row
      /\ cursor' = IF seqr[s].staged = {} THEN cursor ELSE [cursor EXCEPT !.last_sequence = seqr[s].sequence]
  BY DEF CommitSequence, IInv, TypeOK
<1>2. {r.id : r \in outbox'} = ids
  <2>1. \A r \in outbox : \E q \in outbox' : q.id = r.id
    BY <1>1, MarkKeeps
  <2>2. \A q \in outbox' : \E r \in outbox : q.id = r.id
    BY <1>1, MarkKeeps
  <2> QED BY <2>1, <2>2
<1>3. /\ [c \in Consumers |-> client'[c].after] = [c \in Consumers |-> client[c].after]
      /\ [c \in Consumers |-> client'[c].seen] = [c \in Consumers |-> client[c].seen]
  BY <1>1
<1>4. CASE seqr[s].staged = {}
  <2>1. log' = log /\ cursor' = cursor
    BY <1>1, <1>4
  <2> QED BY <1>1, <1>2, <2>1, Stutters
<1>5. CASE seqr[s].staged # {}
  <2> DEFINE last == cursor.last_sequence
             next == cursor'.last_sequence
  <2>1. /\ last \in Nat /\ Len(Numbered) = last
        /\ \A n \in 1 .. last : \E e \in log : e.sequence = n /\ Numbered[n] = e.outbox_id
    BY NumberedIs DEF NumbersEntries
  <2>2. /\ next \in Nat /\ Len(Numbered)' = next
        /\ \A e \in log' : e.sequence \in 1 .. next /\ Numbered'[e.sequence] = e.outbox_id
        /\ \A n \in 1 .. next : \E e \in log' : e.sequence = n /\ Numbered'[n] = e.outbox_id
    BY NumberedNext DEF NumbersEntries
  <2>3. next > last
    <3>1. PICK e \in seqr[s].staged : TRUE
      BY <1>5
    <3>2. e \in log'
      BY <1>1
    <3>3. e \notin log
      <4>1. PICK r \in Pending : r.id = e.outbox_id
        BY DEF IInv, Local, CommitSequence
      <4> QED BY <4>1 DEF IInv, Consistent, Pending
    <3>4. e.sequence > last
      BY <3>2, <3>3, CommitAppends
    <3> QED BY <2>1, <2>2, <3>2, <3>4
  <2>4. \A n \in 1 .. last : Numbered'[n] = Numbered[n]
    BY <1>1, <2>1, <2>2
  <2>5. \A n \in 1 .. next : Numbered'[n] \in ids
    <3> SUFFICES ASSUME NEW n \in 1 .. next PROVE Numbered'[n] \in ids
      OBVIOUS
    <3>1. PICK e \in log' : Numbered'[n] = e.outbox_id
      BY <2>2
    <3>2. PICK r \in outbox' : e.outbox_id = r.id
      BY <3>1 DEF IInv, Consistent
    <3> QED BY <1>2, <3>1, <3>2
  <2>6. \A m, n \in 1 .. next : Numbered'[m] = Numbered'[n] => m = n
    BY <2>2 DEF IInv, Consistent
  <2>7. Len(Numbered') = next
    BY <2>2
  <2> HIDE DEF last, next, ids
  <2>8. Numbered' # Numbered /\ Len(Numbered') >= Len(Numbered)
    <3>1. last \in Nat /\ next \in Nat /\ next > last /\ Len(Numbered) = last
      BY <2>1, <2>2, <2>3 DEF last, next
    <3> QED BY <3>1, <2>7
  <2>9. Len(Numbered) = last
    BY <2>1 DEF last
  <2> USE DEF ids
  <2> QED BY <1>2, <1>3, <2>4, <2>5, <2>6, <2>7, <2>8, <2>9 DEF Abstract!Extend
<1> QED BY <1>4, <1>5

\* A page that is applied delivers what lies between the cursor and its last entry; an empty
\* one, a dropped one and a request that has only been answered are invisible.
LEMMA ConsumerDelivers ==
    ASSUME IInv, DInv, RInv, NEW c \in Consumers, Poll(c) \/ DropPage(c)
    PROVE  (\E n \in 1 .. Len(Numbered) : Abstract!Deliver(c, n)) \/ UNCHANGED Abstract!fvars
<1> DEFINE k == client[c]
           last == cursor.last_sequence
<1>0. /\ client \in [Consumers -> ClientRecord] /\ k \in ClientRecord /\ k.after \in Nat /\ k.head \in Nat
      /\ Position(c) /\ Behind(c) /\ PageIsPrefix(c) /\ OneStream
      /\ k.stream \in {NoStream, 1} /\ k.reply \in {NoStream, 1} /\ LogHead = last
      /\ (k.pc # "applying" => k.page = {}) /\ \A e \in k.page : e.sequence \in 1 .. k.head
      /\ \A e \in k.page : e \in log /\ k.after < e.sequence
  <2>1. /\ client \in [Consumers -> ClientRecord] /\ k \in ClientRecord
        /\ (k.pc # "applying" => k.page = {}) /\ \A e \in k.page : e.sequence \in 1 .. k.head
    BY DEF IInv, TypeOK, PageBounded
  <2>2. Position(c) /\ Behind(c) /\ PageIsPrefix(c) /\ OneStream /\ k.stream <= 1 /\ k.reply <= 1
    BY DEF DInv, RInv, KnownStreams, OneStream
  <2>3. \A e \in k.page : e \in log /\ k.after < e.sequence
    BY DEF RInv, PageIsLogged
  <2>4. k.after \in Nat /\ k.head \in Nat /\ k.stream \in Nat /\ k.reply \in Nat
    BY <2>1 DEF ClientRecord
  <2>5. LogHead = last
    BY HeadIsLast DEF IInv
  <2>6. k.stream \in {NoStream, 1} /\ k.reply \in {NoStream, 1}
    BY <2>2, <2>4 DEF NoStream
  <2> QED BY <2>1, <2>2, <2>3, <2>4, <2>5, <2>6
<1>1. UNCHANGED <<outbox, log, cursor>>
  BY DEF Poll, DropPage, ReadMetadata, Conflict, ReadEntries, ApplyPage, database
<1>2. \A d \in Consumers \ {c} : client'[d] = client[d]
  BY <1>0 DEF Poll, DropPage, ReadMetadata, Conflict, ReadEntries, ApplyPage
<1>3. NumbersEntries
  BY NumberedIs
<1>4. ~Conflict(c)
  <2>1. k.after <= last
    BY <1>0, <1>3 DEF Position, Behind, OneStream, NoStream, NumbersEntries
  <2>2. k.stream # NoStream => k.stream = cursor.stream_id
    BY <1>0 DEF OneStream
  <2> QED BY <1>0, <1>3, <2>1, <2>2 DEF Conflict, ValidateCursor, NumbersEntries
<1>5. CASE ReadMetadata(c) \/ ReadEntries(c) \/ DropPage(c)
  <2>1. client'[c].after = k.after /\ client'[c].seen = k.seen
    BY <1>0, <1>5 DEF ReadMetadata, ReadEntries, DropPage, ClientRecord
  <2> QED BY <1>1, <1>2, <2>1, Stutters
<1>6. CASE ApplyPage(c)
  <2> DEFINE T == {e.sequence : e \in k.page}
             n == NextCursor(k.page, k.after)
             new == {e.outbox_id : e \in k.page}
  <2>1. k.pc = "applying" /\ client'[c].after = n /\ client'[c].seen = k.seen \cup new
    BY <1>0, <1>6 DEF ApplyPage, ClientRecord
  <2>2. CASE k.page = {}
    <3>1. n = k.after /\ new = {}
      BY <2>2 DEF NextCursor
    <3> QED BY <1>1, <1>2, <2>1, <3>1, Stutters
  <2>3. CASE k.page # {}
    <3>1. \E m \in T : \A x \in T : x <= m
      <4>1. T \subseteq 1 .. k.head /\ T # {}
        BY <1>0, <2>3
      <4> HIDE DEF T
      <4> QED BY <1>0, <4>1, MaxExists
    <3>2. PICK max \in T : \A e \in k.page : e.sequence <= max
      BY <3>1
    <3>3. n \in T /\ \A e \in k.page : e.sequence <= n
      BY <2>3, <3>2 DEF NextCursor
    <3>4. PICK f \in k.page : n = f.sequence
      BY <3>3
    <3>5. n \in 1 .. last /\ n > k.after
      BY <1>0, <1>3, <3>4 DEF NumbersEntries
    <3>6. \A e \in log : k.after < e.sequence /\ e.sequence <= n => e \in k.page
      BY <1>0, <2>1, <3>4 DEF PageIsPrefix, OneStream, Position, NoStream
    <3>7. new = {Numbered[i] : i \in k.after + 1 .. n}
      <4>1. ASSUME NEW e \in k.page PROVE \E i \in k.after + 1 .. n : e.outbox_id = Numbered[i]
        <5>1. e.sequence \in k.after + 1 .. n /\ Numbered[e.sequence] = e.outbox_id
          BY <1>0, <1>3, <3>3, <3>5 DEF NumbersEntries
        <5> QED BY <5>1
      <4>2. ASSUME NEW i \in k.after + 1 .. n PROVE \E e \in k.page : Numbered[i] = e.outbox_id
        <5>1. i \in 1 .. last
          BY <1>0, <1>3, <3>5 DEF NumbersEntries
        <5>2. PICK e \in log : e.sequence = i /\ Numbered[i] = e.outbox_id
          BY <1>3, <5>1 DEF NumbersEntries
        <5> QED BY <1>0, <3>5, <3>6, <5>2
      <4> QED BY <4>1, <4>2
    <3> DEFINE position == [d \in Consumers |-> client[d].after]
               given == [d \in Consumers |-> client[d].seen]
    <3>8. [d \in Consumers |-> client'[d].after] = [position EXCEPT ![c] = n]
      BY <1>2, <2>1
    <3>9. [d \in Consumers |-> client'[d].seen]
            = [given EXCEPT ![c] = @ \cup {Numbered[i] : i \in position[c] + 1 .. n}]
      BY <1>2, <2>1, <3>7
    <3>10. Numbered' = Numbered /\ {r.id : r \in outbox'} = {r.id : r \in outbox}
      BY <1>1 DEF Numbered
    <3>11. n \in 1 .. Len(Numbered) /\ n > position[c]
      BY <1>3, <3>5 DEF NumbersEntries
    <3>12. PICK m : m = n
      OBVIOUS
    <3> HIDE DEF n
    <3>13. m \in 1 .. Len(Numbered) /\ Abstract!Deliver(c, m)
      BY <3>8, <3>9, <3>10, <3>11, <3>12 DEF Abstract!Deliver
    <3> HIDE DEF Abstract!Deliver
    <3> QED BY <3>13
  <2> QED BY <2>2, <2>3
<1> QED BY <1>4, <1>5, <1>6 DEF Poll

LEMMA StepRefines ==
    ASSUME OneDatabase, IInv, IInv', DInv, RInv, [Next]_vars
    PROVE  [Abstract!Next]_(Abstract!fvars)
<1>1. ~RestoreBackup /\ ~Rebuild
  BY DEF OneDatabase, RestoreBackup, Rebuild
<1>2. CASE \E t \in Txs : Commit(t)
  BY <1>2, CommitPublishes DEF Abstract!Next
<1>3. CASE \E s \in Sequencers : CommitSequence(s)
  BY <1>3, CommitSequenceExtends DEF Abstract!Next
<1>4. CASE \E c \in Consumers : Poll(c) \/ DropPage(c)
  BY <1>4, ConsumerDelivers DEF Abstract!Next
<1>5. CASE \/ \E t \in Txs : (\E e \in Entities : Begin(t, e)) \/ LockEntity(t) \/ Rollback(t)
           \/ \E s \in Sequencers : \/ AcquireLock(s) \/ ReadCursor(s) \/ SelectPending(s) \/ InsertEntry(s)
                                    \/ AbortSequence(s)
           \/ TakeBackup \/ UNCHANGED vars
  <2>1. UNCHANGED <<outbox, log, cursor, client>>
    BY <1>5 DEF Begin, LockEntity, Rollback, AcquireLock, ReadCursor, SelectPending, InsertEntry,
                AbortSequence, TakeBackup, vars, database
  <2> QED BY <2>1, Stutters
<1> QED BY <1>1, <1>2, <1>3, <1>4, <1>5 DEF Next, Publish, Sequence

\* Sequencing, paging, crashes and retries are steps of the abstract event feed, or invisible to
\* it, for any number of callers and consumers (Sequence and ReadPage, internal/changelog), as
\* long as no operator restores or rebuilds the database.
THEOREM EventFeedRefinement ==
    ASSUME OneDatabase
    PROVE  Spec => ImplementsEventFeed
<1>1. IInv /\ DInv /\ RInv /\ [Next]_vars => RInv'
  BY RStep
<1>2. IInv /\ IInv' /\ DInv /\ RInv /\ [Next]_vars => [Abstract!Next]_(Abstract!fvars)
  BY StepRefines
<1>3. Spec => []DInv
  BY InitDInv, DeliveryStep, Invariance, PTL DEF Spec
<1> QED BY <1>1, <1>2, <1>3, InitRInv, InitRefines, Invariance, PTL DEF Spec, ImplementsEventFeed, Abstract!Spec

-----------------------------------------------------------------------------
(* The finding of the restore run, turned round: without a restore, although with *)
(* any number of rebuilds, a request that is accepted continues safely.           *)

\* An accepted request is answered by the current stream: a new database drops it.
AnsweredNow ==
    /\ ~snapshot.restored
    /\ \A c \in Consumers : client[c].pc = "reading" => client[c].reply = cursor.stream_id

LEMMA InitAnswered == Init => AnsweredNow
BY DEF Init, AnsweredNow

LEMMA AnsweredStep ==
    ASSUME "restore" \notin Operations, IInv, AnsweredNow, [Next]_vars
    PROVE  AnsweredNow'
<1>0. client \in [Consumers -> ClientRecord]
  BY DEF IInv, TypeOK
<1>1. ~RestoreBackup
  BY DEF RestoreBackup
<1>2. CASE \E s \in Sequencers : CommitSequence(s)
  <2>1. PICK s \in Sequencers : CommitSequence(s)
    BY <1>2
  <2>2. snapshot' = snapshot /\ client' = client
    BY <2>1 DEF CommitSequence
  <2> QED BY <2>1, <2>2, CommitAppends DEF AnsweredNow
<1>3. CASE \/ Publish
           \/ \E s \in Sequencers : \/ AcquireLock(s) \/ ReadCursor(s) \/ SelectPending(s) \/ InsertEntry(s)
                                    \/ AbortSequence(s)
  <2>1. snapshot' = snapshot
    BY <1>3 DEF Publish, Begin, LockEntity, Commit, Rollback, AcquireLock, ReadCursor, SelectPending,
                InsertEntry, AbortSequence
  <2> QED BY <1>3, <2>1, OthersKeep DEF AnsweredNow
<1>4. CASE \E c \in Consumers : Poll(c) \/ DropPage(c)
  <2>1. PICK c \in Consumers : Poll(c) \/ DropPage(c)
    BY <1>4
  <2>2. UNCHANGED <<log, cursor, snapshot>>
    BY <2>1, ConsumersKeep
  <2>3. \A d \in Consumers \ {c} : client'[d] = client[d]
    BY <1>0, <2>1 DEF Poll, DropPage, ReadMetadata, Conflict, ReadEntries, ApplyPage
  <2>4. client'[c].pc = "reading" => client'[c].reply = cursor.stream_id
    <3>1. client[c] \in ClientRecord
      BY <1>0
    <3>2. CASE ReadMetadata(c)
      BY <1>0, <3>1, <3>2 DEF ReadMetadata, ClientRecord
    <3>3. CASE Conflict(c)
      BY <1>0, <3>1, <3>3 DEF Conflict, ClientRecord
    <3>4. CASE ReadEntries(c)
      BY <1>0, <3>1, <3>4 DEF ReadEntries, ClientRecord
    <3>5. CASE ApplyPage(c)
      BY <1>0, <3>1, <3>5 DEF ApplyPage, ClientRecord
    <3>6. CASE DropPage(c)
      BY <1>0, <3>1, <3>6 DEF DropPage, ClientRecord
    <3> QED BY <2>1, <3>2, <3>3, <3>4, <3>5, <3>6 DEF Poll
  <2> QED BY <2>2, <2>3, <2>4 DEF AnsweredNow
<1>5. CASE TakeBackup
  <2>1. snapshot'.restored = snapshot.restored
    BY <1>5 DEF TakeBackup
  <2> QED BY <1>5, <2>1, OthersKeep DEF AnsweredNow
<1>6. CASE Rebuild
  <2>1. ~snapshot'.restored /\ DropConnections
    BY <1>6 DEF Rebuild
  <2>2. \A c \in Consumers : client'[c].pc # "reading"
    BY <1>0, <2>1 DEF DropConnections, ClientRecord
  <2> QED BY <2>1, <2>2 DEF AnsweredNow
<1>7. CASE UNCHANGED vars
  BY <1>7 DEF vars, database, AnsweredNow
<1> QED BY <1>1, <1>2, <1>3, <1>4, <1>5, <1>6, <1>7 DEF Next, Sequence

\* An accepted request has been given everything behind its cursor (ReadPage, internal/changelog/feed.go)
\* unless an operator restored a backup: rebuilds alone are detected by the stream identity.
THEOREM AcceptedSafety ==
    ASSUME "restore" \notin Operations
    PROVE  Spec => []AcceptedIsSafe
<1>1. IInv /\ DInv /\ AnsweredNow => AcceptedIsSafe
  <2> SUFFICES ASSUME IInv, DInv, AnsweredNow, NEW c \in Consumers, client[c].pc = "reading",
                      NEW e \in log, e.sequence <= client[c].after
               PROVE  e.outbox_id \in client[c].seen
    BY DEF AcceptedIsSafe
  <2>1. /\ client[c].stream = NoStream => client[c].after = 0
        /\ client[c].stream \in {NoStream, cursor.stream_id}
    BY DEF DInv, AnsweredNow, Position
  <2>2. e.sequence \in 1 .. cursor.last_sequence
    BY DEF IInv, Consistent
  <2>3. cursor.last_sequence \in Nat
    BY DEF IInv, TypeOK, Cursor
  <2>4. client[c].stream = cursor.stream_id
    BY <2>1, <2>2, <2>3
  <2> QED BY <2>4 DEF DInv, AnsweredNow, NoSkip
<1>2. IInv /\ AnsweredNow /\ [Next]_vars => AnsweredNow'
  BY AnsweredStep
<1>3. Spec => []DInv
  BY InitDInv, DeliveryStep, Invariance, PTL DEF Spec
<1> QED BY <1>1, <1>2, <1>3, InitAnswered, Invariance, PTL DEF Spec
=============================================================================
