------------------------- MODULE ProviderCache_proofs -------------------------
(***************************************************************************)
(* What the response cache promises, for any number of workers, bodies,     *)
(* prefixes and fetches. Three arguments: a call that holds the fetch lock   *)
(* is the holder Redis knows or has outlived its lock; a pointer passes only *)
(* through calls whose observation has committed; and, while no lock is      *)
(* outlived, one call at a time moves a row and its object, and the sweep    *)
(* works on rows that are dead for good.                                     *)
(***************************************************************************)
EXTENDS ProviderCache, TLAPS

Pcs == Calls \cup {"idle", "previous", "mark_missing", "unlock", "done"}
Phases == {"first", "waiting", "locked"}
Results == Bodies \cup {Nothing, "error", "in_progress"}

WorkerRecord ==
    [pc : Pcs, phase : Phases, p : Pointer \cup {Nothing}, observed_at : 0..MaxTime,
     previous : Keys \cup {Nothing}, lost : BOOLEAN, result : Results]

\* Where a call carries a pointer, and where the observation it names has committed.
Committed == {"materialize", "get", "requery", "mark_missing", "delete_corrupt", "mark_corrupt", "evict",
              "supersede", "remember"}
Carrying == Committed \cup {"previous", "put", "commit"}

SweepRow == [checksum : Bodies, key : Keys, deleted : BOOLEAN]

StoresOK ==
    /\ now \in 0..MaxTime /\ faults \in 0..MaxFaults
    /\ objects \in [Keys -> {"absent", "good", "corrupt"}]
    /\ blobs \in [Bodies -> BlobRow \cup {Nothing}]
    /\ observations \subseteq Observation
    /\ pointer \in Pointer \cup {Nothing}
    /\ hot \in [Bodies -> {"absent", "good", "bad"}]
    /\ lock \in Workers \cup {Nothing}
    /\ sweep \subseteq SweepRow

WorkersOK ==
    /\ worker \in [Workers -> WorkerRecord]
    /\ \A w \in Workers : worker[w].pc \in Carrying => worker[w].p \in Pointer

TInv == StoresOK /\ WorkersOK

\* The fetch lock is with the call that believes to hold it, or has run out.
LockIsHeld == \A w \in Workers : worker[w].phase = "locked" => lock = w \/ worker[w].lost

\* The observation a pointer names.
Named(p) == \E o \in observations : o.checksum = p.checksum /\ o.reusable_until = p.reusable_until

PointersAreNamed ==
    /\ pointer # Nothing => Named(pointer)
    /\ \A w \in Workers : worker[w].pc \in Committed => Named(worker[w].p)

\* A row past its expiry never becomes live again: LEAST keeps the earlier expiry.
Dead(b) == blobs[b] # Nothing /\ blobs[b].expires_at <= now

Recording == {"fetch", "previous", "put", "commit", "supersede"}

\* The call that records holds the lock, has not outlived it, and meets no rotten body.
RecorderHoldsLock(w) ==
    /\ worker[w].pc \in Recording => worker[w].phase = "locked"
    /\ ~worker[w].lost
    /\ worker[w].pc \notin {"delete_corrupt", "mark_corrupt", "evict"}

\* A key ends in the checksum of the body it is for, whoever holds it.
CallKeysFit(w) ==
    /\ worker[w].pc \in {"previous", "put", "commit", "supersede"} => worker[w].p.key[2] = worker[w].p.checksum
    /\ worker[w].pc \in {"put", "commit", "supersede"} /\ worker[w].previous # Nothing
          => worker[w].previous[2] = worker[w].p.checksum

\* Between the write of the object and that of its row, only a sweep of the dead row
\* removes the object; once the row is written it points to the object of this call.
RecordsWhatIsThere(w) ==
    /\ worker[w].pc = "commit" => objects[worker[w].p.key] # "absent" \/ Dead(worker[w].p.checksum)
    /\ worker[w].pc = "supersede" =>
          blobs[worker[w].p.checksum] # Nothing /\ blobs[worker[w].p.checksum].key = worker[w].p.key

\* While a call holds the lock no one else records, so what its lookup missed stays missing.
MissesStay(w) ==
    worker[w].phase = "locked" =>
        /\ worker[w].pc = "requery" => objects[worker[w].p.key] = "absent"
        /\ worker[w].pc = "mark_missing" => ~Live(worker[w].p.checksum)
        /\ worker[w].pc = "fetch" => NothingToReuse

CallFits(w) == RecorderHoldsLock(w) /\ CallKeysFit(w) /\ RecordsWhatIsThere(w) /\ MissesStay(w)

RowsFit ==
    /\ \A b \in Bodies : blobs[b] # Nothing => blobs[b].key[2] = b
    /\ \A k \in Keys : objects[k] # "corrupt"
    /\ LiveRowHasObject

\* The sweep deletes objects of dead rows only.
SweepsTheDead == \A s \in sweep : s.key[2] = s.checksum /\ Dead(s.checksum)

LInv ==
    /\ TInv /\ LockIsHeld /\ PointersAreNamed
    /\ RowsFit /\ SweepsTheDead
    /\ \A w \in Workers : CallFits(w)

-----------------------------------------------------------------------------
(* Types *)

LEMMA TInvTypes == TInv => CacheTypeOK
<1> SUFFICES ASSUME TInv, NEW w \in Workers
             PROVE  /\ worker[w].pc \in Pcs /\ worker[w].phase \in Phases /\ worker[w].p \in Pointer \cup {Nothing}
                    /\ worker[w].previous \in Keys \cup {Nothing} /\ worker[w].lost \in BOOLEAN
                    /\ worker[w].result \in Results
  BY DEF TInv, StoresOK, CacheTypeOK, Pcs, Phases, Results, SweepRow
<1> QED BY DEF TInv, WorkersOK, WorkerRecord

LEMMA IdleTyped == IdleWorker \in WorkerRecord /\ IdleWorker.pc \notin Carrying
BY ProviderCacheAssumption DEF IdleWorker, WorkerRecord, Pcs, Phases, Results, Carrying, Committed

\* A call whose local state becomes r.
LEMMA SetTyped ==
    ASSUME WorkersOK, NEW w \in Workers, NEW r \in WorkerRecord, r.pc \in Carrying => r.p \in Pointer, Set(w, r)
    PROVE  WorkersOK'
BY DEF WorkersOK, Set

LEMMA SetEffect ==
    ASSUME WorkersOK, NEW w \in Workers, NEW r, Set(w, r)
    PROVE  worker'[w] = r /\ \A v \in Workers \ {w} : worker'[v] = worker[v]
BY DEF WorkersOK, Set

LEMMA GotoTyped ==
    ASSUME WorkersOK, NEW w \in Workers, NEW pc \in Pcs, pc \in Carrying => worker[w].pc \in Carrying, Goto(w, pc)
    PROVE  WorkersOK'
<1> DEFINE r == [worker[w] EXCEPT !.pc = pc]
<1>1. r \in WorkerRecord /\ r.pc = pc /\ r.p = worker[w].p
  BY DEF WorkersOK, WorkerRecord
<1>2. r.pc \in Carrying => r.p \in Pointer
  BY <1>1 DEF WorkersOK
<1>3. Set(w, r)
  BY DEF Goto
<1> HIDE DEF r
<1> QED BY <1>1, <1>2, <1>3, SetTyped

LEMMA MissTyped ==
    ASSUME WorkersOK, NEW w \in Workers, Miss(w)
    PROVE  WorkersOK'
<1> DEFINE pc == AfterMiss(worker[w].phase)
           r == [worker[w] EXCEPT !.pc = pc, !.p = Nothing]
<1>1. pc \in {"acquire", "wait", "fetch"}
  BY DEF AfterMiss
<1> HIDE DEF pc
<1>2. r \in WorkerRecord /\ r.pc = pc
  BY <1>1 DEF WorkersOK, WorkerRecord, Pcs, Calls
<1>3. Set(w, r)
  BY DEF Miss, pc
<1>4. r.pc \notin Carrying
  BY <1>1, <1>2 DEF Carrying, Committed
<1> HIDE DEF r
<1> QED BY <1>2, <1>3, <1>4, SetTyped

LEMMA ReturnTyped ==
    ASSUME WorkersOK, NEW w \in Workers, NEW result \in Results, Return(w, result)
    PROVE  WorkersOK'
<1> DEFINE r == [worker[w] EXCEPT !.pc = "unlock", !.result = result, !.p = Nothing]
           q == [IdleWorker EXCEPT !.pc = "done", !.result = result]
<1>1. r \in WorkerRecord /\ r.pc = "unlock"
  BY DEF WorkersOK, WorkerRecord, Pcs
<1>2. q \in WorkerRecord /\ q.pc = "done"
  BY IdleTyped DEF WorkerRecord, Pcs
<1>3. Set(w, r) \/ Set(w, q)
  BY DEF Return
<1> HIDE DEF r, q
<1> QED BY <1>1, <1>2, <1>3, SetTyped DEF Carrying, Committed

LEMMA ChargeTyped ==
    ASSUME faults \in 0..MaxFaults, NEW ok \in Attempt, Charge(ok)
    PROVE  faults' \in 0..MaxFaults
<1>1. ok \/ faults < MaxFaults
  BY Zenon DEF Attempt
<1>2. faults' = faults \/ (faults < MaxFaults /\ faults' = faults + 1)
  BY <1>1, Zenon DEF Charge
<1> QED BY <1>2, ProviderCacheAssumption

LEMMA FaultTyped ==
    ASSUME faults \in 0..MaxFaults, NEW kind, Fault(kind)
    PROVE  faults' \in 0..MaxFaults
BY ProviderCacheAssumption DEF Fault

\* A pointer read from a record of the state.
LEMMA PointerTyped ==
    ASSUME TInv, NEW o \in observations, blobs[o.checksum] # Nothing
    PROVE  [checksum |-> o.checksum, key |-> blobs[o.checksum].key, reusable_until |-> o.reusable_until] \in Pointer
<1>1. o \in Observation
  BY DEF TInv, StoresOK
<1>2. blobs[o.checksum] \in BlobRow
  BY <1>1 DEF TInv, StoresOK, Observation
<1> QED BY <1>1, <1>2 DEF Observation, BlobRow, Pointer

\* What a call carries becomes p.
LEMMA CarryTyped ==
    ASSUME WorkersOK, NEW w \in Workers, NEW pc \in Pcs, NEW p \in Pointer,
           Set(w, [worker[w] EXCEPT !.pc = pc, !.p = p])
    PROVE  WorkersOK'
<1> DEFINE r == [worker[w] EXCEPT !.pc = pc, !.p = p]
<1>1. r \in WorkerRecord /\ r.p = p
  BY DEF WorkersOK, WorkerRecord
<1>2. Set(w, r)
  OBVIOUS
<1> HIDE DEF r
<1> QED BY <1>1, <1>2, SetTyped

LEMMA LookupTInv ==
    ASSUME TInv, NEW w \in Workers, LookupRedis(w) \/ LookupDurable(w)
    PROVE  TInv'
<1> USE DEF TInv
<1>1. CASE LookupRedis(w)
  <2>1. CASE pointer # Nothing /\ now < pointer.reusable_until
    <3>1. WorkersOK'
      BY <1>1, <2>1, CarryTyped DEF LookupRedis, StoresOK, Pcs, Calls
    <3> QED BY <1>1, <2>1, <3>1 DEF LookupRedis, StoresOK
  <2>2. CASE ~(pointer # Nothing /\ now < pointer.reusable_until)
    <3>1. WorkersOK'
      BY <1>1, <2>2, GotoTyped DEF LookupRedis, Pcs, Calls, Carrying, Committed
    <3>2. faults' \in 0..MaxFaults /\ pointer' \in Pointer \cup {Nothing}
      BY <1>1, <2>2, ChargeTyped DEF LookupRedis, StoresOK
    <3> QED BY <1>1, <3>1, <3>2 DEF LookupRedis, StoresOK
  <2> QED BY <2>1, <2>2
<1>2. CASE LookupDurable(w)
  <2>1. StoresOK'
    BY <1>2 DEF LookupDurable, StoresOK, redis
  <2>2. CASE Miss(w)
    BY <2>1, <2>2, MissTyped
  <2>3. CASE \E o \in Reusable :
               Set(w, [worker[w] EXCEPT !.pc = "materialize",
                         !.p = [checksum |-> o.checksum, key |-> blobs[o.checksum].key,
                                reusable_until |-> o.reusable_until]])
    <3>1. PICK o \in Reusable :
               Set(w, [worker[w] EXCEPT !.pc = "materialize",
                         !.p = [checksum |-> o.checksum, key |-> blobs[o.checksum].key,
                                reusable_until |-> o.reusable_until]])
      BY <2>3
    <3>2. o \in observations /\ blobs[o.checksum] # Nothing
      BY DEF Reusable, Live
    <3>3. [checksum |-> o.checksum, key |-> blobs[o.checksum].key, reusable_until |-> o.reusable_until] \in Pointer
      BY <3>2, PointerTyped
    <3> QED BY <2>1, <3>1, <3>3, CarryTyped DEF Pcs, Calls
  <2> QED BY <1>2, <2>2, <2>3 DEF LookupDurable
<1> QED BY <1>1, <1>2

LEMMA MaterializeTInv ==
    ASSUME TInv, NEW w \in Workers,
           ReadHotBody(w) \/ ReadObject(w) \/ RequeryKey(w) \/ DeleteCorrupt(w) \/ EvictCorrupt(w)
    PROVE  TInv'
<1> USE DEF TInv
<1> DEFINE p == worker[w].p
<1>1. worker[w].pc \in Carrying /\ p \in Pointer
  BY DEF ReadHotBody, ReadObject, RequeryKey, DeleteCorrupt, EvictCorrupt, WorkersOK, Carrying, Committed
<1>2. p.checksum \in Bodies /\ p.key \in Keys
  BY <1>1 DEF Pointer
<1>3. CASE ReadHotBody(w)
  <2>1. faults' \in 0..MaxFaults
    BY <1>3, ChargeTyped DEF ReadHotBody, StoresOK
  <2>2. hot' \in [Bodies -> {"absent", "good", "bad"}]
    BY <1>3 DEF ReadHotBody, StoresOK
  <2>3. WorkersOK'
    <3>1. CASE worker' = worker
      BY <3>1 DEF WorkersOK
    <3>2. ASSUME NEW pc \in {"remember", "get"}, Goto(w, pc) PROVE WorkersOK'
      BY <1>1, <3>2, GotoTyped DEF Pcs, Calls
    <3> QED BY <1>3, <3>1, <3>2 DEF ReadHotBody
  <2> QED BY <1>3, <2>1, <2>2, <2>3 DEF ReadHotBody, StoresOK
<1>4. CASE ReadObject(w)
  <2>1. ASSUME NEW pc \in {"remember", "delete_corrupt", "requery"}, Goto(w, pc) PROVE WorkersOK'
    BY <1>1, <2>1, GotoTyped DEF Pcs, Calls
  <2>2. StoresOK'
    BY <1>4 DEF ReadObject, StoresOK, redis
  <2> QED BY <1>4, <2>1, <2>2 DEF ReadObject
<1>5. CASE RequeryKey(w)
  <2>1. faults' \in 0..MaxFaults /\ pointer' \in Pointer \cup {Nothing}
    BY <1>5, ChargeTyped DEF RequeryKey, StoresOK
  <2>2. CASE /\ Live(p.checksum)
             /\ Set(w, [worker[w] EXCEPT !.pc = "materialize", !.p.key = blobs[p.checksum].key])
    <3>1. blobs[p.checksum].key \in Keys
      BY <1>2, <2>2 DEF Live, StoresOK, BlobRow
    <3>2. [p EXCEPT !.key = blobs[p.checksum].key] \in Pointer
      BY <1>1, <3>1 DEF Pointer
    <3>3. Set(w, [worker[w] EXCEPT !.pc = "materialize", !.p = [p EXCEPT !.key = blobs[p.checksum].key]])
      BY <2>2
    <3> QED BY <1>5, <2>1, <3>2, <3>3, CarryTyped DEF RequeryKey, StoresOK, Pcs, Calls
  <2>3. CASE Goto(w, "mark_missing")
    BY <1>1, <1>5, <2>1, <2>3, GotoTyped DEF RequeryKey, StoresOK, Pcs, Carrying, Committed
  <2> QED BY <1>5, <2>2, <2>3 DEF RequeryKey
<1>6. CASE DeleteCorrupt(w)
  <2>1. WorkersOK'
    BY <1>1, <1>6, GotoTyped DEF DeleteCorrupt, Pcs, Calls, Carrying, Committed
  <2>2. objects' \in [Keys -> {"absent", "good", "corrupt"}]
    BY <1>6 DEF DeleteCorrupt, StoresOK
  <2> QED BY <1>6, <2>1, <2>2 DEF DeleteCorrupt, StoresOK, redis
<1>7. CASE EvictCorrupt(w)
  <2>1. WorkersOK'
    BY <1>7, MissTyped DEF EvictCorrupt
  <2>2. hot' \in [Bodies -> {"absent", "good", "bad"}]
    BY <1>7 DEF EvictCorrupt, StoresOK
  <2> QED BY <1>7, <2>1, <2>2 DEF EvictCorrupt, StoresOK
<1> QED BY <1>3, <1>4, <1>5, <1>6, <1>7

\* A row of which only the marks change.
LEMMA MarkTyped ==
    ASSUME NEW r \in BlobRow
    PROVE  /\ [r EXCEPT !.deleted = TRUE] \in BlobRow
           /\ [r EXCEPT !.deleted = TRUE, !.integrity = "corrupt"] \in BlobRow
BY DEF BlobRow

LEMMA MarkTInv ==
    ASSUME TInv, NEW w \in Workers, MarkMissing(w) \/ MarkCorrupt(w)
    PROVE  TInv'
<1> USE DEF TInv
<1> DEFINE b == worker[w].p.checksum
<1>1. worker[w].pc \in Carrying /\ b \in Bodies
  BY DEF MarkMissing, MarkCorrupt, WorkersOK, Carrying, Committed, Pointer
<1>2. blobs[b] # Nothing => blobs[b] \in BlobRow
  BY <1>1 DEF StoresOK
<1>3. blobs' \in [Bodies -> BlobRow \cup {Nothing}]
  <2>1. PICK row \in {blobs[b], [blobs[b] EXCEPT !.deleted = TRUE],
                      [blobs[b] EXCEPT !.deleted = TRUE, !.integrity = "corrupt"]} :
          blobs' = [blobs EXCEPT ![b] = row] /\ (row # blobs[b] => blobs[b] # Nothing)
    <3>1. CASE MarkMissing(w)
      <4>1. PICK ok \in Attempt : blobs' = [blobs EXCEPT ![b] = IF blobs[b] = Nothing \/ ~ok THEN blobs[b]
                                                               ELSE [blobs[b] EXCEPT !.deleted = TRUE]]
        BY <3>1 DEF MarkMissing
      <4> DEFINE row == IF blobs[b] = Nothing \/ ~ok THEN blobs[b] ELSE [blobs[b] EXCEPT !.deleted = TRUE]
      <4>2. /\ row \in {blobs[b], [blobs[b] EXCEPT !.deleted = TRUE]}
            /\ row # blobs[b] => blobs[b] # Nothing
        BY Zenon
      <4>3. blobs' = [blobs EXCEPT ![b] = row]
        BY <4>1, Zenon
      <4> HIDE DEF row
      <4> QED BY <4>2, <4>3
    <3>2. CASE MarkCorrupt(w)
      BY <3>2 DEF MarkCorrupt
    <3> QED BY <3>1, <3>2
  <2>2. row \in BlobRow \cup {Nothing}
    <3>1. CASE row = blobs[b]
      BY <1>1, <3>1 DEF StoresOK
    <3>2. CASE row # blobs[b]
      <4>1. blobs[b] \in BlobRow
        BY <1>2, <2>1, <3>2
      <4> QED BY <2>1, <3>2, <4>1, MarkTyped, Zenon
    <3> QED BY <3>1, <3>2
  <2> QED BY <2>1, <2>2 DEF StoresOK
<1>4. CASE MarkMissing(w)
  <2>1. faults' \in 0..MaxFaults
    BY <1>4, ChargeTyped DEF MarkMissing, StoresOK
  <2>2. WorkersOK'
    BY <1>4, MissTyped DEF MarkMissing
  <2> QED BY <1>3, <1>4, <2>1, <2>2 DEF MarkMissing, StoresOK, redis
<1>5. CASE MarkCorrupt(w)
  <2>1. WorkersOK'
    BY <1>1, <1>5, GotoTyped DEF MarkCorrupt, Pcs, Calls, Carrying, Committed
  <2> QED BY <1>3, <1>5, <2>1 DEF MarkCorrupt, StoresOK, redis
<1> QED BY <1>4, <1>5

LEMMA LockTInv ==
    ASSUME TInv, NEW w \in Workers,
           StartResolve(w) \/ AcquireLock(w) \/ Poll(w) \/ GiveUp(w) \/ Unlock(w) \/ Finish(w) \/ ReturnError(w)
    PROVE  TInv'
<1> USE DEF TInv
<1>1. CASE StartResolve(w) \/ Poll(w)
  <2>1. Goto(w, "lookup")
    BY <1>1 DEF StartResolve, Poll
  <2>2. WorkersOK'
    BY <2>1, GotoTyped DEF Pcs, Calls, Carrying, Committed
  <2> QED BY <1>1, <2>2 DEF StartResolve, Poll, StoresOK, redis
<1>2. CASE AcquireLock(w)
  <2>1. PICK pc \in {"lookup", "wait"}, phase \in {"locked", "waiting"} :
               Set(w, [worker[w] EXCEPT !.pc = pc, !.phase = phase])
    BY <1>2 DEF AcquireLock
  <2> DEFINE r == [worker[w] EXCEPT !.pc = pc, !.phase = phase]
  <2>2. r \in WorkerRecord /\ r.pc \notin Carrying
    BY DEF WorkersOK, WorkerRecord, Pcs, Calls, Phases, Carrying, Committed
  <2>3. Set(w, r)
    BY <2>1
  <2> HIDE DEF r
  <2>4. WorkersOK'
    BY <2>2, <2>3, SetTyped
  <2>5. lock' \in Workers \cup {Nothing}
    BY <1>2 DEF AcquireLock, StoresOK
  <2> QED BY <1>2, <2>4, <2>5 DEF AcquireLock, StoresOK
<1>3. CASE GiveUp(w) \/ ReturnError(w)
  <2>1. PICK result \in Results : Return(w, result)
    BY <1>3 DEF GiveUp, ReturnError, Results
  <2> QED BY <1>3, <2>1, ReturnTyped DEF GiveUp, ReturnError, StoresOK, redis
<1>4. CASE Unlock(w)
  <2> DEFINE r == [IdleWorker EXCEPT !.pc = "done", !.result = worker[w].result]
  <2>1. worker[w].result \in Results
    BY DEF WorkersOK, WorkerRecord
  <2>2. r \in WorkerRecord /\ r.pc \notin Carrying
    BY <2>1, IdleTyped DEF WorkerRecord, Pcs, Carrying, Committed
  <2>3. Set(w, r)
    BY <1>4 DEF Unlock
  <2> HIDE DEF r
  <2>4. WorkersOK'
    BY <2>2, <2>3, SetTyped
  <2>5. lock' \in Workers \cup {Nothing} /\ faults' \in 0..MaxFaults
    BY <1>4, ChargeTyped DEF Unlock, StoresOK
  <2> QED BY <1>4, <2>4, <2>5 DEF Unlock, StoresOK
<1>5. CASE Finish(w)
  BY <1>5, IdleTyped, SetTyped DEF Finish, StoresOK, redis
<1> QED BY <1>1, <1>2, <1>3, <1>4, <1>5

LEMMA FetchTInv == ASSUME TInv, NEW w \in Workers, Fetch(w) PROVE TInv'
<1> USE DEF TInv
<1>1. PICK b \in Bodies, duration \in {0, ReuseDuration} :
             Set(w, [worker[w] EXCEPT !.pc = "previous", !.observed_at = now,
                       !.p = [checksum |-> b, key |-> <<Prefix[w], b>>, reusable_until |-> now + duration]])
  BY DEF Fetch
<1> DEFINE p == [checksum |-> b, key |-> <<Prefix[w], b>>, reusable_until |-> now + duration]
           r == [worker[w] EXCEPT !.pc = "previous", !.observed_at = now, !.p = p]
<1>2. p \in Pointer
  <2>1. now + duration \in Nat
    BY ProviderCacheAssumption DEF StoresOK
  <2>2. <<Prefix[w], b>> \in Keys
    BY ProviderCacheAssumption DEF Keys
  <2> QED BY <2>1, <2>2 DEF Pointer
<1>3. now \in 0..MaxTime
  BY DEF StoresOK
<1>4. Set(w, r)
  BY <1>1
<1> HIDE DEF p
<1>5. r \in WorkerRecord /\ r.p = p
  BY <1>2, <1>3 DEF WorkersOK, WorkerRecord, Pcs
<1> HIDE DEF r
<1>6. WorkersOK'
  BY <1>2, <1>4, <1>5, SetTyped
<1> QED BY <1>6 DEF Fetch, StoresOK, redis

\* A call reads the key of a row, or none.
LEMMA ReadPreviousEffect ==
    ASSUME NEW w \in Workers, ReadPrevious(w)
    PROVE  LET row == blobs[worker[w].p.checksum] IN
           \E prev, k : /\ Set(w, [worker[w] EXCEPT !.pc = "put", !.previous = prev, !.p.key = k])
                        /\ k = worker[w].p.key \/ (row # Nothing /\ k = row.key)
                        /\ prev = Nothing \/ (row # Nothing /\ prev = row.key)
<1> DEFINE row == blobs[worker[w].p.checksum]
<1>1. PICK ok \in Attempt :
        LET r == IF ok THEN row ELSE Nothing IN
        Set(w, [worker[w] EXCEPT !.pc = "put", !.previous = IF r = Nothing THEN Nothing ELSE r.key,
                  !.p.key = IF r # Nothing /\ r.expires_at = Never THEN r.key ELSE worker[w].p.key])
  BY DEF ReadPrevious
<1> DEFINE r == IF ok THEN row ELSE Nothing
           prev == IF r = Nothing THEN Nothing ELSE r.key
           k == IF r # Nothing /\ r.expires_at = Never THEN r.key ELSE worker[w].p.key
<1>2. Set(w, [worker[w] EXCEPT !.pc = "put", !.previous = prev, !.p.key = k])
  BY <1>1
<1>3. r = row \/ r = Nothing
  BY Zenon
<1>4. k = worker[w].p.key \/ (row # Nothing /\ k = row.key)
  BY <1>3, Zenon
<1>5. prev = Nothing \/ (row # Nothing /\ prev = row.key)
  BY <1>3, Zenon
<1> HIDE DEF prev, k
<1> QED BY <1>2, <1>4, <1>5

LEMMA ReadPreviousTInv == ASSUME TInv, NEW w \in Workers, ReadPrevious(w) PROVE TInv'
<1> USE DEF TInv
<1> DEFINE row == blobs[worker[w].p.checksum]
<1>1. worker[w].p \in Pointer
  BY DEF ReadPrevious, WorkersOK, Carrying
<1>2. row # Nothing => row.key \in Keys
  BY <1>1 DEF StoresOK, BlobRow, Pointer
<1>3. PICK prev, k :
        /\ Set(w, [worker[w] EXCEPT !.pc = "put", !.previous = prev, !.p.key = k])
        /\ k = worker[w].p.key \/ (row # Nothing /\ k = row.key)
        /\ prev = Nothing \/ (row # Nothing /\ prev = row.key)
  BY ReadPreviousEffect
<1>4. StoresOK'
  BY ChargeTyped DEF ReadPrevious, StoresOK, redis
<1> DEFINE q == [worker[w].p EXCEPT !.key = k]
           r == [worker[w] EXCEPT !.pc = "put", !.previous = prev, !.p = q]
<1>5. k \in Keys /\ prev \in Keys \cup {Nothing}
  BY <1>1, <1>2, <1>3 DEF Pointer
<1>6. q \in Pointer
  BY <1>1, <1>5 DEF Pointer
<1>7. Set(w, r)
  BY <1>3
<1> HIDE DEF q
<1>8. r \in WorkerRecord /\ r.p = q
  BY <1>5, <1>6 DEF WorkersOK, WorkerRecord, Pcs, Calls
<1> HIDE DEF r
<1> QED BY <1>4, <1>6, <1>7, <1>8, SetTyped

LEMMA NextExpiryTyped ==
    ASSUME TInv, NEW b \in Bodies, NEW expires \in 0..(MaxTime + Retention)
    PROVE  /\ NextExpiry(b, expires) \in 0..Never
           /\ Dead(b) => NextExpiry(b, expires) <= now
<1> USE ProviderCacheAssumption
<1>1. blobs[b] # Nothing => blobs[b].expires_at \in 0..Never
  BY DEF TInv, StoresOK, BlobRow
<1>2. now \in 0..MaxTime
  BY DEF TInv, StoresOK
<1> QED BY <1>1, <1>2 DEF NextExpiry, Earlier, Never, Dead

\* The row a call writes.
NewRow(w) == [key |-> worker[w].p.key, deleted |-> FALSE, integrity |-> "verified",
              expires_at |-> NextExpiry(worker[w].p.checksum, worker[w].observed_at + Retention)]

LEMMA NewRowTyped ==
    ASSUME TInv, NEW w \in Workers, worker[w].pc \in Carrying
    PROVE  NewRow(w) \in BlobRow /\ (Dead(worker[w].p.checksum) => NewRow(w).expires_at <= now)
<1>1. worker[w].p \in Pointer /\ worker[w].observed_at \in 0..MaxTime
  BY DEF TInv, WorkersOK, WorkerRecord
<1>2. worker[w].observed_at + Retention \in 0..(MaxTime + Retention)
  BY <1>1, ProviderCacheAssumption
<1> DEFINE x == NextExpiry(worker[w].p.checksum, worker[w].observed_at + Retention)
<1>3. x \in 0..Never /\ (Dead(worker[w].p.checksum) => x <= now)
  BY <1>1, <1>2, NextExpiryTyped DEF Pointer
<1> HIDE DEF x
<1>4. NewRow(w) = [key |-> worker[w].p.key, deleted |-> FALSE, integrity |-> "verified", expires_at |-> x]
  BY DEF NewRow, x
<1> QED BY <1>1, <1>3, <1>4 DEF BlobRow, Pointer

LEMMA RecordTInv ==
    ASSUME TInv, NEW w \in Workers, PutImmutable(w) \/ CommitObservation(w) \/ DeleteSuperseded(w) \/ Remember(w)
    PROVE  TInv'
<1> USE DEF TInv
<1> DEFINE p == worker[w].p
<1>1. worker[w].pc \in Carrying /\ p \in Pointer
  BY DEF PutImmutable, CommitObservation, DeleteSuperseded, Remember, WorkersOK, Carrying, Committed
<1>2. CASE PutImmutable(w)
  <2>1. objects' \in [Keys -> {"absent", "good", "corrupt"}]
    BY <1>2 DEF PutImmutable, StoresOK
  <2>2. WorkersOK'
    BY <1>1, <1>2, GotoTyped DEF PutImmutable, Pcs, Calls
  <2> QED BY <1>2, <2>1, <2>2 DEF PutImmutable, StoresOK, redis
<1>3. CASE CommitObservation(w)
  <2>1. blobs' \in [Bodies -> BlobRow \cup {Nothing}]
    <3>1. blobs' = [blobs EXCEPT ![p.checksum] = NewRow(w)]
      BY <1>3 DEF CommitObservation, NewRow
    <3>2. NewRow(w) \in BlobRow
      BY <1>1, NewRowTyped
    <3> QED BY <3>1, <3>2 DEF StoresOK
  <2>2. observations' \subseteq Observation
    <3>1. worker[w].observed_at \in Nat
      BY ProviderCacheAssumption DEF WorkersOK, WorkerRecord
    <3>2. [checksum |-> p.checksum, observed_at |-> worker[w].observed_at, reusable_until |-> p.reusable_until]
            \in Observation
      BY <1>1, <3>1 DEF Pointer, Observation
    <3> QED BY <1>3, <3>2 DEF CommitObservation, StoresOK
  <2>3. WorkersOK'
    BY <1>1, <1>3, GotoTyped DEF CommitObservation, Pcs, Calls
  <2> QED BY <1>3, <2>1, <2>2, <2>3 DEF CommitObservation, StoresOK, redis
<1>4. CASE DeleteSuperseded(w)
  <2>1. objects' \in [Keys -> {"absent", "good", "corrupt"}]
    BY <1>4 DEF DeleteSuperseded, StoresOK
  <2>2. WorkersOK'
    BY <1>1, <1>4, GotoTyped DEF DeleteSuperseded, Pcs, Calls
  <2> QED BY <1>4, <2>1, <2>2 DEF DeleteSuperseded, StoresOK, redis
<1>5. CASE Remember(w)
  <2>1. pointer' \in Pointer \cup {Nothing}
    BY <1>1, <1>5 DEF Remember, StoresOK
  <2>2. hot' \in [Bodies -> {"absent", "good", "bad"}]
    BY <1>5 DEF Remember, StoresOK
  <2>3. WorkersOK'
    <3>1. p.checksum \in Results /\ Return(w, p.checksum)
      BY <1>1, <1>5 DEF Remember, Results, Pointer
    <3> QED BY <3>1, ReturnTyped
  <2> QED BY <1>5, <2>1, <2>2, <2>3 DEF Remember, StoresOK
<1> QED BY <1>2, <1>3, <1>4, <1>5

LEMMA SweepTInv == ASSUME TInv, SweepExpiredBlobs \/ SweepAbort PROVE TInv'
<1> USE DEF TInv
<1>1. WorkersOK'
  BY DEF SweepExpiredBlobs, SweepSelect, SweepDelete, SweepMark, SweepAbort, WorkersOK
<1>2. CASE SweepSelect
  <2>1. ASSUME NEW b \in Bodies, Expired(b)
        PROVE  [checksum |-> b, key |-> blobs[b].key, deleted |-> FALSE] \in SweepRow
    BY <2>1 DEF Expired, StoresOK, BlobRow, SweepRow
  <2> QED BY <1>1, <1>2, <2>1 DEF SweepSelect, StoresOK, redis
<1>3. CASE SweepDelete
  <2>1. PICK s \in sweep : /\ objects' = [objects EXCEPT ![s.key] = "absent"]
                           /\ sweep' = (sweep \ {s}) \cup {[s EXCEPT !.deleted = TRUE]}
                           /\ UNCHANGED <<now, blobs, observations, redis, worker, faults>>
    BY <1>3 DEF SweepDelete
  <2>2. [s EXCEPT !.deleted = TRUE] \in SweepRow
    BY DEF StoresOK, SweepRow
  <2>3. objects' \in [Keys -> {"absent", "good", "corrupt"}]
    BY <2>1 DEF StoresOK
  <2> QED BY <1>1, <2>1, <2>2, <2>3 DEF StoresOK, redis
<1>4. CASE SweepMark
  <2>1. PICK s \in sweep :
          /\ blobs' = [blobs EXCEPT ![s.checksum] =
                          IF Expired(s.checksum) THEN [@ EXCEPT !.deleted = TRUE] ELSE @]
          /\ sweep' = sweep \ {s}
          /\ UNCHANGED <<now, objects, observations, redis, worker, faults>>
    BY <1>4 DEF SweepMark
  <2>2. s.checksum \in Bodies /\ (Expired(s.checksum) => blobs[s.checksum] \in BlobRow)
    BY DEF StoresOK, SweepRow, Expired
  <2>3. blobs' \in [Bodies -> BlobRow \cup {Nothing}]
    BY <2>1, <2>2, MarkTyped DEF StoresOK
  <2> QED BY <1>1, <2>1, <2>3 DEF StoresOK, redis
<1>5. CASE SweepAbort
  BY <1>1, <1>5 DEF SweepAbort, StoresOK, redis
<1> QED BY <1>2, <1>3, <1>4, <1>5 DEF SweepExpiredBlobs

LEMMA EnvironmentTInv ==
    ASSUME TInv, Tick \/ LockExpires \/ HotBodyExpires \/ EvictPointer \/ LifecycleExpires \/ Corrupt
    PROVE  TInv'
<1> USE DEF TInv
<1>1. CASE Tick
  BY <1>1, ProviderCacheAssumption DEF Tick, StoresOK, WorkersOK, redis
<1>2. CASE LockExpires
  <2>1. faults' \in 0..MaxFaults
    BY <1>2, FaultTyped DEF LockExpires, StoresOK
  <2>2. PICK x \in BOOLEAN : worker' = [worker EXCEPT ![lock].lost = x]
    BY <1>2, Zenon DEF LockExpires
  <2>3. WorkersOK'
    BY <1>2, <2>2 DEF LockExpires, WorkersOK, WorkerRecord, StoresOK
  <2> QED BY <1>2, <2>1, <2>3 DEF LockExpires, StoresOK
<1>3. CASE HotBodyExpires \/ EvictPointer
  <2>1. faults' \in 0..MaxFaults
    BY <1>3, FaultTyped DEF HotBodyExpires, EvictPointer, StoresOK
  <2>2. pointer' \in Pointer \cup {Nothing} /\ hot' \in [Bodies -> {"absent", "good", "bad"}]
    BY <1>3 DEF HotBodyExpires, EvictPointer, StoresOK
  <2> QED BY <1>3, <2>1, <2>2 DEF HotBodyExpires, EvictPointer, StoresOK, WorkersOK
<1>4. CASE LifecycleExpires \/ Corrupt
  <2>1. faults' \in 0..MaxFaults
    BY <1>4, FaultTyped DEF LifecycleExpires, Corrupt, StoresOK
  <2>2. objects' \in [Keys -> {"absent", "good", "corrupt"}] /\ hot' \in [Bodies -> {"absent", "good", "bad"}]
    BY <1>4 DEF LifecycleExpires, Corrupt, StoresOK, redis
  <2> QED BY <1>4, <2>1, <2>2 DEF LifecycleExpires, Corrupt, StoresOK, WorkersOK, redis
<1> QED BY <1>1, <1>2, <1>3, <1>4

LEMMA InitTInv == CacheInit => TInv
<1> SUFFICES ASSUME CacheInit PROVE TInv
  OBVIOUS
<1>1. WorkersOK
  BY IdleTyped DEF CacheInit, WorkersOK
<1>2. /\ blobs \in [Bodies -> BlobRow \cup {Nothing}]
      /\ objects \in [Keys -> {"absent", "good", "corrupt"}]
  <2>1. CASE blobs = [b \in Bodies |-> Nothing] /\ objects = [k \in Keys |-> "absent"]
    BY <2>1
  <2>2. CASE \E b \in Bodies, x \in Prefixes, expiry \in {1, Never} :
                /\ blobs = [c \in Bodies |-> IF c # b THEN Nothing ELSE
                              [key |-> <<x, b>>, expires_at |-> expiry, deleted |-> FALSE,
                               integrity |-> "verified"]]
                /\ objects = [k \in Keys |-> IF k = <<x, b>> THEN "good" ELSE "absent"]
    <3>1. \A expiry \in {1, Never} : expiry \in 0..Never
      BY ProviderCacheAssumption DEF Never
    <3>2. ASSUME NEW b \in Bodies, NEW x \in Prefixes, NEW expiry \in {1, Never}
          PROVE  [key |-> <<x, b>>, expires_at |-> expiry, deleted |-> FALSE, integrity |-> "verified"] \in BlobRow
      BY <3>1 DEF BlobRow, Keys
    <3> QED BY <2>2, <3>2
  <2> QED BY <2>1, <2>2 DEF CacheInit
<1> QED BY <1>1, <1>2, ProviderCacheAssumption DEF CacheInit, TInv, StoresOK

LEMMA InductiveTInv == TInv /\ [CacheNext]_cacheVars => TInv'
<1> SUFFICES ASSUME TInv, [CacheNext]_cacheVars PROVE TInv'
  OBVIOUS
<1>1. CASE UNCHANGED cacheVars
  BY <1>1 DEF cacheVars, redis, TInv, StoresOK, WorkersOK
<1>2. ASSUME NEW w \in Workers, WorkerDies(w) PROVE TInv'
  BY <1>2, IdleTyped, SetTyped, FaultTyped DEF WorkerDies, TInv, StoresOK, redis
<1>3. ASSUME NEW w \in Workers, Resolve(w) \/ ReturnError(w) PROVE TInv'
  BY <1>3, LookupTInv, MaterializeTInv, MarkTInv, LockTInv, FetchTInv, ReadPreviousTInv, RecordTInv DEF Resolve
<1> QED BY <1>1, <1>2, <1>3, SweepTInv, EnvironmentTInv DEF CacheNext

LEMMA TInvHolds == CacheSpec => []TInv
BY InitTInv, InductiveTInv, PTL DEF CacheSpec

\* Every reachable state of the cache is well typed.
THEOREM CacheTypeSafety == CacheSpec => []CacheTypeOK
BY TInvHolds, TInvTypes, PTL

-----------------------------------------------------------------------------
(* What the ways to go on change of a call *)

OthersStay(w) == \A v \in Workers \ {w} : worker'[v] = worker[v]

LEMMA GotoEffect ==
    ASSUME WorkersOK, NEW w \in Workers, NEW pc, Goto(w, pc)
    PROVE  /\ OthersStay(w) /\ worker'[w].pc = pc
           /\ worker'[w].phase = worker[w].phase /\ worker'[w].lost = worker[w].lost
           /\ worker'[w].p = worker[w].p /\ worker'[w].previous = worker[w].previous
<1>1. Set(w, [worker[w] EXCEPT !.pc = pc])
  BY DEF Goto
<1>2. worker[w] \in WorkerRecord
  BY DEF WorkersOK
<1> QED BY <1>1, <1>2, SetEffect DEF OthersStay, WorkerRecord

LEMMA MissEffect ==
    ASSUME WorkersOK, NEW w \in Workers, Miss(w)
    PROVE  /\ OthersStay(w) /\ worker'[w].pc = AfterMiss(worker[w].phase)
           /\ worker'[w].phase = worker[w].phase /\ worker'[w].lost = worker[w].lost
           /\ worker'[w].pc \in {"acquire", "wait", "fetch"}
           /\ worker'[w].pc = "fetch" => worker[w].phase = "locked"
<1> DEFINE pc == AfterMiss(worker[w].phase)
           r == [worker[w] EXCEPT !.pc = pc, !.p = Nothing]
<1>1. Set(w, r)
  BY DEF Miss
<1>2. worker[w] \in WorkerRecord
  BY DEF WorkersOK
<1>3. worker[w].phase \in Phases
  BY <1>2 DEF WorkerRecord
<1>4. pc \in {"acquire", "wait", "fetch"} /\ (pc = "fetch" => worker[w].phase = "locked")
  BY <1>3 DEF AfterMiss, Phases
<1> HIDE DEF pc
<1>5. r.pc = pc /\ r.phase = worker[w].phase /\ r.lost = worker[w].lost
  BY <1>2 DEF WorkerRecord
<1> HIDE DEF r
<1>6. OthersStay(w) /\ worker'[w] = r
  BY <1>1, SetEffect DEF OthersStay
<1> QED BY <1>4, <1>5, <1>6 DEF pc

LEMMA ReturnEffect ==
    ASSUME WorkersOK, NEW w \in Workers, NEW result, Return(w, result)
    PROVE  /\ OthersStay(w) /\ worker'[w].pc \in {"unlock", "done"}
           /\ worker'[w].phase = "locked" => worker[w].phase = "locked"
           /\ worker'[w].phase = "locked" => worker'[w].lost = worker[w].lost
           /\ worker'[w].lost => worker[w].lost
<1>1. worker[w] \in WorkerRecord
  BY DEF WorkersOK
<1>2. CASE Set(w, [worker[w] EXCEPT !.pc = "unlock", !.result = result, !.p = Nothing])
  <2> DEFINE r == [worker[w] EXCEPT !.pc = "unlock", !.result = result, !.p = Nothing]
  <2>1. r.pc = "unlock" /\ r.phase = worker[w].phase /\ r.lost = worker[w].lost
    BY <1>1 DEF WorkerRecord
  <2>2. Set(w, r)
    BY <1>2
  <2> HIDE DEF r
  <2>3. OthersStay(w) /\ worker'[w] = r
    BY <2>2, SetEffect DEF OthersStay
  <2> QED BY <2>1, <2>3
<1>3. CASE Set(w, [IdleWorker EXCEPT !.pc = "done", !.result = result])
  <2> DEFINE r == [IdleWorker EXCEPT !.pc = "done", !.result = result]
  <2>1. r.pc = "done" /\ r.phase = "first" /\ r.lost = FALSE
    BY DEF IdleWorker
  <2>2. Set(w, r)
    BY <1>3
  <2> HIDE DEF r
  <2>3. OthersStay(w) /\ worker'[w] = r
    BY <2>2, SetEffect DEF OthersStay
  <2> QED BY <2>1, <2>3
<1> QED BY <1>2, <1>3 DEF Return

-----------------------------------------------------------------------------
(* The fetch lock *)

\* A step that neither takes nor gives back the lock.
LEMMA LockKept ==
    ASSUME LockIsHeld, NEW w \in Workers, lock' = lock, OthersStay(w),
           worker'[w].phase = "locked" => worker[w].phase = "locked" /\ worker'[w].lost = worker[w].lost
    PROVE  LockIsHeld'
BY DEF LockIsHeld, OthersStay

LEMMA LockStep == TInv /\ LockIsHeld /\ [CacheNext]_cacheVars => LockIsHeld'
<1> SUFFICES ASSUME TInv, LockIsHeld, [CacheNext]_cacheVars PROVE LockIsHeld'
  OBVIOUS
<1> USE DEF TInv
<1>1. CASE lock' = lock /\ worker' = worker
  BY <1>1 DEF LockIsHeld
<1>2. ASSUME NEW w \in Workers, lock' = lock, (\E pc \in Pcs : Goto(w, pc)) \/ Miss(w) \/ \E result \in Results : Return(w, result)
      PROVE  LockIsHeld'
  BY <1>2, GotoEffect, MissEffect, ReturnEffect, LockKept
<1>3. ASSUME NEW w \in Workers, NEW f, NEW g, NEW h, lock' = lock,
             \/ Set(w, [worker[w] EXCEPT !.pc = f, !.p = g])
             \/ Set(w, [worker[w] EXCEPT !.pc = f, !.p.key = g])
             \/ Set(w, [worker[w] EXCEPT !.pc = f, !.observed_at = g, !.p = h])
             \/ Set(w, [worker[w] EXCEPT !.pc = f, !.previous = g, !.p.key = h])
      PROVE  LockIsHeld'
  <2>1. worker[w] \in WorkerRecord
    BY DEF WorkersOK
  <2>2. PICK r \in {[worker[w] EXCEPT !.pc = f, !.p = g], [worker[w] EXCEPT !.pc = f, !.p.key = g],
                    [worker[w] EXCEPT !.pc = f, !.observed_at = g, !.p = h],
                    [worker[w] EXCEPT !.pc = f, !.previous = g, !.p.key = h]} : Set(w, r)
    BY <1>3
  <2>3. r.phase = worker[w].phase /\ r.lost = worker[w].lost
    BY <2>1 DEF WorkerRecord
  <2>4. OthersStay(w) /\ worker'[w] = r
    BY <2>2, SetEffect DEF OthersStay
  <2> QED BY <1>3, <2>3, <2>4, LockKept
<1>4. ASSUME NEW w \in Workers, StartResolve(w) \/ LookupRedis(w) \/ LookupDurable(w) \/ ReadObject(w) PROVE LockIsHeld'
  BY <1>1, <1>2, <1>3, <1>4 DEF StartResolve, LookupRedis, LookupDurable, ReadObject, redis, Pcs, Calls
<1>5. ASSUME NEW w \in Workers, ReadHotBody(w) \/ RequeryKey(w) \/ MarkMissing(w) \/ DeleteCorrupt(w) PROVE LockIsHeld'
  BY <1>1, <1>2, <1>3, <1>5 DEF ReadHotBody, RequeryKey, MarkMissing, DeleteCorrupt, redis, Pcs, Calls
<1>6. ASSUME NEW w \in Workers, MarkCorrupt(w) \/ EvictCorrupt(w) \/ Poll(w) \/ PutImmutable(w)
                                \/ CommitObservation(w) \/ DeleteSuperseded(w)
      PROVE  LockIsHeld'
  BY <1>2, <1>6 DEF MarkCorrupt, EvictCorrupt, Poll, PutImmutable, CommitObservation, DeleteSuperseded, redis, Pcs, Calls
<1>7. ASSUME NEW w \in Workers, GiveUp(w) \/ Remember(w) \/ ReturnError(w) PROVE LockIsHeld'
  <2>1. lock' = lock /\ \E result : Return(w, result)
    BY <1>7 DEF GiveUp, Remember, ReturnError, redis
  <2> QED BY <2>1, ReturnEffect, LockKept
<1>8. ASSUME NEW w \in Workers, Fetch(w) PROVE LockIsHeld'
  BY <1>3, <1>8 DEF Fetch, redis
<1>9. ASSUME NEW w \in Workers, ReadPrevious(w) PROVE LockIsHeld'
  <2>1. \E g, h : Set(w, [worker[w] EXCEPT !.pc = "put", !.previous = g, !.p.key = h])
    BY <1>9, ReadPreviousEffect
  <2>2. lock' = lock
    BY <1>9 DEF ReadPrevious, redis
  <2> QED BY <1>3, <2>1, <2>2
<1>10. ASSUME NEW w \in Workers, AcquireLock(w) PROVE LockIsHeld'
  <2>1. worker[w] \in WorkerRecord
    BY DEF WorkersOK
  <2>2. CASE lock = Nothing
    <3>1. \A v \in Workers : worker[v].phase = "locked" => worker[v].lost
      BY <2>2, ProviderCacheAssumption DEF LockIsHeld
    <3>2. lock' = w /\ OthersStay(w)
      BY <1>10, <2>2, SetEffect DEF AcquireLock, OthersStay
    <3> QED BY <3>1, <3>2 DEF LockIsHeld, OthersStay
  <2>3. CASE lock # Nothing
    <3>1. lock' = lock /\ OthersStay(w) /\ worker'[w].phase = "waiting"
      <4> DEFINE r == [worker[w] EXCEPT !.pc = "wait", !.phase = "waiting"]
      <4>1. r.phase = "waiting"
        BY <2>1 DEF WorkerRecord
      <4>2. Set(w, r) /\ lock' = lock
        BY <1>10, <2>3 DEF AcquireLock
      <4> HIDE DEF r
      <4> QED BY <4>1, <4>2, SetEffect DEF OthersStay
    <3> QED BY <3>1, LockKept
  <2> QED BY <2>2, <2>3
<1>11. ASSUME NEW w \in Workers, Unlock(w) PROVE LockIsHeld'
  <2>1. OthersStay(w) /\ worker'[w].phase = "first"
    <3> DEFINE r == [IdleWorker EXCEPT !.pc = "done", !.result = worker[w].result]
    <3>1. r.phase = "first"
      BY DEF IdleWorker
    <3>2. Set(w, r)
      BY <1>11 DEF Unlock
    <3> HIDE DEF r
    <3> QED BY <3>1, <3>2, SetEffect DEF OthersStay
  <2>2. lock' = lock \/ lock = w
    BY <1>11, Zenon DEF Unlock
  <2> QED BY <2>1, <2>2 DEF LockIsHeld, OthersStay
<1>12. ASSUME NEW w \in Workers, Finish(w) \/ WorkerDies(w) PROVE LockIsHeld'
  <2>1. lock' = lock /\ OthersStay(w) /\ worker'[w].phase = "first"
    BY <1>12, SetEffect DEF Finish, WorkerDies, redis, OthersStay, IdleWorker
  <2> QED BY <2>1, LockKept
<1>13. CASE LockExpires
  <2>1. lock \in Workers
    BY <1>13 DEF LockExpires, StoresOK
  <2>2. worker[lock] \in WorkerRecord
    BY <2>1 DEF WorkersOK
  <2>3. worker' = [worker EXCEPT ![lock].lost = (worker[lock].phase = "locked")]
    BY <1>13 DEF LockExpires
  <2>4. \A v \in Workers \ {lock} : worker'[v] = worker[v]
    BY <2>3 DEF WorkersOK
  <2>5. worker'[lock].phase = worker[lock].phase /\ worker'[lock].lost = (worker[lock].phase = "locked")
    BY <2>1, <2>2, <2>3 DEF WorkersOK, WorkerRecord
  <2>6. \A v \in Workers : worker'[v].phase = "locked" => worker'[v].lost
    BY <2>4, <2>5 DEF LockIsHeld
  <2> QED BY <2>6 DEF LockIsHeld
<1>14. CASE \/ UNCHANGED cacheVars \/ SweepExpiredBlobs \/ SweepAbort \/ Tick \/ HotBodyExpires
            \/ EvictPointer \/ LifecycleExpires \/ Corrupt
  BY <1>1, <1>14 DEF cacheVars, redis, SweepExpiredBlobs, SweepSelect, SweepDelete, SweepMark, SweepAbort, Tick,
                     HotBodyExpires, EvictPointer, LifecycleExpires, Corrupt
<1> QED BY <1>4, <1>5, <1>6, <1>7, <1>8, <1>9, <1>10, <1>11, <1>12, <1>13, <1>14 DEF CacheNext, Resolve

LEMMA LockHolds == CacheSpec => [](TInv /\ LockIsHeld)
<1>1. CacheInit => LockIsHeld
  BY DEF CacheInit, LockIsHeld, IdleWorker
<1> QED BY <1>1, TInvHolds, LockStep, PTL DEF CacheSpec

\* However many calls compete for the lock, die holding it, fail to give it back or see it
\* expire, two of them record at the same time only when one has outlived its lock.
THEOREM SingleFlightSafety == CacheSpec => []SingleFlight
<1>1. TInv /\ LockIsHeld => SingleFlight
  BY DEF LockIsHeld, SingleFlight, Fetching
<1> QED BY <1>1, LockHolds, PTL

-----------------------------------------------------------------------------
(* Pointers and the observations they name *)

\* A step of one call that publishes nothing new.
LEMMA NamesKept ==
    ASSUME PointersAreNamed, NEW w \in Workers, observations \subseteq observations',
           pointer' = pointer \/ pointer' = Nothing \/ (pointer' = worker[w].p /\ worker[w].pc \in Committed),
           OthersStay(w),
           worker'[w].pc \in Committed => \E o \in observations' : /\ o.checksum = worker'[w].p.checksum
                                                                   /\ o.reusable_until = worker'[w].p.reusable_until
    PROVE  PointersAreNamed'
<1>1. pointer' # Nothing => Named(pointer)'
  BY DEF PointersAreNamed, Named
<1>2. ASSUME NEW v \in Workers, worker'[v].pc \in Committed PROVE Named(worker[v].p)'
  BY <1>2 DEF PointersAreNamed, Named, OthersStay
<1> QED BY <1>1, <1>2 DEF PointersAreNamed

\* Where the step goes on with the pointer it had.
LEMMA GotoNames ==
    ASSUME TInv, PointersAreNamed, NEW w \in Workers, NEW pc, Goto(w, pc),
           pc \in Committed => worker[w].pc \in Committed,
           observations \subseteq observations', pointer' = pointer \/ pointer' = Nothing
    PROVE  PointersAreNamed'
<1>1. OthersStay(w) /\ worker'[w].pc = pc /\ worker'[w].p = worker[w].p
  BY GotoEffect DEF TInv
<1>2. pc \in Committed => Named(worker[w].p)
  BY DEF PointersAreNamed
<1>3. pc \in Committed => \E o \in observations' : /\ o.checksum = worker'[w].p.checksum
                                                   /\ o.reusable_until = worker'[w].p.reusable_until
  BY <1>1, <1>2 DEF Named
<1> QED BY <1>1, <1>3, NamesKept

\* Where it goes on without one.
LEMMA DropsNames ==
    ASSUME PointersAreNamed, NEW w \in Workers, OthersStay(w), worker'[w].pc \notin Committed,
           observations \subseteq observations', pointer' = pointer \/ pointer' = Nothing
    PROVE  PointersAreNamed'
BY NamesKept

LEMMA PointerStep == TInv /\ PointersAreNamed /\ [CacheNext]_cacheVars => PointersAreNamed'
<1> SUFFICES ASSUME TInv, PointersAreNamed, [CacheNext]_cacheVars PROVE PointersAreNamed'
  OBVIOUS
<1> USE DEF TInv
<1>1. CASE observations' = observations /\ worker' = worker /\ (pointer' = pointer \/ pointer' = Nothing)
  BY <1>1 DEF PointersAreNamed, Named
<1>2. ASSUME NEW w \in Workers, StartResolve(w) \/ Poll(w) \/ ReadObject(w) \/ DeleteCorrupt(w) \/ MarkCorrupt(w)
                                \/ PutImmutable(w) \/ DeleteSuperseded(w)
      PROVE  PointersAreNamed'
  <2>1. PICK pc \in Pcs : Goto(w, pc) /\ (pc \in Committed => worker[w].pc \in Committed)
    BY <1>2 DEF StartResolve, Poll, ReadObject, DeleteCorrupt, MarkCorrupt, PutImmutable, DeleteSuperseded,
                Pcs, Calls, Committed
  <2>2. observations' = observations /\ pointer' = pointer
    BY <1>2 DEF StartResolve, Poll, ReadObject, DeleteCorrupt, MarkCorrupt, PutImmutable, DeleteSuperseded, redis
  <2> QED BY <2>1, <2>2, GotoNames
<1>3. ASSUME NEW w \in Workers, LookupRedis(w) PROVE PointersAreNamed'
  <2>1. observations' = observations
    BY <1>3 DEF LookupRedis
  <2>2. CASE Goto(w, "query") /\ (pointer' = pointer \/ pointer' = Nothing)
    BY <2>1, <2>2, GotoNames DEF Committed
  <2>3. CASE pointer # Nothing /\ Set(w, [worker[w] EXCEPT !.pc = "materialize", !.p = pointer]) /\ pointer' = pointer
    <3> DEFINE r == [worker[w] EXCEPT !.pc = "materialize", !.p = pointer]
    <3>1. r.p = pointer
      BY DEF WorkersOK, WorkerRecord
    <3>2. Set(w, r)
      BY <2>3
    <3> HIDE DEF r
    <3>3. OthersStay(w) /\ worker'[w].p = pointer
      BY <3>1, <3>2, SetEffect DEF OthersStay
    <3>4. Named(pointer)
      BY <2>3 DEF PointersAreNamed
    <3> QED BY <2>1, <2>3, <3>3, <3>4, NamesKept DEF Named
  <2> QED BY <1>3, <2>2, <2>3 DEF LookupRedis
<1>4. ASSUME NEW w \in Workers, LookupDurable(w) PROVE PointersAreNamed'
  <2>1. observations' = observations /\ pointer' = pointer
    BY <1>4 DEF LookupDurable, redis
  <2>2. CASE Miss(w)
    BY <2>1, <2>2, MissEffect, DropsNames DEF Committed
  <2>3. CASE \E o \in Reusable :
               Set(w, [worker[w] EXCEPT !.pc = "materialize",
                         !.p = [checksum |-> o.checksum, key |-> blobs[o.checksum].key,
                                reusable_until |-> o.reusable_until]])
    <3>1. PICK o \in Reusable :
               Set(w, [worker[w] EXCEPT !.pc = "materialize",
                         !.p = [checksum |-> o.checksum, key |-> blobs[o.checksum].key,
                                reusable_until |-> o.reusable_until]])
      BY <2>3
    <3> DEFINE q == [checksum |-> o.checksum, key |-> blobs[o.checksum].key, reusable_until |-> o.reusable_until]
               r == [worker[w] EXCEPT !.pc = "materialize", !.p = q]
    <3>2. q.checksum = o.checksum /\ q.reusable_until = o.reusable_until
      OBVIOUS
    <3>3. Set(w, r)
      BY <3>1
    <3> HIDE DEF q
    <3>4. r.p = q
      BY DEF WorkersOK, WorkerRecord
    <3> HIDE DEF r
    <3>5. OthersStay(w) /\ worker'[w].p = q
      BY <3>3, <3>4, SetEffect DEF OthersStay
    <3>6. o \in observations'
      BY <2>1 DEF Reusable
    <3> QED BY <2>1, <3>2, <3>5, <3>6, NamesKept
  <2> QED BY <1>4, <2>2, <2>3 DEF LookupDurable
<1>5. ASSUME NEW w \in Workers, ReadHotBody(w) PROVE PointersAreNamed'
  <2>1. observations' = observations /\ pointer' = pointer
    BY <1>5 DEF ReadHotBody
  <2>2. worker' = worker \/ \E pc : Goto(w, pc) /\ worker[w].pc \in Committed
    BY <1>5 DEF ReadHotBody, Committed
  <2> QED BY <1>1, <2>1, <2>2, GotoNames
<1>6. ASSUME NEW w \in Workers, RequeryKey(w) PROVE PointersAreNamed'
  <2>1. observations' = observations /\ (pointer' = pointer \/ pointer' = Nothing)
    BY <1>6 DEF RequeryKey
  <2>2. CASE Goto(w, "mark_missing")
    BY <1>6, <2>1, <2>2, GotoNames DEF RequeryKey, Committed
  <2>3. CASE Set(w, [worker[w] EXCEPT !.pc = "materialize", !.p.key = blobs[worker[w].p.checksum].key])
    <3> DEFINE r == [worker[w] EXCEPT !.pc = "materialize", !.p.key = blobs[worker[w].p.checksum].key]
    <3>1. worker[w].pc \in Committed /\ worker[w].p \in Pointer
      BY <1>6 DEF RequeryKey, Committed, Carrying, WorkersOK
    <3>2. r.p.checksum = worker[w].p.checksum /\ r.p.reusable_until = worker[w].p.reusable_until
      BY <3>1 DEF WorkersOK, WorkerRecord, Pointer
    <3>3. Set(w, r)
      BY <2>3
    <3> HIDE DEF r
    <3>4. OthersStay(w) /\ worker'[w] = r
      BY <3>3, SetEffect DEF OthersStay
    <3>5. Named(worker[w].p)
      BY <3>1 DEF PointersAreNamed
    <3>6. \E o \in observations' : o.checksum = worker'[w].p.checksum /\ o.reusable_until = worker'[w].p.reusable_until
      BY <2>1, <3>2, <3>4, <3>5 DEF Named
    <3> QED BY <2>1, <3>4, <3>6, NamesKept
  <2> QED BY <1>6, <2>2, <2>3 DEF RequeryKey
<1>7. ASSUME NEW w \in Workers, MarkMissing(w) \/ EvictCorrupt(w) PROVE PointersAreNamed'
  <2>1. observations' = observations /\ (pointer' = pointer \/ pointer' = Nothing) /\ Miss(w)
    BY <1>7 DEF MarkMissing, EvictCorrupt, redis
  <2> QED BY <2>1, MissEffect, DropsNames DEF Committed
<1>8. ASSUME NEW w \in Workers, GiveUp(w) \/ ReturnError(w) PROVE PointersAreNamed'
  <2>1. observations' = observations /\ pointer' = pointer /\ \E result : Return(w, result)
    BY <1>8 DEF GiveUp, ReturnError, redis
  <2> QED BY <2>1, ReturnEffect, DropsNames DEF Committed
<1>9. ASSUME NEW w \in Workers, CommitObservation(w) PROVE PointersAreNamed'
  <2> DEFINE o == [checksum |-> worker[w].p.checksum, observed_at |-> worker[w].observed_at,
                   reusable_until |-> worker[w].p.reusable_until]
  <2>1. observations' = observations \cup {o} /\ pointer' = pointer
    BY <1>9 DEF CommitObservation, redis
  <2>2. OthersStay(w) /\ worker'[w].p = worker[w].p
    BY <1>9, GotoEffect DEF CommitObservation
  <2>3. o \in observations' /\ o.checksum = worker'[w].p.checksum /\ o.reusable_until = worker'[w].p.reusable_until
    BY <2>1, <2>2
  <2> HIDE DEF o
  <2> QED BY <2>1, <2>2, <2>3, NamesKept
<1>10. ASSUME NEW w \in Workers, Remember(w) PROVE PointersAreNamed'
  <2>1. /\ observations' = observations /\ (pointer' = pointer \/ pointer' = worker[w].p)
        /\ Return(w, worker[w].p.checksum) /\ worker[w].pc \in Committed
    BY <1>10 DEF Remember, Committed
  <2>2. OthersStay(w) /\ worker'[w].pc \notin Committed
    BY <2>1, ReturnEffect DEF Committed
  <2> QED BY <2>1, <2>2, NamesKept
<1>11. ASSUME NEW w \in Workers, AcquireLock(w) \/ Fetch(w) \/ Unlock(w) \/ Finish(w) \/ WorkerDies(w) \/ ReadPrevious(w)
       PROVE PointersAreNamed'
  <2>1. worker[w] \in WorkerRecord
    BY DEF WorkersOK
  <2>2. \A pc, phase : [worker[w] EXCEPT !.pc = pc, !.phase = phase].pc = pc
    BY <2>1 DEF WorkerRecord
  <2>3. \A pc, t, q : [worker[w] EXCEPT !.pc = pc, !.observed_at = t, !.p = q].pc = pc
    BY <2>1 DEF WorkerRecord
  <2>4. \A pc, result : [IdleWorker EXCEPT !.pc = pc, !.result = result].pc = pc
    BY DEF IdleWorker
  <2>5. \A pc, k, l : [worker[w] EXCEPT !.pc = pc, !.previous = k, !.p.key = l].pc = pc
    BY <2>1 DEF WorkerRecord
  <2>6. PICK r : Set(w, r) /\ r.pc \notin Committed
    <3>1. CASE AcquireLock(w)
      <4>1. PICK pc \in {"lookup", "wait"}, phase \in {"locked", "waiting"} :
                   Set(w, [worker[w] EXCEPT !.pc = pc, !.phase = phase])
        BY <3>1 DEF AcquireLock
      <4>2. [worker[w] EXCEPT !.pc = pc, !.phase = phase].pc \notin Committed
        BY <2>2 DEF Committed
      <4> QED BY <4>1, <4>2
    <3>2. CASE Fetch(w)
      <4>1. PICK q : Set(w, [worker[w] EXCEPT !.pc = "previous", !.observed_at = now, !.p = q])
        BY <3>2 DEF Fetch
      <4>2. [worker[w] EXCEPT !.pc = "previous", !.observed_at = now, !.p = q].pc \notin Committed
        BY <2>3 DEF Committed
      <4> QED BY <4>1, <4>2
    <3>3. CASE Unlock(w) \/ Finish(w) \/ WorkerDies(w)
      <4>1. Set(w, IdleWorker) \/ Set(w, [IdleWorker EXCEPT !.pc = "done", !.result = worker[w].result])
        BY <3>3 DEF Unlock, Finish, WorkerDies
      <4>2. /\ IdleWorker.pc \notin Committed
            /\ [IdleWorker EXCEPT !.pc = "done", !.result = worker[w].result].pc \notin Committed
        BY <2>4 DEF Committed, IdleWorker
      <4> QED BY <4>1, <4>2
    <3>4. CASE ReadPrevious(w)
      <4>1. PICK k, l : Set(w, [worker[w] EXCEPT !.pc = "put", !.previous = k, !.p.key = l])
        BY <3>4, ReadPreviousEffect
      <4>2. [worker[w] EXCEPT !.pc = "put", !.previous = k, !.p.key = l].pc \notin Committed
        BY <2>5 DEF Committed
      <4> QED BY <4>1, <4>2
    <3> QED BY <1>11, <3>1, <3>2, <3>3, <3>4
  <2>7. OthersStay(w) /\ worker'[w].pc \notin Committed
    BY <2>6, SetEffect DEF OthersStay
  <2>8. observations' = observations /\ pointer' = pointer
    BY <1>11 DEF AcquireLock, Fetch, Unlock, Finish, WorkerDies, ReadPrevious, redis
  <2> QED BY <2>7, <2>8, DropsNames
<1>12. CASE LockExpires
  <2>1. \A v \in Workers : worker'[v].pc = worker[v].pc /\ worker'[v].p = worker[v].p
    BY <1>12 DEF LockExpires, WorkersOK, WorkerRecord
  <2> QED BY <1>12, <2>1 DEF LockExpires, PointersAreNamed, Named
<1>13. CASE \/ UNCHANGED cacheVars \/ SweepExpiredBlobs \/ SweepAbort \/ Tick \/ HotBodyExpires
            \/ EvictPointer \/ LifecycleExpires \/ Corrupt
  BY <1>1, <1>13 DEF cacheVars, redis, SweepExpiredBlobs, SweepSelect, SweepDelete, SweepMark, SweepAbort, Tick,
                     HotBodyExpires, EvictPointer, LifecycleExpires, Corrupt
<1> QED BY <1>2, <1>3, <1>4, <1>5, <1>6, <1>7, <1>8, <1>9, <1>10, <1>11, <1>12, <1>13 DEF CacheNext, Resolve

\* A pointer that other calls can see names an observation that has committed, whatever
\* crashed, failed, rotted or was evicted on the way.
THEOREM PointerSafety == CacheSpec => []PointerNamesObservation
<1>1. CacheInit => PointersAreNamed
  BY DEF CacheInit, PointersAreNamed, IdleWorker, Committed
<1>2. PointersAreNamed => PointerNamesObservation
  BY DEF PointersAreNamed, Named, PointerNamesObservation
<1> QED BY <1>1, <1>2, TInvHolds, PointerStep, PTL DEF CacheSpec

-----------------------------------------------------------------------------
(* Rows and their objects, as long as nothing rots, no rule of the bucket removes *)
(* objects and no call outlives its lock: calls may fail, crash and be evicted.    *)

Reliable == CacheFaults \cap {"corrupt", "lifecycle", "lockexpiry"} = {}

LEMMA OneHolder ==
    ASSUME LInv, NEW v \in Workers, NEW w \in Workers, worker[v].phase = "locked", worker[w].phase = "locked"
    PROVE  v = w
BY DEF LInv, LockIsHeld, CallFits, RecorderHoldsLock

\* A call that is not in the middle of anything.
LEMMA HarmlessFits ==
    ASSUME NEW w \in Workers, ~worker'[w].lost,
           worker'[w].pc \in {"idle", "lookup", "query", "materialize", "get", "acquire", "wait", "remember",
                              "unlock", "done"}
    PROVE  CallFits(w)'
BY DEF CallFits, RecorderHoldsLock, CallKeysFit, RecordsWhatIsThere, MissesStay, Recording

\* What a step does to the stores when it records nothing: rows keep their keys and die
\* or are marked, and only objects of dead rows go.
RowsWane == \A b \in Bodies : (Live(b)' => Live(b)) /\ (Dead(b) => Dead(b)')
RowsKeepKeys ==
    \A b \in Bodies : /\ (blobs'[b] = Nothing) <=> (blobs[b] = Nothing)
                      /\ blobs[b] # Nothing => blobs'[b].key = blobs[b].key
ObjectsWane == \A k \in Keys : objects'[k] = objects[k] \/ (objects'[k] = "absent" /\ Dead(k[2]))
Wanes == observations' = observations /\ now' \in Nat /\ now <= now' /\ RowsWane /\ RowsKeepKeys /\ ObjectsWane

LEMMA WanesKeeps == ASSUME LInv, Wanes PROVE RowsFit'
<1> USE DEF LInv
<1>1. \A b \in Bodies : blobs'[b] # Nothing => blobs'[b].key[2] = b
  BY DEF Wanes, RowsWane, RowsKeepKeys, ObjectsWane, RowsFit
<1>2. \A k \in Keys : objects'[k] # "corrupt"
  BY DEF Wanes, RowsWane, RowsKeepKeys, ObjectsWane, RowsFit
<1>3. ASSUME NEW b \in Bodies, Live(b)' PROVE objects'[blobs'[b].key] # "absent"
  <2>1. Live(b) /\ blobs[b] \in BlobRow /\ blobs'[b].key = blobs[b].key
    BY <1>3 DEF Wanes, RowsWane, RowsKeepKeys, ObjectsWane, Live, TInv, StoresOK
  <2>2. blobs[b].key \in Keys /\ blobs[b].key[2] = b /\ objects[blobs[b].key] # "absent"
    BY <2>1 DEF RowsFit, LiveRowHasObject, BlobRow, Live
  <2>3. ~Dead(b)
    <3>1. blobs[b].expires_at \in Int /\ now \in Int
      BY <2>1, ProviderCacheAssumption DEF BlobRow, TInv, StoresOK, Never
    <3> QED BY <2>1, <3>1 DEF Live, Dead
  <2> QED BY <2>1, <2>2, <2>3 DEF Wanes, RowsWane, RowsKeepKeys, ObjectsWane
<1> QED BY <1>1, <1>2, <1>3 DEF RowsFit, LiveRowHasObject

LEMMA NothingToReuseStays == ASSUME LInv, Wanes, NothingToReuse PROVE NothingToReuse'
<1>1. \A o \in observations : o.checksum \in Bodies /\ o.reusable_until \in Nat
  BY DEF LInv, TInv, StoresOK, Observation
<1>2. \A o \in observations : Live(o.checksum)' => Live(o.checksum)
  BY <1>1 DEF Wanes, RowsWane, RowsKeepKeys, ObjectsWane
<1>3. now \in Nat
  BY ProviderCacheAssumption DEF LInv, TInv, StoresOK
<1>4. ASSUME Reusable = {} PROVE Reusable' = {}
  BY <1>1, <1>2, <1>3, <1>4 DEF Wanes, RowsWane, RowsKeepKeys, ObjectsWane, Reusable
<1> QED BY <1>2, <1>4 DEF NothingToReuse, Wanes, RowsWane, RowsKeepKeys, ObjectsWane

LEMMA WanesFits ==
    ASSUME LInv, Wanes, NEW v \in Workers, worker'[v] = worker[v]
    PROVE  CallFits(v)'
<1> USE DEF LInv, CallFits
<1>1. RecorderHoldsLock(v)' /\ CallKeysFit(v)'
  BY DEF RecorderHoldsLock, CallKeysFit
<1>2. worker[v].pc \in Carrying => worker[v].p.key \in Keys /\ worker[v].p.checksum \in Bodies
  BY DEF TInv, WorkersOK, Pointer
<1>3. RecordsWhatIsThere(v)'
  <2>1. ASSUME worker[v].pc = "commit"
        PROVE  objects'[worker[v].p.key] # "absent" \/ Dead(worker[v].p.checksum)'
    <3>1. worker[v].p.key \in Keys /\ worker[v].p.checksum \in Bodies /\ worker[v].p.key[2] = worker[v].p.checksum
      BY <1>2, <2>1 DEF Carrying, CallKeysFit
    <3>2. objects[worker[v].p.key] # "absent" \/ Dead(worker[v].p.checksum)
      BY <2>1 DEF RecordsWhatIsThere
    <3> QED BY <3>1, <3>2 DEF Wanes, RowsWane, RowsKeepKeys, ObjectsWane
  <2>2. ASSUME worker[v].pc = "supersede"
        PROVE  blobs'[worker[v].p.checksum] # Nothing /\ blobs'[worker[v].p.checksum].key = worker[v].p.key
    BY <1>2, <2>2 DEF Carrying, Committed, RecordsWhatIsThere, Wanes, RowsWane, RowsKeepKeys, ObjectsWane
  <2> QED BY <2>1, <2>2 DEF RecordsWhatIsThere
<1>4. MissesStay(v)'
  <2>1. ASSUME worker[v].phase = "locked", worker[v].pc = "requery" PROVE objects'[worker[v].p.key] = "absent"
    BY <1>2, <2>1 DEF Carrying, Committed, MissesStay, Wanes, RowsWane, RowsKeepKeys, ObjectsWane
  <2>2. ASSUME worker[v].phase = "locked", worker[v].pc = "mark_missing" PROVE ~Live(worker[v].p.checksum)'
    BY <1>2, <2>2 DEF Carrying, Committed, MissesStay, Wanes, RowsWane, RowsKeepKeys, ObjectsWane
  <2>3. ASSUME worker[v].phase = "locked", worker[v].pc = "fetch" PROVE NothingToReuse'
    BY <2>3, NothingToReuseStays DEF MissesStay
  <2> QED BY <2>1, <2>2, <2>3 DEF MissesStay
<1> QED BY <1>1, <1>3, <1>4

\* What is left to show of a step.
Rest == RowsFit /\ SweepsTheDead /\ \A w \in Workers : CallFits(w)

LEMMA SweepStays == ASSUME LInv, Wanes, sweep' \subseteq sweep PROVE SweepsTheDead'
<1>1. \A s \in sweep : s.checksum \in Bodies
  BY DEF LInv, TInv, StoresOK, SweepRow
<1>2. \A s \in sweep' : s.key[2] = s.checksum /\ Dead(s.checksum)'
  BY <1>1 DEF LInv, SweepsTheDead, Wanes, RowsWane, RowsKeepKeys, ObjectsWane
<1> QED BY <1>2 DEF SweepsTheDead

LEMMA WaningCall ==
    ASSUME LInv, NEW w \in Workers, Wanes, sweep' = sweep, OthersStay(w), CallFits(w)'
    PROVE  Rest'
<1>1. \A v \in Workers \ {w} : CallFits(v)'
  BY WanesFits DEF OthersStay
<1> QED BY <1>1, WanesKeeps, SweepStays DEF Rest

LEMMA QuietWanes == ASSUME LInv, UNCHANGED <<now, objects, blobs, observations>> PROVE Wanes
BY ProviderCacheAssumption DEF LInv, TInv, StoresOK, Wanes, RowsWane, RowsKeepKeys, ObjectsWane, Live, Dead

\* A call that goes on without touching rows or objects.
LEMMA QuietCall ==
    ASSUME LInv, NEW w \in Workers, UNCHANGED <<now, objects, blobs, observations, sweep>>, OthersStay(w),
           ~worker'[w].lost,
           worker'[w].pc \in {"idle", "lookup", "query", "materialize", "get", "acquire", "wait", "remember",
                              "unlock", "done"}
    PROVE  Rest'
BY QuietWanes, WaningCall, HarmlessFits

LEMMA LookupRest ==
    ASSUME LInv, NEW w \in Workers, StartResolve(w) \/ Poll(w) \/ LookupRedis(w) \/ ReadHotBody(w)
    PROVE  Rest'
<1> USE DEF LInv, TInv
<1>1. UNCHANGED <<now, objects, blobs, observations, sweep>>
  BY DEF StartResolve, Poll, LookupRedis, ReadHotBody
<1>2. ~worker[w].lost
  BY DEF CallFits, RecorderHoldsLock
<1>3. ASSUME NEW pc \in {"lookup", "query", "remember", "get"}, Goto(w, pc) PROVE Rest'
  BY <1>1, <1>2, <1>3, GotoEffect, QuietCall
<1>4. CASE Set(w, [worker[w] EXCEPT !.pc = "materialize", !.p = pointer])
  <2> DEFINE r == [worker[w] EXCEPT !.pc = "materialize", !.p = pointer]
  <2>1. r.pc = "materialize" /\ r.lost = worker[w].lost
    BY DEF WorkersOK, WorkerRecord
  <2>2. Set(w, r)
    BY <1>4
  <2> HIDE DEF r
  <2>3. OthersStay(w) /\ worker'[w] = r
    BY <2>2, SetEffect DEF OthersStay
  <2> QED BY <1>1, <1>2, <2>1, <2>3, QuietCall
<1>5. CASE worker' = worker
  <2>1. OthersStay(w) /\ CallFits(w)'
    BY <1>1, <1>5, QuietWanes, WanesFits DEF OthersStay
  <2> QED BY <1>1, <2>1, QuietWanes, WaningCall
<1> QED BY <1>3, <1>4, <1>5 DEF StartResolve, Poll, LookupRedis, ReadHotBody

LEMMA LookupDurableRest == ASSUME LInv, NEW w \in Workers, LookupDurable(w) PROVE Rest'
<1> USE DEF LInv, TInv
<1>1. UNCHANGED <<now, objects, blobs, observations, sweep>>
  BY DEF LookupDurable
<1>2. ~worker[w].lost
  BY DEF CallFits, RecorderHoldsLock
<1>3. CASE Reusable = {} /\ Miss(w)
  <2>1. Reusable' = {}
    BY <1>1, <1>3 DEF Reusable, Live
  <2>2. OthersStay(w) /\ ~worker'[w].lost /\ worker'[w].phase = worker[w].phase
        /\ worker'[w].pc \in {"acquire", "wait", "fetch"}
        /\ (worker'[w].pc = "fetch" => worker[w].phase = "locked")
    BY <1>2, <1>3, MissEffect
  <2>3. CallFits(w)'
    BY <2>1, <2>2 DEF CallFits, RecorderHoldsLock, CallKeysFit, RecordsWhatIsThere, MissesStay, Recording,
                      NothingToReuse
  <2> QED BY <1>1, <2>2, <2>3, QuietWanes, WaningCall
<1>4. CASE \E q : Set(w, [worker[w] EXCEPT !.pc = "materialize", !.p = q])
  <2>1. PICK q : Set(w, [worker[w] EXCEPT !.pc = "materialize", !.p = q])
    BY <1>4
  <2> DEFINE r == [worker[w] EXCEPT !.pc = "materialize", !.p = q]
  <2>2. r.pc = "materialize" /\ r.lost = worker[w].lost
    BY DEF WorkersOK, WorkerRecord
  <2>3. Set(w, r)
    BY <2>1
  <2> HIDE DEF r
  <2>4. OthersStay(w) /\ worker'[w] = r
    BY <2>3, SetEffect DEF OthersStay
  <2> QED BY <1>1, <1>2, <2>2, <2>4, QuietCall
<1> QED BY <1>3, <1>4 DEF LookupDurable

LEMMA ReadObjectRest == ASSUME LInv, NEW w \in Workers, ReadObject(w) PROVE Rest'
<1> USE DEF LInv, TInv
<1>1. UNCHANGED <<now, objects, blobs, observations, sweep>>
  BY DEF ReadObject
<1>2. ~worker[w].lost
  BY DEF CallFits, RecorderHoldsLock
<1>3. worker[w].p.key \in Keys
  BY DEF ReadObject, Carrying, Committed, WorkersOK, Pointer
<1>4. objects[worker[w].p.key] \in {"absent", "good"}
  BY <1>3 DEF StoresOK, RowsFit
<1>5. CASE Goto(w, "remember")
  BY <1>1, <1>2, <1>5, GotoEffect, QuietCall
<1>6. CASE objects[worker[w].p.key] = "absent" /\ Goto(w, "requery")
  <2>1. OthersStay(w) /\ ~worker'[w].lost /\ worker'[w].pc = "requery" /\ worker'[w].p = worker[w].p
    BY <1>2, <1>6, GotoEffect
  <2>2. objects'[worker'[w].p.key] = "absent"
    BY <1>1, <1>6, <2>1
  <2>3. CallFits(w)'
    BY <2>1, <2>2 DEF CallFits, RecorderHoldsLock, CallKeysFit, RecordsWhatIsThere, MissesStay, Recording
  <2> QED BY <1>1, <2>1, <2>3, QuietWanes, WaningCall
<1> QED BY <1>4, <1>5, <1>6 DEF ReadObject

\* A lookup under the lock that misses the object of a pointer has found a dead row: a live
\* one has its object, and no one else writes it meanwhile.
LEMMA RequeryRest == ASSUME LInv, NEW w \in Workers, RequeryKey(w) PROVE Rest'
<1> USE DEF LInv, TInv
<1> DEFINE b == worker[w].p.checksum
<1>1. UNCHANGED <<now, objects, blobs, observations, sweep>>
  BY DEF RequeryKey
<1>2. ~worker[w].lost
  BY DEF CallFits, RecorderHoldsLock
<1>3. CASE ~(Live(b) /\ blobs[b].key # worker[w].p.key) /\ Goto(w, "mark_missing")
  <2>1. /\ OthersStay(w) /\ ~worker'[w].lost /\ worker'[w].pc = "mark_missing" /\ worker'[w].p = worker[w].p
        /\ worker'[w].phase = worker[w].phase
    BY <1>2, <1>3, GotoEffect
  <2>2. worker[w].phase = "locked" => ~Live(b)
    BY <1>3 DEF RequeryKey, CallFits, MissesStay, RowsFit, LiveRowHasObject, Carrying, Committed, WorkersOK, Pointer
  <2>3. worker[w].phase = "locked" => ~Live(worker[w].p.checksum)'
    BY <1>1, <2>1, <2>2 DEF Live
  <2>4. CallFits(w)'
    BY <2>1, <2>3 DEF CallFits, RecorderHoldsLock, CallKeysFit, RecordsWhatIsThere, MissesStay, Recording
  <2> QED BY <1>1, <2>1, <2>4, QuietWanes, WaningCall
<1>4. CASE Set(w, [worker[w] EXCEPT !.pc = "materialize", !.p.key = blobs[b].key])
  <2> DEFINE r == [worker[w] EXCEPT !.pc = "materialize", !.p.key = blobs[b].key]
  <2>1. r.pc = "materialize" /\ r.lost = worker[w].lost
    BY DEF WorkersOK, WorkerRecord
  <2>2. Set(w, r)
    BY <1>4
  <2> HIDE DEF r
  <2>3. OthersStay(w) /\ worker'[w] = r
    BY <2>2, SetEffect DEF OthersStay
  <2> QED BY <1>1, <1>2, <2>1, <2>3, QuietCall
<1> QED BY <1>3, <1>4 DEF RequeryKey

\* Marking a row deleted only takes it from the live ones.
LEMMA MarkedRowWanes ==
    ASSUME LInv, NEW c \in Bodies, blobs[c] # Nothing, UNCHANGED <<now, objects, observations>>,
           blobs' = [blobs EXCEPT ![c] = [blobs[c] EXCEPT !.deleted = TRUE]]
    PROVE  Wanes
<1> DEFINE row == [blobs[c] EXCEPT !.deleted = TRUE]
<1>1. blobs[c] \in BlobRow
  BY DEF LInv, TInv, StoresOK
<1>2. /\ row \in BlobRow /\ row.deleted /\ row.key = blobs[c].key /\ row.expires_at = blobs[c].expires_at
  BY <1>1 DEF BlobRow
<1>3. row # Nothing
  BY <1>2, ProviderCacheAssumption
<1>4. blobs'[c] = row /\ \A b \in Bodies \ {c} : blobs'[b] = blobs[b]
  BY DEF LInv, TInv, StoresOK
<1> HIDE DEF row
<1>5. now \in Nat /\ now' = now /\ observations' = observations /\ objects' = objects
  BY ProviderCacheAssumption DEF LInv, TInv, StoresOK
<1>6. \A b \in Bodies \ {c} : Live(b)' = Live(b) /\ Dead(b)' = Dead(b)
  BY <1>4, <1>5 DEF Live, Dead
<1>7. ~Live(c)' /\ Dead(c)' = Dead(c)
  BY <1>2, <1>3, <1>4, <1>5 DEF Live, Dead
<1>8. now' \in Nat /\ now <= now'
  BY <1>5
<1>9. RowsWane
  BY <1>6, <1>7 DEF RowsWane
<1>10. RowsKeepKeys
  BY <1>2, <1>3, <1>4 DEF RowsKeepKeys
<1>11. ObjectsWane
  BY <1>5 DEF ObjectsWane
<1> QED BY <1>5, <1>8, <1>9, <1>10, <1>11 DEF Wanes

LEMMA MarkMissingRest == ASSUME LInv, NEW w \in Workers, MarkMissing(w) PROVE Rest'
<1> USE DEF LInv, TInv
<1> DEFINE b == worker[w].p.checksum
<1>1. PICK ok \in Attempt :
        blobs' = [blobs EXCEPT ![b] = IF @ = Nothing \/ ~ok THEN @ ELSE [@ EXCEPT !.deleted = TRUE]]
  BY DEF MarkMissing
<1>2. b \in Bodies
  BY DEF MarkMissing, Carrying, Committed, WorkersOK, Pointer
<1>3. blobs' = blobs \/ (blobs[b] # Nothing /\ blobs' = [blobs EXCEPT ![b] = [blobs[b] EXCEPT !.deleted = TRUE]])
  <2>1. CASE blobs[b] = Nothing \/ ~ok
    <3>1. blobs' = [blobs EXCEPT ![b] = blobs[b]]
      BY <1>1, <2>1, Zenon
    <3> QED BY <3>1 DEF StoresOK
  <2>2. CASE blobs[b] # Nothing /\ ok
    BY <1>1, <2>2, Zenon
  <2> QED BY <2>1, <2>2
<1>4. Wanes
  <2>1. CASE blobs' = blobs
    BY <2>1, QuietWanes DEF MarkMissing
  <2>2. CASE blobs[b] # Nothing /\ blobs' = [blobs EXCEPT ![b] = [blobs[b] EXCEPT !.deleted = TRUE]]
    BY <1>2, <2>2, MarkedRowWanes DEF MarkMissing
  <2> QED BY <1>3, <2>1, <2>2
<1>5. /\ OthersStay(w) /\ ~worker'[w].lost /\ worker'[w].phase = worker[w].phase
      /\ worker'[w].pc \in {"acquire", "wait", "fetch"}
      /\ (worker'[w].pc = "fetch" => worker[w].phase = "locked")
  BY MissEffect DEF MarkMissing, CallFits, RecorderHoldsLock
<1>6. worker[w].phase = "locked" => NothingToReuse'
  <2> SUFFICES ASSUME worker[w].phase = "locked" PROVE NothingToReuse'
    OBVIOUS
  <2>1. ~Live(b)
    BY DEF MarkMissing, CallFits, MissesStay
  <2>2. PICK o \in observations : o.checksum = b
    BY DEF MarkMissing, PointersAreNamed, Committed, Named
  <2>3. o \in observations' /\ ~Live(o.checksum)'
    BY <1>2, <1>4, <2>1, <2>2 DEF Wanes, RowsWane, RowsKeepKeys, ObjectsWane
  <2> QED BY <2>3 DEF NothingToReuse
<1>7. CallFits(w)'
  BY <1>5, <1>6 DEF CallFits, RecorderHoldsLock, CallKeysFit, RecordsWhatIsThere, MissesStay, Recording
<1> QED BY <1>4, <1>5, <1>7, WaningCall DEF MarkMissing

LEMMA LockRest ==
    ASSUME LInv, NEW w \in Workers,
           AcquireLock(w) \/ GiveUp(w) \/ Remember(w) \/ Unlock(w) \/ Finish(w) \/ WorkerDies(w) \/ ReturnError(w)
    PROVE  Rest'
<1> USE DEF LInv, TInv
<1>1. UNCHANGED <<now, objects, blobs, observations, sweep>>
  BY DEF AcquireLock, GiveUp, Remember, Unlock, Finish, WorkerDies, ReturnError
<1>2. ~worker[w].lost
  BY DEF CallFits, RecorderHoldsLock
<1>3. CASE AcquireLock(w)
  <2>1. PICK pc \in {"lookup", "wait"}, phase \in {"locked", "waiting"} :
               Set(w, [worker[w] EXCEPT !.pc = pc, !.phase = phase])
    BY <1>3 DEF AcquireLock
  <2> DEFINE r == [worker[w] EXCEPT !.pc = pc, !.phase = phase]
  <2>2. r.pc = pc /\ r.lost = worker[w].lost
    BY DEF WorkersOK, WorkerRecord
  <2>3. Set(w, r)
    BY <2>1
  <2> HIDE DEF r
  <2>4. OthersStay(w) /\ worker'[w] = r
    BY <2>3, SetEffect DEF OthersStay
  <2> QED BY <1>1, <1>2, <2>2, <2>4, QuietCall
<1>4. CASE GiveUp(w) \/ Remember(w) \/ ReturnError(w)
  <2>1. PICK result : Return(w, result)
    BY <1>4 DEF GiveUp, Remember, ReturnError
  <2>2. OthersStay(w) /\ ~worker'[w].lost /\ worker'[w].pc \in {"unlock", "done"}
    BY <1>2, <2>1, ReturnEffect
  <2> QED BY <1>1, <2>2, QuietCall
<1>5. CASE Unlock(w) \/ Finish(w) \/ WorkerDies(w)
  <2>1. PICK r \in {IdleWorker, [IdleWorker EXCEPT !.pc = "done", !.result = worker[w].result]} : Set(w, r)
    BY <1>5 DEF Unlock, Finish, WorkerDies
  <2>2. r.pc \in {"idle", "done"} /\ ~r.lost
    <3>1. IdleWorker.pc = "idle" /\ IdleWorker.lost = FALSE
      BY DEF IdleWorker
    <3>2. \A x : [IdleWorker EXCEPT !.pc = "done", !.result = x].pc = "done"
      BY DEF IdleWorker
    <3>3. \A x : [IdleWorker EXCEPT !.pc = "done", !.result = x].lost = FALSE
      BY DEF IdleWorker
    <3> QED BY <3>1, <3>2, <3>3
  <2>3. OthersStay(w) /\ worker'[w] = r
    BY <2>1, SetEffect DEF OthersStay
  <2> QED BY <1>1, <2>2, <2>3, QuietCall
<1> QED BY <1>3, <1>4, <1>5

LEMMA FetchRest == ASSUME LInv, NEW w \in Workers, Fetch(w) PROVE Rest'
<1> USE DEF LInv, TInv
<1>1. UNCHANGED <<now, objects, blobs, observations, sweep>>
  BY DEF Fetch
<1>2. ~worker[w].lost /\ worker[w].phase = "locked"
  BY DEF Fetch, CallFits, RecorderHoldsLock, Recording
<1>3. PICK b \in Bodies, duration \in {0, ReuseDuration} :
             Set(w, [worker[w] EXCEPT !.pc = "previous", !.observed_at = now,
                       !.p = [checksum |-> b, key |-> <<Prefix[w], b>>, reusable_until |-> now + duration]])
  BY DEF Fetch
<1> DEFINE p == [checksum |-> b, key |-> <<Prefix[w], b>>, reusable_until |-> now + duration]
           r == [worker[w] EXCEPT !.pc = "previous", !.observed_at = now, !.p = p]
<1>4. p.key[2] = p.checksum
  OBVIOUS
<1>5. Set(w, r)
  BY <1>3
<1> HIDE DEF p
<1>6. r.pc = "previous" /\ r.p = p /\ r.lost = worker[w].lost /\ r.phase = worker[w].phase
  BY DEF WorkersOK, WorkerRecord
<1> HIDE DEF r
<1>7. OthersStay(w) /\ worker'[w] = r
  BY <1>5, SetEffect DEF OthersStay
<1>8. CallFits(w)'
  BY <1>2, <1>4, <1>6, <1>7 DEF CallFits, RecorderHoldsLock, CallKeysFit, RecordsWhatIsThere, MissesStay, Recording
<1> QED BY <1>1, <1>7, <1>8, QuietWanes, WaningCall

LEMMA ReadPreviousRest == ASSUME LInv, NEW w \in Workers, ReadPrevious(w) PROVE Rest'
<1> USE DEF LInv, TInv
<1> DEFINE row == blobs[worker[w].p.checksum]
<1>1. UNCHANGED <<now, objects, blobs, observations, sweep>>
  BY DEF ReadPrevious
<1>2. ~worker[w].lost /\ worker[w].phase = "locked" /\ worker[w].p.key[2] = worker[w].p.checksum
  BY DEF ReadPrevious, CallFits, RecorderHoldsLock, Recording, CallKeysFit
<1>3. worker[w].p \in Pointer
  BY DEF ReadPrevious, WorkersOK, Carrying
<1>4. PICK prev, k :
        /\ Set(w, [worker[w] EXCEPT !.pc = "put", !.previous = prev, !.p.key = k])
        /\ k = worker[w].p.key \/ (row # Nothing /\ k = row.key)
        /\ prev = Nothing \/ (row # Nothing /\ prev = row.key)
  BY ReadPreviousEffect
<1>5. worker[w].p.checksum \in Bodies
  BY <1>3 DEF Pointer
<1>6. row # Nothing => row.key[2] = worker[w].p.checksum
  BY <1>5 DEF RowsFit
<1> DEFINE r == [worker[w] EXCEPT !.pc = "put", !.previous = prev, !.p.key = k]
<1>7. /\ r.pc = "put" /\ r.p.key = k /\ r.p.checksum = worker[w].p.checksum /\ r.previous = prev
      /\ r.lost = worker[w].lost /\ r.phase = worker[w].phase
  BY <1>3 DEF WorkersOK, WorkerRecord, Pointer
<1>8. Set(w, r)
  BY <1>4
<1> HIDE DEF r
<1>9. OthersStay(w) /\ worker'[w] = r
  BY <1>8, SetEffect DEF OthersStay
<1>10. k[2] = worker[w].p.checksum
  BY <1>2, <1>4, <1>6
<1>11. prev # Nothing => prev[2] = worker[w].p.checksum
  BY <1>4, <1>6
<1>12. CallFits(w)'
  BY <1>2, <1>7, <1>9, <1>10, <1>11
     DEF CallFits, RecorderHoldsLock, CallKeysFit, RecordsWhatIsThere, MissesStay, Recording
<1> QED BY <1>1, <1>9, <1>12, QuietWanes, WaningCall

\* While a call holds the lock, the others have nothing in hand that it could disturb.
LEMMA OthersFit ==
    ASSUME LInv, NEW w \in Workers, worker[w].phase = "locked", OthersStay(w)
    PROVE  \A v \in Workers \ {w} : CallFits(v)'
<1> SUFFICES ASSUME NEW v \in Workers \ {w} PROVE CallFits(v)'
  OBVIOUS
<1>1. worker[v].phase # "locked"
  BY OneHolder
<1>2. worker'[v] = worker[v]
  BY DEF OthersStay
<1>3. worker[v].pc \notin Recording /\ RecorderHoldsLock(v)
  BY <1>1 DEF LInv, CallFits, RecorderHoldsLock
<1> QED BY <1>1, <1>2, <1>3
        DEF CallFits, RecorderHoldsLock, CallKeysFit, RecordsWhatIsThere, MissesStay, Recording

LEMMA PutRest == ASSUME LInv, NEW w \in Workers, PutImmutable(w) PROVE Rest'
<1> USE DEF LInv, TInv
<1> DEFINE p == worker[w].p
<1>1. UNCHANGED <<now, blobs, observations, sweep>>
  BY DEF PutImmutable
<1>2. ~worker[w].lost /\ worker[w].phase = "locked" /\ p \in Pointer
  BY DEF PutImmutable, CallFits, RecorderHoldsLock, Recording, WorkersOK, Carrying
<1>3. /\ OthersStay(w) /\ worker'[w].pc = "commit" /\ worker'[w].p = p /\ ~worker'[w].lost
      /\ worker'[w].phase = "locked" /\ worker'[w].previous = worker[w].previous
  BY <1>2, GotoEffect DEF PutImmutable
<1>4. \A k \in Keys : objects'[k] = objects[k] \/ objects'[k] = "good"
  BY DEF PutImmutable, StoresOK
<1>5. objects'[p.key] # "absent"
  BY <1>2 DEF PutImmutable, StoresOK, Pointer
<1>6. RowsFit'
  <2>1. \A b \in Bodies : blobs[b] # Nothing => blobs[b].key \in Keys
    BY DEF StoresOK, BlobRow
  <2>2. \A b \in Bodies : Live(b)' => Live(b)
    BY <1>1 DEF Live
  <2> QED BY <1>1, <1>4, <2>1, <2>2 DEF RowsFit, LiveRowHasObject, Live
<1>7. SweepsTheDead'
  BY <1>1 DEF SweepsTheDead, Dead
<1>8. CallFits(w)'
  BY <1>3, <1>5 DEF PutImmutable, CallFits, RecorderHoldsLock, CallKeysFit, RecordsWhatIsThere, MissesStay, Recording
<1> QED BY <1>2, <1>3, <1>6, <1>7, <1>8, OthersFit DEF Rest

\* The row that is written points to the object of this call; LEAST keeps a dead row dead,
\* so a sweep that removed that object meanwhile removed it for good.
LEMMA CommitRest == ASSUME LInv, NEW w \in Workers, CommitObservation(w) PROVE Rest'
<1> USE DEF LInv, TInv
<1>0. PICK p, c : p = worker[w].p /\ c = p.checksum
  OBVIOUS
<1>1. UNCHANGED <<now, objects, sweep>>
  BY DEF CommitObservation
<1>2. ~worker[w].lost /\ worker[w].phase = "locked" /\ p \in Pointer
  BY <1>0 DEF CommitObservation, CallFits, RecorderHoldsLock, Recording, WorkersOK, Carrying
<1>3. /\ OthersStay(w) /\ worker'[w].pc = "supersede" /\ worker'[w].p = p /\ ~worker'[w].lost
      /\ worker'[w].phase = "locked" /\ worker'[w].previous = worker[w].previous
  BY <1>0, <1>2, GotoEffect DEF CommitObservation
<1>4. c \in Bodies /\ p.key[2] = c /\ (objects[p.key] # "absent" \/ Dead(c))
  BY <1>0, <1>2 DEF CommitObservation, Pointer, CallFits, CallKeysFit, RecordsWhatIsThere
<1>5. blobs'[c] = NewRow(w) /\ \A b \in Bodies \ {c} : blobs'[b] = blobs[b]
  <2>1. blobs' = [blobs EXCEPT ![c] = NewRow(w)]
    BY <1>0 DEF CommitObservation, NewRow
  <2> QED BY <1>4, <2>1 DEF StoresOK
<1>6. NewRow(w) \in BlobRow /\ (Dead(c) => NewRow(w).expires_at <= now) /\ NewRow(w).key = p.key
  <2>1. NewRow(w).key = p.key
    BY <1>0 DEF NewRow
  <2> QED BY <1>0, <2>1, NewRowTyped DEF CommitObservation, Carrying
<1>7. NewRow(w) # Nothing
  BY <1>6, ProviderCacheAssumption
<1>8. \A b \in Bodies \ {c} : Live(b)' = Live(b) /\ Dead(b)' = Dead(b)
  BY <1>1, <1>5 DEF Live, Dead
<1>9. Dead(c) => Dead(c)' /\ ~Live(c)'
  <2> SUFFICES ASSUME Dead(c) PROVE Dead(c)' /\ ~Live(c)'
    OBVIOUS
  <2>1. NewRow(w).expires_at \in Nat /\ now \in Nat
    BY <1>6, ProviderCacheAssumption DEF BlobRow, StoresOK
  <2>2. blobs'[c] # Nothing /\ blobs'[c].expires_at <= now'
    BY <1>1, <1>5, <1>6, <1>7
  <2>3. ~(blobs'[c].expires_at > now')
    BY <1>1, <1>5, <2>1, <2>2
  <2> QED BY <2>2, <2>3 DEF Dead, Live
<1>10. RowsFit'
  <2>1. \A b \in Bodies : blobs'[b] # Nothing => blobs'[b].key[2] = b
    BY <1>4, <1>5, <1>6 DEF RowsFit
  <2>2. \A b \in Bodies : Live(b)' => objects'[blobs'[b].key] # "absent"
    BY <1>1, <1>4, <1>5, <1>6, <1>8, <1>9 DEF RowsFit, LiveRowHasObject
  <2>3. \A k \in Keys : objects'[k] # "corrupt"
    BY <1>1 DEF RowsFit
  <2> QED BY <2>1, <2>2, <2>3 DEF RowsFit, LiveRowHasObject
<1>11. SweepsTheDead'
  <2>1. \A s \in sweep : s.checksum \in Bodies
    BY DEF StoresOK, SweepRow
  <2>2. \A s \in sweep' : s.key[2] = s.checksum /\ Dead(s.checksum)'
    BY <1>1, <1>8, <1>9, <2>1 DEF SweepsTheDead
  <2> QED BY <2>2 DEF SweepsTheDead
<1>12. CallFits(w)'
  <2>1. worker[w].previous # Nothing => worker[w].previous[2] = c
    BY <1>0 DEF CommitObservation, CallFits, CallKeysFit
  <2>2. worker'[w].p.checksum = c /\ worker'[w].p.key = p.key
    BY <1>0, <1>3
  <2>3. blobs'[c] # Nothing /\ blobs'[c].key = p.key
    BY <1>5, <1>6, <1>7
  <2>4. RecordsWhatIsThere(w)'
    BY <1>3, <2>2, <2>3 DEF RecordsWhatIsThere
  <2>5. CallKeysFit(w)'
    BY <1>3, <1>4, <2>1, <2>2 DEF CallKeysFit
  <2>6. RecorderHoldsLock(w)' /\ MissesStay(w)'
    BY <1>3 DEF RecorderHoldsLock, MissesStay, Recording
  <2> QED BY <2>4, <2>5, <2>6 DEF CallFits
<1> QED BY <1>2, <1>3, <1>10, <1>11, <1>12, OthersFit DEF Rest

\* Only a row of the same checksum can point to the superseded object, and that one has
\* just been written with another key.
LEMMA SupersedeRest == ASSUME LInv, NEW w \in Workers, DeleteSuperseded(w) PROVE Rest'
<1> USE DEF LInv, TInv
<1> DEFINE p == worker[w].p
           old == worker[w].previous
<1>1. UNCHANGED <<now, blobs, observations, sweep>>
  BY DEF DeleteSuperseded
<1>2. ~worker[w].lost /\ worker[w].phase = "locked"
  BY DEF DeleteSuperseded, CallFits, RecorderHoldsLock, Recording
<1>3. OthersStay(w) /\ worker'[w].pc = "remember" /\ ~worker'[w].lost
  BY <1>2, GotoEffect DEF DeleteSuperseded
<1>4. /\ old # Nothing => old[2] = p.checksum
      /\ blobs[p.checksum].key = p.key
  BY DEF DeleteSuperseded, CallFits, CallKeysFit, RecordsWhatIsThere
<1>5. \A k \in Keys : objects'[k] = objects[k] \/ (objects'[k] = "absent" /\ k = old /\ old # Nothing /\ old # p.key)
  BY DEF DeleteSuperseded, StoresOK
<1>6. RowsFit'
  <2>1. \A b \in Bodies : blobs[b] # Nothing => blobs[b].key \in Keys /\ blobs[b].key[2] = b
    BY DEF StoresOK, BlobRow, RowsFit
  <2>2. \A b \in Bodies : Live(b)' => Live(b)
    BY <1>1 DEF Live
  <2>3. ASSUME NEW b \in Bodies, Live(b) PROVE objects'[blobs[b].key] # "absent"
    <3>1. blobs[b].key \in Keys /\ blobs[b].key[2] = b /\ objects[blobs[b].key] # "absent"
      BY <2>1, <2>3 DEF Live, RowsFit, LiveRowHasObject
    <3> QED BY <1>4, <1>5, <3>1
  <2> QED BY <1>1, <1>5, <2>1, <2>2, <2>3 DEF RowsFit, LiveRowHasObject
<1>7. SweepsTheDead'
  BY <1>1 DEF SweepsTheDead, Dead
<1>8. CallFits(w)'
  BY <1>3, HarmlessFits
<1> QED BY <1>2, <1>3, <1>6, <1>7, <1>8, OthersFit DEF Rest

\* A step in which no call moves.
LEMMA WaningIdle == ASSUME LInv, Wanes, worker' = worker, SweepsTheDead' PROVE Rest'
BY WanesKeeps, WanesFits DEF Rest

LEMMA SweepRest == ASSUME LInv, SweepExpiredBlobs \/ SweepAbort PROVE Rest'
<1> USE DEF LInv, TInv
<1>1. worker' = worker /\ now' = now /\ observations' = observations /\ now \in Nat
  <2>1. now \in Nat
    BY ProviderCacheAssumption DEF StoresOK
  <2>2. UNCHANGED <<worker, now, observations>>
    BY DEF SweepExpiredBlobs, SweepSelect, SweepDelete, SweepMark, SweepAbort
  <2> QED BY <2>1, <2>2
<1>2. CASE SweepSelect
  <2>1. UNCHANGED <<now, objects, blobs, observations>>
    BY <1>2 DEF SweepSelect
  <2>2. ASSUME NEW b \in Bodies, Expired(b) PROVE blobs[b].key[2] = b /\ Dead(b)'
    <3>1. blobs[b] \in BlobRow /\ blobs[b].expires_at + Grace <= now
      BY <2>2 DEF Expired, StoresOK
    <3>2. blobs[b].expires_at <= now
      <4>1. blobs[b].expires_at \in Nat /\ Grace \in Nat
        BY <3>1, ProviderCacheAssumption DEF BlobRow
      <4> QED BY <1>1, <3>1, <4>1
    <3> QED BY <2>1, <2>2, <3>2 DEF Expired, RowsFit, Dead
  <2>3. \A s \in sweep' : \E b \in Bodies : /\ Expired(b)
                                            /\ s = [checksum |-> b, key |-> blobs[b].key, deleted |-> FALSE]
    BY <1>2 DEF SweepSelect
  <2>4. \A s \in sweep' : s.key[2] = s.checksum /\ Dead(s.checksum)'
    <3> SUFFICES ASSUME NEW s \in sweep' PROVE s.key[2] = s.checksum /\ Dead(s.checksum)'
      OBVIOUS
    <3>1. PICK b \in Bodies : Expired(b) /\ s = [checksum |-> b, key |-> blobs[b].key, deleted |-> FALSE]
      BY <2>3
    <3>2. s.checksum = b /\ s.key = blobs[b].key
      BY <3>1
    <3> QED BY <2>2, <3>1, <3>2
  <2>5. SweepsTheDead'
    BY <2>4 DEF SweepsTheDead
  <2> QED BY <1>1, <2>1, <2>5, QuietWanes, WaningIdle
<1>3. CASE SweepDelete
  <2>1. PICK s \in sweep : /\ objects' = [objects EXCEPT ![s.key] = "absent"]
                           /\ sweep' = (sweep \ {s}) \cup {[s EXCEPT !.deleted = TRUE]}
                           /\ blobs' = blobs
    BY <1>3 DEF SweepDelete
  <2>2. s \in SweepRow /\ Dead(s.key[2]) /\ s.key[2] = s.checksum
    BY DEF StoresOK, SweepsTheDead
  <2>3. \A b \in Bodies : Live(b)' = Live(b) /\ Dead(b)' = Dead(b)
    BY <1>1, <2>1 DEF Live, Dead
  <2>4. RowsWane /\ RowsKeepKeys
    BY <2>1, <2>3 DEF RowsWane, RowsKeepKeys
  <2>5. ObjectsWane
    BY <2>1, <2>2 DEF ObjectsWane, StoresOK
  <2>6. Wanes
    BY <1>1, <2>4, <2>5 DEF Wanes
  <2>7. SweepsTheDead'
    <3> DEFINE r == [s EXCEPT !.deleted = TRUE]
    <3>1. r.key = s.key /\ r.checksum = s.checksum
      BY <2>2 DEF SweepRow
    <3>2. \A q \in sweep' : q \in sweep \/ q = r
      BY <2>1
    <3> HIDE DEF r
    <3>3. \A q \in sweep : q.key[2] = q.checksum /\ Dead(q.checksum) /\ q.checksum \in Bodies
      BY DEF SweepsTheDead, StoresOK, SweepRow
    <3>4. \A q \in sweep' : q.key[2] = q.checksum /\ Dead(q.checksum)'
      BY <2>3, <3>1, <3>2, <3>3
    <3> QED BY <3>4 DEF SweepsTheDead
  <2> QED BY <1>1, <2>6, <2>7, WaningIdle
<1>4. CASE SweepMark
  <2>1. PICK s \in sweep :
          /\ blobs' = [blobs EXCEPT ![s.checksum] =
                          IF Expired(s.checksum) THEN [@ EXCEPT !.deleted = TRUE] ELSE @]
          /\ sweep' = sweep \ {s} /\ objects' = objects
    BY <1>4 DEF SweepMark
  <2>2. s.checksum \in Bodies
    BY DEF StoresOK, SweepRow
  <2>3. CASE Expired(s.checksum)
    <3>1. blobs[s.checksum] # Nothing
      BY <2>3 DEF Expired
    <3>2. blobs' = [blobs EXCEPT ![s.checksum] = [blobs[s.checksum] EXCEPT !.deleted = TRUE]]
      BY <2>1, <2>3, Zenon
    <3>3. Wanes
      BY <1>1, <2>1, <2>2, <3>1, <3>2, MarkedRowWanes
    <3> QED BY <1>1, <2>1, <3>3, SweepStays, WaningIdle
  <2>4. CASE ~Expired(s.checksum)
    <3>1. blobs' = [blobs EXCEPT ![s.checksum] = blobs[s.checksum]]
      BY <2>1, <2>4, Zenon
    <3>2. blobs' = blobs
      BY <3>1 DEF StoresOK
    <3>3. Wanes
      BY <1>1, <2>1, <3>2, QuietWanes
    <3> QED BY <1>1, <2>1, <3>3, SweepStays, WaningIdle
  <2> QED BY <2>3, <2>4
<1>5. CASE SweepAbort
  <2>1. Wanes
    BY <1>5, QuietWanes DEF SweepAbort
  <2> QED BY <1>1, <1>5, <2>1, SweepStays, WaningIdle DEF SweepAbort
<1> QED BY <1>2, <1>3, <1>4, <1>5 DEF SweepExpiredBlobs

LEMMA EnvironmentRest ==
    ASSUME LInv, UNCHANGED cacheVars \/ Tick \/ HotBodyExpires \/ EvictPointer
    PROVE  Rest'
<1> USE DEF LInv, TInv
<1>1. worker' = worker /\ sweep' = sweep
  BY DEF Tick, HotBodyExpires, EvictPointer, cacheVars
<1>2. CASE UNCHANGED <<now, objects, blobs, observations>>
  BY <1>1, <1>2, QuietWanes, SweepStays, WaningIdle
<1>3. CASE Tick
  <2>1. now \in Nat /\ now' = now + 1 /\ observations' = observations /\ blobs' = blobs /\ objects' = objects
    BY <1>3, ProviderCacheAssumption DEF Tick, StoresOK
  <2>2. \A b \in Bodies : blobs[b] # Nothing => blobs[b].expires_at \in Nat
    BY ProviderCacheAssumption DEF StoresOK, BlobRow
  <2>3. RowsWane
    BY <2>1, <2>2 DEF RowsWane, Live, Dead
  <2>4. RowsKeepKeys /\ ObjectsWane
    BY <2>1 DEF RowsKeepKeys, ObjectsWane
  <2>5. Wanes
    BY <2>1, <2>3, <2>4 DEF Wanes
  <2> QED BY <1>1, <2>5, SweepStays, WaningIdle
<1> QED BY <1>2, <1>3 DEF HotBodyExpires, EvictPointer, cacheVars

LEMMA InitLInv == CacheInit => LInv
<1> SUFFICES ASSUME CacheInit PROVE LInv
  OBVIOUS
<1>1. TInv /\ LockIsHeld /\ PointersAreNamed
  BY InitTInv DEF CacheInit, LockIsHeld, PointersAreNamed, IdleWorker, Committed
<1>2. \A w \in Workers : CallFits(w)
  BY DEF CacheInit, IdleWorker, CallFits, RecorderHoldsLock, CallKeysFit, RecordsWhatIsThere, MissesStay, Recording
<1>3. SweepsTheDead
  BY DEF CacheInit, SweepsTheDead
<1>4. CASE blobs = [b \in Bodies |-> Nothing] /\ objects = [k \in Keys |-> "absent"]
  <2>1. RowsFit
    BY <1>4 DEF RowsFit, LiveRowHasObject, Live
  <2> QED BY <1>1, <1>2, <1>3, <2>1 DEF LInv
<1>5. ASSUME NEW b \in Bodies, NEW x \in Prefixes, NEW expiry \in {1, Never},
             blobs = [c \in Bodies |-> IF c # b THEN Nothing ELSE
                        [key |-> <<x, b>>, expires_at |-> expiry, deleted |-> FALSE, integrity |-> "verified"]],
             objects = [k \in Keys |-> IF k = <<x, b>> THEN "good" ELSE "absent"]
      PROVE  LInv
  <2> DEFINE row == [key |-> <<x, b>>, expires_at |-> expiry, deleted |-> FALSE, integrity |-> "verified"]
  <2>1. row.key = <<x, b>> /\ <<x, b>> \in Keys
    BY DEF Keys
  <2>2. blobs = [c \in Bodies |-> IF c # b THEN Nothing ELSE row]
    BY <1>5
  <2> HIDE DEF row
  <2>3. \A c \in Bodies : blobs[c] # Nothing => c = b /\ blobs[c].key = <<x, b>>
    BY <2>1, <2>2
  <2>4. objects[<<x, b>>] = "good" /\ \A k \in Keys : objects[k] \in {"good", "absent"}
    BY <1>5, <2>1
  <2>5. RowsFit
    BY <2>3, <2>4 DEF RowsFit, LiveRowHasObject, Live
  <2> QED BY <1>1, <1>2, <1>3, <2>5 DEF LInv
<1> QED BY <1>4, <1>5 DEF CacheInit

LEMMA InductiveLInv == ASSUME Reliable PROVE LInv /\ [CacheNext]_cacheVars => LInv'
<1> SUFFICES ASSUME LInv, [CacheNext]_cacheVars PROVE LInv'
  OBVIOUS
<1>1. TInv' /\ LockIsHeld' /\ PointersAreNamed'
  BY InductiveTInv, LockStep, PointerStep DEF LInv
<1>2. ASSUME NEW w \in Workers, Resolve(w) \/ ReturnError(w) \/ WorkerDies(w) PROVE Rest'
  <2>1. ~(DeleteCorrupt(w) \/ MarkCorrupt(w) \/ EvictCorrupt(w))
    BY DEF LInv, CallFits, RecorderHoldsLock, DeleteCorrupt, MarkCorrupt, EvictCorrupt
  <2> QED BY <1>2, <2>1, LookupRest, LookupDurableRest, ReadObjectRest, RequeryRest, MarkMissingRest, LockRest,
             FetchRest, ReadPreviousRest, PutRest, CommitRest, SupersedeRest DEF Resolve
<1>3. ~(LockExpires \/ LifecycleExpires \/ Corrupt)
  BY DEF Reliable, LockExpires, LifecycleExpires, Corrupt, Fault
<1>4. Rest'
  BY <1>2, <1>3, SweepRest, EnvironmentRest DEF CacheNext
<1> QED BY <1>1, <1>4 DEF LInv, Rest

LEMMA LInvHolds == ASSUME Reliable PROVE CacheSpec => []LInv
BY InitLInv, InductiveLInv, PTL DEF CacheSpec

\* Neither a move to another prefix nor a sweep that runs between any two steps of a call
\* takes the object of a row that lookups use, whoever crashes, fails or is evicted.
THEOREM LiveRowSafety == ASSUME Reliable PROVE CacheSpec => []LiveRowHasObject
<1>1. LInv => LiveRowHasObject
  BY DEF LInv, RowsFit
<1> QED BY <1>1, LInvHolds, PTL

\* However many calls compete, upstream is asked only when the lookup under the lock had
\* nothing to offer, and that is still so when the request leaves.
THEOREM NeedlessSafety == ASSUME Reliable PROVE CacheSpec => NoNeedlessFetch
<1>1. LInv /\ [CacheNext]_cacheVars =>
        [\A w \in Workers : worker[w].pc = "fetch" /\ worker'[w].pc = "previous" => NothingToReuse]_cacheVars
  <2>1. ASSUME LInv, NEW w \in Workers, worker[w].pc = "fetch" PROVE NothingToReuse
    BY <2>1 DEF LInv, CallFits, RecorderHoldsLock, MissesStay, Recording
  <2> QED BY <2>1
<1> QED BY <1>1, LInvHolds, PTL DEF CacheSpec, NoNeedlessFetch
=============================================================================
