--------------------------- MODULE Progress_proofs ---------------------------
(***************************************************************************)
(* The components that poll, sweep and retry, each for any instance of it.   *)
(*                                                                          *)
(* Discovery runs: that a finished run stays finished and that Redis tells   *)
(* the truth rest on one job working at a time: River inserts a row only     *)
(* when none is active, a worker is busy only with a running row, and it     *)
(* goes past GetRun only with a run that no one has completed.               *)
(* Request gate: a request goes out when nextIn is 0, so the proof is what   *)
(* nextIn stands for, the rest of the spacing after the last request and at  *)
(* least the rest of the cooldown.                                           *)
(* Read counters: a hash is a finite map, so what flushes carry is a sum over *)
(* the flushers; sums come from the library's fold and are proved about once, *)
(* and the count of an entity is what Redis, a flush in flight and the table  *)
(* hold of it together.                                                       *)
(* Refresh, drain, fingerprints and discographies: types. A drain has never   *)
(* more left to sequence than was staged, and a synchronisation is in bounds  *)
(* of the clusters it walks only because each phase says where it started.    *)
(* The last section puts the components together.                             *)
(***************************************************************************)
EXTENDS MCProgress, ImageCache_proofs, Redirects_proofs, TLAPS

-----------------------------------------------------------------------------
(* Discovery runs *)

\* The attempts River counts leave room for the one that a waiting row will be
\* given, and a worker is busy with a running row only.
AttemptsLeft ==
    \A j \in JobIds :
        /\ river[j].state \in Waiting => river[j].attempt < MaxAttempts
        /\ river[j].state = "running" => river[j].attempt > 0
        /\ work[j].pc # "idle" => river[j].state = "running"

RunTInv == TypeOK /\ AttemptsLeft

\* One row is active at a time.
OneActiveJob == \A i, j \in JobIds : river[i].state \in Active /\ river[j].state \in Active => i = j

\* A completed result that may still be served.
Fresh == run.state = "completed" /\ ~run.expired

\* From GetRun until its outcome is stored, an attempt works on a run without result.
WorksOnOpenRun == \A j \in JobIds : work[j].pc \in {"start", "work", "complete", "fail"} => ~Fresh

\* Redis holds a copy of a result that may still be served.
CacheIsFresh == cache => Fresh

\* Without known identifiers no handler settles the request itself.
JInv == RunTInv /\ OneActiveJob /\ WorksOnOpenRun /\ CacheIsFresh

LEMMA IdleTyped == NoJob \in RiverRecord /\ IdleClient \in ClientRecord /\ IdleWork \in WorkRecord
BY DiscoveryAssumption DEF RiverRecord, ClientRecord, WorkRecord, IdleClient, IdleWork, NoJob

LEMMA InitRunTInv == Init => RunTInv
<1> SUFFICES ASSUME Init PROVE RunTInv
  OBVIOUS
<1>1. run \in RunRecord
  BY DEF Init, RunRecord
<1>2. /\ river \in [JobIds -> RiverRecord] /\ client \in [Clients -> ClientRecord]
      /\ work \in [JobIds -> WorkRecord]
  BY IdleTyped DEF Init
<1>3. AttemptsLeft
  BY DEF Init, AttemptsLeft, NoJob, IdleWork, Waiting
<1>4. event \in Terminal \cup {None} /\ creds \subseteq Refs /\ crashes \in 0..MaxCrashes
  BY DiscoveryAssumption DEF Init
<1>5. cache \in BOOLEAN
  BY Zenon DEF Init
<1> QED BY <1>1, <1>2, <1>3, <1>4, <1>5 DEF RunTInv, TypeOK

-----------------------------------------------------------------------------
(* Types and attempts *)

ClientPcs == {"idle", "cache", "ensure", "get", "known", "complete", "store", "insert", "promote", "attach",
              "poll", "accepted", "answered"}
WorkPcs == {"idle", "load", "get", "start", "work", "complete", "cache", "delete", "fail", "finish"}

\* A handler that only moves on stays well typed.
LEMMA ToTyped ==
    ASSUME TypeOK, NEW c \in Clients, NEW pc \in ClientPcs, To(c, pc)
    PROVE  client' \in [Clients -> ClientRecord]
BY DEF TypeOK, To, ClientPcs, ClientRecord

LEMMA ClientTyped ==
    ASSUME TypeOK, NEW c \in Clients, NEW r \in ClientRecord, client' = [client EXCEPT ![c] = r]
    PROVE  client' \in [Clients -> ClientRecord]
BY DEF TypeOK

\* A worker that only moves on stays well typed.
LEMMA StepOfWork ==
    ASSUME TypeOK, NEW j \in JobIds, NEW pc \in WorkPcs, Step(j, pc)
    PROVE  work' \in [JobIds -> WorkRecord]
BY DEF TypeOK, Step, WorkPcs, WorkRecord

LEMMA FinishTyped ==
    ASSUME TypeOK, NEW j \in JobIds, NEW o \in {"ok", "error", "snooze", "cancel"}, Finish(j, o)
    PROVE  work' \in [JobIds -> WorkRecord]
BY DEF TypeOK, Finish, WorkRecord

\* The parts of the state a step of one kind leaves alone.
LEMMA HandlerTInv ==
    ASSUME RunTInv, NEW c \in Clients, Post(c) \/ Handler(c) \/ SeeTerminal(c) \/ Resubmit(c) \/ Leave(c) \/ PostError(c)
                                    \/ Known(c)
    PROVE  RunTInv'
<1> USE DEF RunTInv
<1>1. CASE Post(c) \/ ReadCache(c) \/ Accept(c) \/ SeeTerminal(c) \/ Resubmit(c) \/ ResolveKnown(c)
  <2>1. client' \in [Clients -> ClientRecord]
    BY <1>1, ToTyped DEF Post, ReadCache, Accept, SeeTerminal, Resubmit, ResolveKnown, ClientPcs
  <2>2. UNCHANGED <<run, cache, event, river, creds, work, crashes>>
    BY <1>1 DEF Post, ReadCache, Accept, SeeTerminal, Resubmit, ResolveKnown
  <2> QED BY <2>1, <2>2 DEF TypeOK, AttemptsLeft
<1>2. CASE Ensure(c)
  <2>1. client' \in [Clients -> ClientRecord]
    BY <1>2, ToTyped DEF Ensure, ClientPcs
  <2>2. run' \in RunRecord
    <3>1. [state |-> "queued", expired |-> FALSE, job |-> None] \in RunRecord
      BY DEF RunRecord
    <3> QED BY <1>2, <3>1 DEF Ensure, TypeOK
  <2>3. UNCHANGED <<cache, event, river, creds, work, crashes>>
    BY <1>2 DEF Ensure
  <2> QED BY <2>1, <2>2, <2>3 DEF TypeOK, AttemptsLeft
<1>3. CASE GetExisting(c)
  <2>1. client' \in [Clients -> ClientRecord]
    BY <1>3, ToTyped DEF GetExisting, ClientPcs
  <2>2. cache' \in BOOLEAN
    BY <1>3, Zenon DEF GetExisting, TypeOK
  <2>3. UNCHANGED <<run, event, river, creds, work, crashes>>
    BY <1>3 DEF GetExisting
  <2> QED BY <2>1, <2>2, <2>3 DEF TypeOK, AttemptsLeft
<1>4. CASE CompleteKnown(c)
  <2>1. client' \in [Clients -> ClientRecord]
    BY <1>4, ToTyped DEF CompleteKnown, ClientPcs
  <2>2. run' \in RunRecord /\ cache' \in BOOLEAN /\ event' \in Terminal
    BY <1>4 DEF CompleteKnown, CompleteRun, TypeOK, RunRecord, Terminal
  <2>3. UNCHANGED <<river, creds, work, crashes>>
    BY <1>4 DEF CompleteKnown
  <2> QED BY <2>1, <2>2, <2>3 DEF TypeOK, AttemptsLeft
<1>5. CASE StoreCredentials(c)
  <2>1. client' \in [Clients -> ClientRecord] /\ creds' \subseteq Refs
    <3>1. PICK r \in {None} \cup Refs :
            /\ creds' = creds \cup ({r} \ {None})
            /\ client' = [client EXCEPT ![c].pc = "insert", ![c].cred = r]
      BY <1>5 DEF StoreCredentials
    <3>2. [client[c] EXCEPT !.pc = "insert", !.cred = r] \in ClientRecord
      BY DEF TypeOK, ClientRecord
    <3>3. client' = [client EXCEPT ![c] = [client[c] EXCEPT !.pc = "insert", !.cred = r]]
      BY <3>1
    <3> QED BY <3>1, <3>2, <3>3, ClientTyped DEF TypeOK
  <2>2. UNCHANGED <<run, cache, event, river, work, crashes>>
    BY <1>5 DEF StoreCredentials
  <2> QED BY <2>1, <2>2 DEF TypeOK, AttemptsLeft
<1>6. CASE InsertJob(c)
  <2>1. PICK j \in JobIds :
          /\ \/ river' = river
             \/ /\ river[j].state = "none"
                /\ river' = [river EXCEPT ![j] = [state |-> "available", attempt |-> 0, cred |-> client[c].cred]]
          /\ client' = [client EXCEPT ![c].pc = "promote", ![c].job = j]
    BY <1>6 DEF InsertJob
  <2>2. client' \in [Clients -> ClientRecord]
    <3>1. [client[c] EXCEPT !.pc = "promote", !.job = j] \in ClientRecord
      BY DEF TypeOK, ClientRecord
    <3>2. client' = [client EXCEPT ![c] = [client[c] EXCEPT !.pc = "promote", !.job = j]]
      BY <2>1
    <3> QED BY <3>1, <3>2, ClientTyped
  <2>3. client[c].cred \in Refs \cup {None}
    BY DEF TypeOK, ClientRecord
  <2>4. river' \in [JobIds -> RiverRecord]
    BY <2>1, <2>3, DiscoveryAssumption DEF TypeOK, RiverRecord, Active, Waiting
  <2>5. UNCHANGED <<run, cache, event, creds, work, crashes>>
    BY <1>6 DEF InsertJob
  <2>6. AttemptsLeft'
    BY <2>1, <2>5, DiscoveryAssumption DEF TypeOK, AttemptsLeft, RiverRecord, Waiting
  <2> QED BY <2>2, <2>4, <2>5, <2>6 DEF TypeOK
<1>7. CASE Promote(c)
  <2> DEFINE j == client[c].job
  <2>1. client' \in [Clients -> ClientRecord]
    BY <1>7, ToTyped DEF Promote, ClientPcs
  <2>2. client[c].cred \in Refs \cup {None}
    BY DEF TypeOK, ClientRecord
  <2>3. \/ river' = river
        \/ \E r \in {river[j].cred, client[c].cred} : river' = [river EXCEPT ![j].cred = r]
    BY <1>7 DEF Promote
  <2>4. \A i \in JobIds : /\ river'[i] \in RiverRecord
                          /\ river'[i].state = river[i].state /\ river'[i].attempt = river[i].attempt
    BY <2>2, <2>3 DEF TypeOK, RiverRecord
  <2>5. river' \in [JobIds -> RiverRecord]
    BY <2>3, <2>4 DEF TypeOK
  <2>6. UNCHANGED <<run, cache, event, work, crashes>> /\ creds' \subseteq creds
    BY <1>7 DEF Promote
  <2> QED BY <2>1, <2>4, <2>5, <2>6 DEF TypeOK, AttemptsLeft
<1>8. CASE AttachJob(c)
  <2>1. client' \in [Clients -> ClientRecord]
    BY <1>8 DEF AttachJob, TypeOK, ClientRecord, IdleClient
  <2>2. client[c].job \in JobIds \cup {None}
    BY DEF TypeOK, ClientRecord
  <2>3. run' \in RunRecord
    BY <1>8, <2>2 DEF AttachJob, TypeOK, RunRecord
  <2>4. UNCHANGED <<cache, event, river, creds, work, crashes>>
    BY <1>8 DEF AttachJob
  <2> QED BY <2>1, <2>3, <2>4 DEF TypeOK, AttemptsLeft
<1>9. CASE Leave(c) \/ PostError(c)
  <2>1. client' \in [Clients -> ClientRecord] /\ creds' \subseteq creds
    BY <1>9 DEF Leave, PostError, TypeOK, ClientRecord, IdleClient
  <2>2. UNCHANGED <<run, cache, event, river, work, crashes>>
    BY <1>9 DEF Leave, PostError
  <2> QED BY <2>1, <2>2 DEF TypeOK, AttemptsLeft
<1> QED BY <1>1, <1>2, <1>3, <1>4, <1>5, <1>6, <1>7, <1>8, <1>9 DEF Handler, Known

LEMMA AttemptTInv ==
    ASSUME RunTInv, NEW j \in JobIds, Attempt(j) \/ WorkError(j)
    PROVE  RunTInv'
<1> USE DEF RunTInv
<1>1. CASE /\ \/ LoadCredentials(j) \/ GetRun(j) \/ CacheResult(j)
              \/ Search(j) \/ WorkError(j) \/ DeleteCredentials(j)
           /\ work' \in [JobIds -> WorkRecord] /\ work[j].pc # "idle"
           /\ \A i \in JobIds \ {j} : work'[i] = work[i]
  <2>1. UNCHANGED <<run, event, river, client, crashes>> /\ creds' \subseteq creds
    BY <1>1 DEF LoadCredentials, GetRun, CacheResult, Search, WorkError, DeleteCredentials
  <2>2. cache' \in BOOLEAN
    BY <1>1, Zenon DEF LoadCredentials, GetRun, CacheResult, Search, WorkError, DeleteCredentials, TypeOK
  <2> QED BY <1>1, <2>1, <2>2 DEF TypeOK, AttemptsLeft
<1>2. ASSUME NEW pc \in WorkPcs, Step(j, pc)
      PROVE  work' \in [JobIds -> WorkRecord] /\ \A i \in JobIds \ {j} : work'[i] = work[i]
  BY <1>2, StepOfWork DEF Step, TypeOK
<1>3. ASSUME NEW o \in {"ok", "error", "snooze", "cancel"}, Finish(j, o)
      PROVE  work' \in [JobIds -> WorkRecord] /\ \A i \in JobIds \ {j} : work'[i] = work[i]
  BY <1>3, FinishTyped DEF Finish, TypeOK
<1>4. CASE LoadCredentials(j) \/ GetRun(j) \/ CacheResult(j)
  BY <1>1, <1>2, <1>3, <1>4 DEF LoadCredentials, GetRun, CacheResult, WorkPcs
<1>5. CASE Search(j) \/ WorkError(j) \/ DeleteCredentials(j)
  <2>1. Search(j) => (\E pc \in WorkPcs : Step(j, pc)) \/ \E o \in {"ok", "error", "snooze", "cancel"} : Finish(j, o)
    BY DEF Search, WorkPcs
  <2>2. WorkError(j) \/ DeleteCredentials(j)
          => (\E pc \in WorkPcs : Step(j, pc)) \/ \E o \in {"ok", "error", "snooze", "cancel"} : Finish(j, o)
    BY DEF WorkError, DeleteCredentials, WorkPcs
  <2>3. work[j].pc # "idle"
    BY <1>5 DEF Search, WorkError, DeleteCredentials
  <2> QED BY <1>1, <1>2, <1>3, <1>5, <2>1, <2>2, <2>3
<1>6. CASE StartRun(j) \/ CompleteJob(j) \/ FailRun(j)
  <2>1. work' \in [JobIds -> WorkRecord] /\ \A i \in JobIds \ {j} : work'[i] = work[i]
    BY <1>2, <1>3, <1>6 DEF StartRun, CompleteJob, FailRun, WorkPcs
  <2>2. run' \in RunRecord /\ event' \in Terminal \cup {None}
    BY <1>6 DEF StartRun, CompleteJob, FailRun, CompleteRun, TypeOK, RunRecord, Terminal
  <2>3. UNCHANGED <<cache, river, creds, client, crashes>> /\ work[j].pc # "idle"
    BY <1>6 DEF StartRun, CompleteJob, FailRun
  <2> QED BY <2>1, <2>2, <2>3 DEF TypeOK, AttemptsLeft
<1>7. CASE FinishJob(j)
  <2> DEFINE st == CASE work[j].outcome = "ok" -> "completed"
                     [] work[j].outcome = "cancel" -> "cancelled"
                     [] work[j].outcome = "error" /\ LastAttempt(j) -> "discarded"
                     [] OTHER -> "retryable"
             at == IF work[j].outcome = "snooze" THEN river[j].attempt - 1 ELSE river[j].attempt
             r == [river[j] EXCEPT !.state = st, !.attempt = at]
  <2>1. river' = [river EXCEPT ![j] = r] /\ work' = [work EXCEPT ![j] = IdleWork]
    BY <1>7 DEF FinishJob
  <2>2. river[j].state = "running" /\ river[j].attempt \in 1..MaxAttempts
    BY <1>7, DiscoveryAssumption DEF FinishJob, AttemptsLeft, TypeOK, RiverRecord
  <2>3. work[j].outcome \in {"ok", "error", "snooze", "cancel"}
    BY DEF TypeOK, WorkRecord
  <2>4. /\ at \in 0..MaxAttempts /\ st \in {"completed", "cancelled", "discarded", "retryable"}
        /\ st = "retryable" => at < MaxAttempts
    BY <2>2, <2>3, DiscoveryAssumption DEF LastAttempt
  <2>5. r \in RiverRecord /\ r.state = st /\ r.attempt = at
    <3> HIDE DEF st, at
    <3> QED BY <2>4 DEF TypeOK, RiverRecord, Active, Waiting, Final
  <2>6. river' \in [JobIds -> RiverRecord] /\ work' \in [JobIds -> WorkRecord]
    BY <2>1, <2>5, IdleTyped DEF TypeOK
  <2>7. AttemptsLeft'
    <3>1. river'[j].state = st /\ river'[j].attempt = at /\ work'[j].pc = "idle"
      BY <2>1, <2>5 DEF TypeOK, IdleWork
    <3>2. \A i \in JobIds \ {j} : river'[i] = river[i] /\ work'[i] = work[i]
      BY <2>1 DEF TypeOK
    <3> HIDE DEF st, at
    <3> QED BY <3>1, <3>2, <2>4 DEF AttemptsLeft, Waiting
  <2> QED BY <1>7, <2>6, <2>7 DEF FinishJob, TypeOK
<1> QED BY <1>4, <1>5, <1>6, <1>7 DEF Attempt

LEMMA QueueTInv ==
    ASSUME RunTInv, NEW j \in JobIds, Queue(j) \/ Crash(j)
    PROVE  RunTInv'
<1> USE DEF RunTInv
<1>1. CASE FetchJob(j)
  <2> DEFINE r == [river[j] EXCEPT !.state = "running", !.attempt = @ + 1]
             q == [pc |-> "load", cred |-> river[j].cred, outcome |-> "ok"]
  <2>1. river' = [river EXCEPT ![j] = r] /\ work' = [work EXCEPT ![j] = q]
    BY <1>1 DEF FetchJob
  <2>2. river[j].attempt \in Nat /\ river[j].attempt < MaxAttempts /\ river[j].cred \in Refs \cup {None}
    BY <1>1, DiscoveryAssumption DEF FetchJob, AttemptsLeft, Waiting, TypeOK, RiverRecord
  <2>3. r \in RiverRecord /\ r.state = "running" /\ r.attempt > 0
    <3> DEFINE at == river[j].attempt + 1
    <3>1. at \in 0..MaxAttempts /\ at > 0
      BY <2>2, DiscoveryAssumption
    <3> HIDE DEF at
    <3>2. [river[j] EXCEPT !.state = "running", !.attempt = at] \in RiverRecord
      BY <3>1 DEF TypeOK, RiverRecord, Active
    <3> QED BY <3>1, <3>2 DEF TypeOK, RiverRecord, at
  <2>4. q \in WorkRecord
    BY <2>2 DEF WorkRecord
  <2>5. river' \in [JobIds -> RiverRecord] /\ work' \in [JobIds -> WorkRecord]
    BY <2>1, <2>3, <2>4 DEF TypeOK
  <2>6. AttemptsLeft'
    BY <2>1, <2>3 DEF AttemptsLeft, TypeOK, Waiting
  <2> QED BY <1>1, <2>5, <2>6 DEF FetchJob, TypeOK
<1>2. CASE RetryDue(j) \/ Rescue(j)
  <2>1. PICK st \in {"available", "retryable", "discarded"} : river' = [river EXCEPT ![j].state = st]
    BY <1>2 DEF RetryDue, Rescue
  <2>2. st \in Waiting => river[j].attempt < MaxAttempts
    BY <1>2, <2>1, DiscoveryAssumption
       DEF RetryDue, Rescue, LastAttempt, AttemptsLeft, Waiting, TypeOK, RiverRecord
  <2>3. river' \in [JobIds -> RiverRecord]
    BY <2>1 DEF TypeOK, RiverRecord, Active, Waiting, Final
  <2>4. work[j].pc = "idle"
    BY <1>2 DEF RetryDue, Rescue, AttemptsLeft
  <2>5. UNCHANGED <<run, cache, event, creds, client, work, crashes>>
    BY <1>2 DEF RetryDue, Rescue
  <2>6. AttemptsLeft'
    BY <2>1, <2>2, <2>4, <2>5 DEF AttemptsLeft, TypeOK, Waiting, RiverRecord
  <2> QED BY <2>3, <2>5, <2>6 DEF TypeOK
<1>3. CASE CleanJob(j)
  <2>1. river' \in [JobIds -> RiverRecord] /\ run' \in RunRecord
    BY <1>3, IdleTyped DEF CleanJob, TypeOK, RunRecord
  <2>2. UNCHANGED <<cache, event, creds, client, work, crashes>>
    BY <1>3 DEF CleanJob
  <2>3. work[j].pc = "idle"
    BY <1>3 DEF CleanJob, AttemptsLeft, Final
  <2>4. AttemptsLeft'
    BY <1>3, <2>2, <2>3 DEF CleanJob, AttemptsLeft, TypeOK, NoJob, Waiting
  <2> QED BY <2>1, <2>2, <2>4 DEF TypeOK
<1>4. CASE Crash(j)
  <2>1. work' \in [JobIds -> WorkRecord] /\ crashes' \in 0..MaxCrashes
    BY <1>4, IdleTyped, DiscoveryAssumption DEF Crash, TypeOK
  <2>2. UNCHANGED <<run, cache, event, river, creds, client>>
    BY <1>4 DEF Crash
  <2>3. AttemptsLeft'
    BY <1>4, <2>2 DEF Crash, AttemptsLeft, TypeOK, IdleWork
  <2> QED BY <2>1, <2>2, <2>3 DEF TypeOK
<1> QED BY <1>1, <1>2, <1>3, <1>4 DEF Queue

LEMMA InductiveRunTInv == RunTInv /\ [Next]_vars => RunTInv'
<1> SUFFICES ASSUME RunTInv, [Next]_vars PROVE RunTInv'
  OBVIOUS
<1>1. CASE ExpireRun \/ ExpireCredentials
  <2>1. run' \in RunRecord /\ creds' \subseteq creds
    BY <1>1 DEF ExpireRun, ExpireCredentials, RunTInv, TypeOK, RunRecord
  <2>2. cache' \in BOOLEAN
    BY <1>1, Zenon DEF ExpireRun, ExpireCredentials, RunTInv, TypeOK
  <2>3. UNCHANGED <<event, river, client, work, crashes>>
    BY <1>1 DEF ExpireRun, ExpireCredentials
  <2> QED BY <2>1, <2>2, <2>3 DEF RunTInv, TypeOK, AttemptsLeft
<1>2. CASE UNCHANGED vars
  BY <1>2 DEF vars, RunTInv, TypeOK, AttemptsLeft
<1> QED BY <1>1, <1>2, HandlerTInv, AttemptTInv, QueueTInv DEF Next, JobNext

\* Every reachable state is well typed.
THEOREM RunTypeSafety == Spec => []TypeOK
<1>1. RunTInv => TypeOK
  BY DEF RunTInv
<1> QED BY <1>1, InitRunTInv, InductiveRunTInv, PTL DEF Spec

-----------------------------------------------------------------------------
(* Announcements *)

\* Complete and Fail store the event with the state; everything else leaves a terminal
\* state and its event alone.
LEMMA AnnouncementStep ==
    ASSUME TypeOK, TerminalIsAnnounced, [Next]_vars
    PROVE  TerminalIsAnnounced'
<1>1. CASE UNCHANGED <<run, event>>
  BY <1>1 DEF TerminalIsAnnounced
<1>2. ASSUME NEW c \in Clients, Ensure(c) \/ AttachJob(c) \/ CompleteKnown(c)
      PROVE  TerminalIsAnnounced'
  <2>1. CASE Ensure(c)
    BY <2>1 DEF Ensure, TerminalIsAnnounced, Terminal
  <2>2. CASE AttachJob(c)
    BY <2>2 DEF AttachJob, TerminalIsAnnounced, TypeOK, RunRecord
  <2>3. CASE CompleteKnown(c)
    BY <2>3 DEF CompleteKnown, CompleteRun, TerminalIsAnnounced, TypeOK, RunRecord
  <2> QED BY <1>2, <2>1, <2>2, <2>3
<1>3. ASSUME NEW j \in JobIds, StartRun(j) \/ CompleteJob(j) \/ FailRun(j) \/ CleanJob(j)
      PROVE  TerminalIsAnnounced'
  BY <1>3 DEF StartRun, CompleteJob, FailRun, CleanJob, CompleteRun, TerminalIsAnnounced, TypeOK, RunRecord, Terminal
<1>4. CASE ExpireRun
  BY <1>4 DEF ExpireRun, TerminalIsAnnounced, TypeOK, RunRecord
<1>5. ASSUME NEW c \in Clients,
             \/ Post(c) \/ ReadCache(c) \/ GetExisting(c) \/ StoreCredentials(c) \/ InsertJob(c) \/ Promote(c)
             \/ Accept(c) \/ SeeTerminal(c) \/ Resubmit(c) \/ Leave(c) \/ PostError(c) \/ ResolveKnown(c)
      PROVE  UNCHANGED <<run, event>>
  BY <1>5 DEF Post, ReadCache, GetExisting, StoreCredentials, InsertJob, Promote, Accept, SeeTerminal, Resubmit,
              Leave, PostError, ResolveKnown
<1>6. ASSUME NEW j \in JobIds,
             \/ LoadCredentials(j) \/ GetRun(j) \/ Search(j) \/ CacheResult(j) \/ DeleteCredentials(j) \/ FinishJob(j)
             \/ FetchJob(j) \/ RetryDue(j) \/ Rescue(j) \/ WorkError(j) \/ Crash(j)
      PROVE  UNCHANGED <<run, event>>
  BY <1>6 DEF LoadCredentials, GetRun, Search, CacheResult, DeleteCredentials, FinishJob, FetchJob, RetryDue,
              Rescue, WorkError, Crash
<1>7. CASE ExpireCredentials \/ UNCHANGED vars
  BY <1>1, <1>7 DEF ExpireCredentials, vars
<1> QED BY <1>1, <1>2, <1>3, <1>4, <1>5, <1>6, <1>7 DEF Next, JobNext, Handler, Known, Attempt, Queue

\* A terminal run has been announced by a workflow event of the same state, however
\* many attempts, handlers, crashes and failing statements there were.
THEOREM TerminalSafety == Spec => []TerminalIsAnnounced
<1>1. Init => TerminalIsAnnounced
  BY DEF Init, TerminalIsAnnounced, Terminal
<1>2. TypeOK /\ TerminalIsAnnounced /\ [Next]_vars => TerminalIsAnnounced'
  BY AnnouncementStep
<1> QED BY <1>1, <1>2, RunTypeSafety, PTL DEF Spec

-----------------------------------------------------------------------------
(* Results *)

LEMMA InitJInv == Init => JInv
<1> SUFFICES ASSUME Init PROVE JInv
  OBVIOUS
<1>1. RunTInv
  BY InitRunTInv
<1>2. ~cache
  BY Zenon DEF Init
<1> QED BY <1>1, <1>2 DEF Init, JInv, OneActiveJob, WorksOnOpenRun, CacheIsFresh, NoJob, IdleWork, Active, Waiting

\* Only one worker is past GetRun, because only one row is active.
LEMMA OneBusyWorker ==
    ASSUME JInv, NEW i \in JobIds, NEW j \in JobIds, work[i].pc # "idle", work[j].pc # "idle"
    PROVE  i = j
BY DEF JInv, RunTInv, AttemptsLeft, OneActiveJob, Active

\* The steps that leave the rows of River alone keep one of them active.
LEMMA RowsKept == ASSUME OneActiveJob, river' = river PROVE OneActiveJob'
BY DEF OneActiveJob

\* A row that is no more active than before.
LEMMA NotMoreActive ==
    ASSUME OneActiveJob, \A j \in JobIds : river'[j].state \in Active => river[j].state \in Active
    PROVE  OneActiveJob'
BY DEF OneActiveJob

LEMMA HandlerJInv ==
    ASSUME JInv, NEW c \in Clients,
           Post(c) \/ Handler(c) \/ SeeTerminal(c) \/ Resubmit(c) \/ Leave(c) \/ PostError(c)
    PROVE  OneActiveJob' /\ WorksOnOpenRun' /\ CacheIsFresh' /\ (Fresh => Fresh')
<1> USE DEF JInv
<1>1. CASE UNCHANGED <<run, cache, river, work>>
  BY <1>1, RowsKept DEF WorksOnOpenRun, CacheIsFresh, Fresh
<1>2. CASE Ensure(c)
  <2>1. run' = run \/ (~Fresh /\ run'.state = "queued")
    BY <1>2 DEF Ensure, Restartable, Fresh
  <2>2. UNCHANGED <<cache, river, work>>
    BY <1>2 DEF Ensure
  <2>3. ~Fresh => ~Fresh'
    BY <2>1 DEF Fresh
  <2>4. Fresh => Fresh'
    BY <2>1 DEF Fresh
  <2> QED BY <2>2, <2>3, <2>4, RowsKept DEF WorksOnOpenRun, CacheIsFresh
<1>3. CASE GetExisting(c)
  <2>1. UNCHANGED <<run, river, work>> /\ (cache' => cache \/ Fresh)
    BY <1>3 DEF GetExisting, Fresh
  <2> QED BY <2>1, RowsKept DEF WorksOnOpenRun, CacheIsFresh, Fresh
<1>4. CASE AttachJob(c)
  <2>1. UNCHANGED <<cache, river, work>>
    BY <1>4 DEF AttachJob
  <2>2. run'.state = run.state /\ run'.expired = run.expired
    BY <1>4 DEF AttachJob, RunTInv, TypeOK, RunRecord
  <2> QED BY <2>1, <2>2, RowsKept DEF WorksOnOpenRun, CacheIsFresh, Fresh
<1>5. CASE InsertJob(c) \/ Promote(c)
  <2>1. UNCHANGED <<run, cache, work>>
    BY <1>5 DEF InsertJob, Promote
  <2>2. CASE InsertJob(c)
    <3>1. PICK j \in JobIds :
            \/ river' = river
            \/ /\ \A i \in JobIds : river[i].state \notin Active
               /\ \A i \in JobIds \ {j} : river'[i] = river[i]
      BY <2>2 DEF InsertJob, RunTInv, TypeOK
    <3> QED BY <2>1, <3>1 DEF OneActiveJob, WorksOnOpenRun, CacheIsFresh, Fresh
  <2>3. CASE Promote(c)
    <3>1. \A j \in JobIds : river'[j].state = river[j].state
      BY <2>3 DEF Promote, RunTInv, TypeOK, RiverRecord
    <3> QED BY <2>1, <3>1, NotMoreActive DEF WorksOnOpenRun, CacheIsFresh, Fresh
  <2> QED BY <1>5, <2>2, <2>3
<1>6. CASE \/ Post(c) \/ ReadCache(c) \/ StoreCredentials(c) \/ Accept(c) \/ SeeTerminal(c) \/ Resubmit(c)
           \/ Leave(c) \/ PostError(c)
  BY <1>1, <1>6 DEF Post, ReadCache, StoreCredentials, Accept, SeeTerminal, Resubmit, Leave, PostError
<1> QED BY <1>2, <1>3, <1>4, <1>5, <1>6 DEF Handler

LEMMA AttemptJInv ==
    ASSUME JInv, NEW j \in JobIds, Attempt(j) \/ WorkError(j) \/ Crash(j)
    PROVE  OneActiveJob' /\ WorksOnOpenRun' /\ CacheIsFresh' /\ (Fresh => Fresh')
<1> USE DEF JInv
<1> DEFINE Open == {"start", "work", "complete", "fail"}
<1>1. work[j].pc # "idle"
  BY DEF Attempt, LoadCredentials, GetRun, StartRun, Search, CompleteJob, CacheResult, DeleteCredentials, FailRun,
         FinishJob, WorkError, Crash
<1>2. \A i \in JobIds \ {j} : work[i].pc = "idle" /\ work'[i] = work[i]
  <2>1. \A i \in JobIds \ {j} : work[i].pc = "idle"
    BY <1>1, OneBusyWorker
  <2>2. \A i \in JobIds \ {j} : work'[i] = work[i]
    BY DEF Attempt, LoadCredentials, GetRun, StartRun, Search, CompleteJob, CacheResult, DeleteCredentials, FailRun,
           FinishJob, WorkError, Crash, Step, Finish, RunTInv, TypeOK
  <2> QED BY <2>1, <2>2
<1>3. CASE /\ UNCHANGED <<run, river>> /\ (cache' => cache \/ Fresh)
           /\ work'[j].pc \in Open => work[j].pc \in Open \/ run.state # "completed"
  <2>1. Fresh' <=> Fresh
    BY <1>3 DEF Fresh
  <2>2. WorksOnOpenRun'
    BY <1>2, <1>3, <2>1 DEF WorksOnOpenRun, Fresh
  <2> QED BY <1>3, <2>1, <2>2, RowsKept DEF CacheIsFresh
<1>4. CASE LoadCredentials(j) \/ GetRun(j) \/ Search(j) \/ WorkError(j) \/ Crash(j)
  <2>1. UNCHANGED <<run, river, cache>>
    BY <1>4 DEF LoadCredentials, GetRun, Search, WorkError, Crash
  <2>2. work'[j].pc \in Open => work[j].pc \in Open \/ run.state # "completed"
    BY <1>4 DEF LoadCredentials, GetRun, Search, WorkError, Crash, Step, Finish, IdleWork, RunTInv, TypeOK, WorkRecord
  <2> QED BY <1>3, <2>1, <2>2
<1>5. CASE CacheResult(j) \/ DeleteCredentials(j)
  <2>1. UNCHANGED <<run, river>>
    BY <1>5 DEF CacheResult, DeleteCredentials
  <2>2. cache' => cache \/ Fresh
    BY <1>5, Zenon DEF CacheResult, DeleteCredentials, Fresh
  <2>3. work'[j].pc \notin Open
    BY <1>5 DEF CacheResult, DeleteCredentials, Step, Finish, RunTInv, TypeOK, WorkRecord
  <2> QED BY <1>3, <2>1, <2>2, <2>3
<1>6. CASE StartRun(j) \/ FailRun(j)
  <2>1. ~Fresh /\ ~cache
    BY <1>6 DEF StartRun, FailRun, WorksOnOpenRun, CacheIsFresh
  <2>2. ~Fresh' /\ UNCHANGED <<cache, river>>
    BY <1>6 DEF StartRun, FailRun, Fresh, RunTInv, TypeOK, RunRecord
  <2> QED BY <2>1, <2>2, RowsKept DEF WorksOnOpenRun, CacheIsFresh
<1>7. CASE CompleteJob(j)
  <2>1. Fresh' /\ UNCHANGED <<cache, river>>
    BY <1>7 DEF CompleteJob, CompleteRun, Fresh, RunTInv, TypeOK, RunRecord
  <2>2. work'[j].pc = "cache"
    BY <1>7 DEF CompleteJob, Step, RunTInv, TypeOK, WorkRecord
  <2> QED BY <1>2, <2>1, <2>2, RowsKept DEF WorksOnOpenRun, CacheIsFresh
<1>8. CASE FinishJob(j)
  <2>1. UNCHANGED <<run, cache>> /\ work'[j].pc = "idle"
    BY <1>8 DEF FinishJob, IdleWork, RunTInv, TypeOK
  <2>2. river[j].state \in Active /\ \A i \in JobIds \ {j} : river'[i] = river[i]
    BY <1>1, <1>8 DEF FinishJob, RunTInv, TypeOK, AttemptsLeft, Active
  <2>3. OneActiveJob'
    BY <2>2, NotMoreActive
  <2> QED BY <1>2, <2>1, <2>3 DEF WorksOnOpenRun, CacheIsFresh, Fresh
<1> QED BY <1>4, <1>5, <1>6, <1>7, <1>8 DEF Attempt

LEMMA QueueJInv ==
    ASSUME JInv, NEW j \in JobIds, Queue(j)
    PROVE  OneActiveJob' /\ WorksOnOpenRun' /\ CacheIsFresh' /\ (Fresh => Fresh')
<1> USE DEF JInv
<1>1. \A i \in JobIds \ {j} : river'[i] = river[i]
  BY DEF Queue, FetchJob, RetryDue, Rescue, CleanJob, RunTInv, TypeOK
<1>2. river'[j].state \in Active => river[j].state \in Active
  BY DEF Queue, FetchJob, RetryDue, Rescue, CleanJob, RunTInv, TypeOK, RiverRecord, NoJob, Active, Waiting
<1>3. OneActiveJob'
  BY <1>1, <1>2, NotMoreActive
<1>4. run'.state = run.state /\ run'.expired = run.expired /\ cache' = cache
  BY DEF Queue, FetchJob, RetryDue, Rescue, CleanJob, RunTInv, TypeOK, RunRecord
<1>5. \A i \in JobIds : work'[i].pc \in {"start", "work", "complete", "fail"} => work'[i] = work[i]
  BY DEF Queue, FetchJob, RetryDue, Rescue, CleanJob, RunTInv, TypeOK
<1> QED BY <1>3, <1>4, <1>5 DEF WorksOnOpenRun, CacheIsFresh, Fresh

LEMMA ExpireJInv ==
    ASSUME JInv, ExpireRun \/ ExpireCredentials
    PROVE  OneActiveJob' /\ WorksOnOpenRun' /\ CacheIsFresh' /\ (Fresh => run'.state = "completed")
<1>1. UNCHANGED <<river, work>> /\ (Fresh' => Fresh) /\ (cache' => cache) /\ (cache' => UNCHANGED run)
  BY DEF ExpireRun, ExpireCredentials, Fresh, JInv, RunTInv, TypeOK, RunRecord
<1>2. run'.state = run.state
  BY DEF ExpireRun, ExpireCredentials, JInv, RunTInv, TypeOK, RunRecord
<1> QED BY <1>1, <1>2, RowsKept DEF JInv, WorksOnOpenRun, CacheIsFresh, Fresh

LEMMA InductiveJInv == JInv /\ [JobNext]_vars => JInv' /\ (Fresh => run'.state = "completed")
<1> SUFFICES ASSUME JInv, [JobNext]_vars PROVE JInv' /\ (Fresh => run'.state = "completed")
  OBVIOUS
<1>1. RunTInv'
  BY InductiveRunTInv DEF JInv, Next
<1>2. CASE UNCHANGED vars
  BY <1>1, <1>2, RowsKept DEF vars, JInv, WorksOnOpenRun, CacheIsFresh, Fresh
<1>3. Fresh' => run'.state = "completed"
  BY DEF Fresh
<1> QED BY <1>1, <1>2, <1>3, HandlerJInv, AttemptJInv, QueueJInv, ExpireJInv DEF JobNext, JInv

LEMMA JInvHolds == JobSpec => []JInv
<1>1. JInv /\ [JobNext]_vars => JInv'
  BY InductiveJInv
<1> QED BY <1>1, InitJInv, PTL DEF JobSpec

\* Redis never answers with a result that the row no longer has, however many callers,
\* jobs, crashes and expiries meet, as long as jobs settle the request.
THEOREM CacheSafety == JobSpec => []CacheIsTrue
<1>1. JInv => CacheIsTrue
  BY DEF JInv, CacheIsFresh, Fresh, CacheIsTrue
<1> QED BY <1>1, JInvHolds, PTL

\* A run that a job completed stays completed until it expires: no retry, rescue or
\* second submission takes it back.
THEOREM CompletedSafety == JobSpec => CompletedStays
<1>1. JInv /\ [JobNext]_vars => [run.state = "completed" /\ ~run.expired => run'.state = "completed"]_vars
  BY InductiveJInv DEF Fresh
<1> QED BY <1>1, JInvHolds, PTL DEF JobSpec, CompletedStays

-----------------------------------------------------------------------------
(* The request gate *)

GateInv ==
    /\ GateTypeOK
    /\ sinceSent + nextIn >= spacing
    /\ deferredIn <= nextIn

LEMMA HorizonIsLongest ==
    /\ Horizon \in Nat
    /\ \A x \in Intervals \cup Cooldowns : x <= Horizon
<1> USE GateAssumption
<1> DEFINE S == Intervals \cup Cooldowns
<1>1. PICK x \in S : \A y \in S : x >= y
  OBVIOUS
<1>2. Horizon \in S /\ \A y \in S : Horizon >= y
  <2> HIDE DEF S
  <2>1. (CHOOSE z \in S : \A y \in S : z >= y) \in S /\ \A y \in S : (CHOOSE z \in S : \A w \in S : z >= w) >= y
    BY <1>1
  <2> QED BY <2>1 DEF Horizon, Latest, S
<1> QED BY <1>2

\* The later of two instants.
LEMMA LatestOfTwo ==
    ASSUME NEW a \in Nat, NEW b \in Nat
    PROVE  Latest({a, b}) = IF a >= b THEN a ELSE b
<1>1. \A x \in {a, b} : (\A y \in {a, b} : x >= y) <=> x = (IF a >= b THEN a ELSE b)
  OBVIOUS
<1>2. (IF a >= b THEN a ELSE b) \in {a, b}
  OBVIOUS
<1> QED BY <1>1, <1>2 DEF Latest

LEMMA InitGateInv == GateInit => GateInv
BY GateAssumption, HorizonIsLongest DEF GateInit, GateInv, GateTypeOK

-----------------------------------------------------------------------------
(* Steps *)

\* What a step of a caller does to its own state keeps its type.
LEMMA BecomesTyped ==
    ASSUME GateTypeOK, NEW c \in Callers, NEW pc \in {"idle", "wait", "timer", "sent"}, NEW t \in 0..Horizon,
           Becomes(c, pc, t)
    PROVE  caller' \in [Callers -> [pc : {"idle", "wait", "timer", "sent"}, timer : 0..Horizon]]
BY DEF GateTypeOK, Becomes

LEMMA SendStep == ASSUME GateInv, NEW c \in Callers, nextIn = 0, Send(c) PROVE GateInv'
<1> USE GateAssumption, HorizonIsLongest
<1>1. interval \in Nat /\ interval <= Horizon
  BY DEF GateInv, GateTypeOK
<1>2. caller' \in [Callers -> [pc : {"idle", "wait", "timer", "sent"}, timer : 0..Horizon]]
  BY BecomesTyped DEF GateInv, Send
<1>3. nextIn' = interval /\ sinceSent' = 0 /\ spacing' = interval /\ UNCHANGED <<interval, deferredIn>>
  BY DEF Send
<1> QED BY <1>1, <1>2, <1>3 DEF GateInv, GateTypeOK

LEMMA CallerStep ==
    ASSUME GateInv, NEW c \in Callers, Prepare(c) \/ Wait(c) \/ Wake(c) \/ Cancelled(c)
    PROVE  GateInv'
<1> USE GateAssumption, HorizonIsLongest
<1>1. CASE nextIn = 0 /\ Send(c)
  BY <1>1, SendStep
<1>2. CASE \E pc \in {"idle", "wait", "timer"}, t \in 0..Horizon :
              Becomes(c, pc, t) /\ UNCHANGED <<interval, nextIn, deferredIn, sinceSent, spacing>>
  BY <1>2, BecomesTyped DEF GateInv, GateTypeOK
<1> QED BY <1>1, <1>2 DEF Prepare, Wait, Wake, Cancelled, GateInv, GateTypeOK

LEMMA DeferredStep ==
    ASSUME GateInv, NEW c \in Callers, NEW delay \in Cooldowns, Deferred(c, delay)
    PROVE  GateInv'
<1> USE GateAssumption, HorizonIsLongest
<1>1. delay \in Nat /\ delay <= Horizon /\ nextIn \in Nat /\ deferredIn \in Nat
  BY DEF GateInv, GateTypeOK
<1>2. /\ nextIn' = IF nextIn >= delay THEN nextIn ELSE delay
      /\ deferredIn' = IF deferredIn >= delay THEN deferredIn ELSE delay
  BY <1>1, LatestOfTwo DEF Deferred
<1>3. caller' \in [Callers -> [pc : {"idle", "wait", "timer", "sent"}, timer : 0..Horizon]]
  BY BecomesTyped DEF GateInv, Deferred
<1> QED BY <1>1, <1>2, <1>3 DEF GateInv, GateTypeOK, Deferred

LEMMA TickStep == ASSUME GateInv, Tick PROVE GateInv'
<1> USE GateAssumption, HorizonIsLongest
<1>1. \A x \in 0..Horizon : Later(x) \in 0..Horizon
  BY DEF Later
<1>2. caller' \in [Callers -> [pc : {"idle", "wait", "timer", "sent"}, timer : 0..Horizon]]
  BY <1>1 DEF Tick, GateInv, GateTypeOK
<1>3. spacing \in Nat /\ spacing <= Horizon
  BY DEF GateInv, GateTypeOK
<1>4. GateTypeOK'
  BY <1>1, <1>2 DEF Tick, GateInv, GateTypeOK
<1>5. sinceSent' + nextIn' >= spacing' /\ deferredIn' <= nextIn'
  BY <1>3 DEF Tick, GateInv, GateTypeOK, Later
<1> QED BY <1>4, <1>5 DEF GateInv

LEMMA InductiveGateInv == GateInv /\ [GateNext]_gateVars => GateInv'
<1> SUFFICES ASSUME GateInv, [GateNext]_gateVars PROVE GateInv'
  OBVIOUS
<1>1. CASE ShareGate
  BY <1>1 DEF ShareGate, GateInv, GateTypeOK
<1>2. CASE Tick
  BY <1>2, TickStep
<1>3. CASE \E c \in Callers : Prepare(c) \/ Wait(c) \/ Wake(c) \/ Cancelled(c)
  BY <1>3, CallerStep
<1>4. CASE \E c \in Callers, delay \in Cooldowns : Deferred(c, delay)
  BY <1>4, DeferredStep
<1>5. CASE UNCHANGED gateVars
  BY <1>5 DEF gateVars, GateInv, GateTypeOK
<1> QED BY <1>1, <1>2, <1>3, <1>4, <1>5 DEF GateNext

\* Only Wait lets a request out, and only when nextIn is 0.
LEMMA StepIsSpaced ==
    ASSUME GateInv, [GateNext]_gateVars, NEW c \in Callers, caller[c].pc # "sent", caller'[c].pc = "sent"
    PROVE  sinceSent >= spacing /\ deferredIn = 0
<1> USE GateAssumption, HorizonIsLongest
<1>1. PICK d \in Callers : nextIn = 0 /\ Send(d)
  <2>1. CASE ShareGate \/ UNCHANGED gateVars
    BY <2>1 DEF ShareGate, gateVars
  <2>2. CASE Tick
    BY <2>2 DEF Tick, GateInv, GateTypeOK
  <2>3. ASSUME NEW d \in Callers, NEW pc \in {"idle", "wait", "timer"}, NEW t, Becomes(d, pc, t)
        PROVE  FALSE
    <3>1. CASE c = d
      BY <2>3, <3>1 DEF Becomes, GateInv, GateTypeOK
    <3>2. CASE c # d
      BY <2>3, <3>2 DEF Becomes, GateInv, GateTypeOK
    <3> QED BY <3>1, <3>2
  <2>4. ASSUME NEW d \in Callers, \/ Prepare(d) \/ Wake(d) \/ Cancelled(d)
                                  \/ \E delay \in Cooldowns : Deferred(d, delay)
        PROVE FALSE
    BY <2>4, <2>3 DEF Prepare, Wake, Cancelled, Deferred
  <2>5. ASSUME NEW d \in Callers, Wait(d) PROVE nextIn = 0 /\ Send(d)
    BY <2>5, <2>3 DEF Wait
  <2> QED BY <2>1, <2>2, <2>4, <2>5 DEF GateNext
<1>2. sinceSent \in Nat /\ spacing \in Nat /\ deferredIn \in Nat
  BY DEF GateInv, GateTypeOK
<1> QED BY <1>1, <1>2 DEF GateInv

-----------------------------------------------------------------------------
\* No request goes out too early or during a cooldown, however many jobs wait at the gate,
\* whichever intervals its clients bring and whatever delays answers ask for.
THEOREM SpacingSafety == GateSpec => SpacedRequests
<1>1. GateInv /\ [GateNext]_gateVars
        => [\A c \in Callers : caller[c].pc # "sent" /\ caller'[c].pc = "sent"
                               => sinceSent >= spacing /\ deferredIn = 0]_gateVars
  BY StepIsSpaced
<1> QED BY InitGateInv, InductiveGateInv, <1>1, PTL DEF GateSpec, SpacedRequests

-----------------------------------------------------------------------------
(* Sums over a finite set, as the library folds them *)

SumStep(sum, fun, s) == IF s = {} THEN 0 ELSE LET x == CHOOSE x \in s : TRUE IN fun[x] + sum[s \ {x}]
Sums(sum, fun, sets) == sum = [s \in sets |-> SumStep(sum, fun, s)]
Takes(sum, fun, s, x) == sum[s] = fun[x] + sum[s \ {x}]
SumOver(S, fun) == CHOOSE sum : Sums(sum, fun, SUBSET S)

\* Among some subsets of a finite set one has no smaller one by a single element.
LEMMA SmallestSet ==
    ASSUME NEW S, IsFiniteSet(S), NEW Bad, Bad \subseteq SUBSET S, Bad # {}
    PROVE  \E s \in Bad : \A x \in s : s \ {x} \notin Bad
<1> DEFINE sizes == {Cardinality(s) : s \in Bad}
<1>1. sizes \subseteq Nat /\ sizes # {}
  <2>1. \A s \in Bad : Cardinality(s) \in Nat
    BY FS_Subset, FS_CardinalityType
  <2> QED BY <2>1
<1>2. PICK n \in sizes : \A m \in sizes : n <= m
  <2> HIDE DEF sizes
  <2> QED BY <1>1, SmallestExists
<1>3. PICK s \in Bad : n = Cardinality(s)
  BY <1>2
<1>4. ASSUME NEW x \in s, s \ {x} \in Bad PROVE FALSE
  <2>1. IsFiniteSet(s)
    BY <1>3, FS_Subset
  <2>2. Cardinality(s \ {x}) = Cardinality(s) - 1 /\ Cardinality(s) \in Nat
    BY <1>4, <2>1, FS_RemoveElement, FS_CardinalityType
  <2>3. n <= Cardinality(s \ {x})
    BY <1>2, <1>4
  <2> QED BY <1>3, <2>2, <2>3
<1> QED BY <1>3, <1>4

LEMMA SumUpTo ==
    ASSUME NEW S, IsFiniteSet(S), NEW fun, NEW size \in Nat
    PROVE  \E sum : Sums(sum, fun, {s \in SUBSET S : Cardinality(s) <= size})
<1> DEFINE Small(n) == {s \in SUBSET S : Cardinality(s) <= n}
<1> DEFINE Bad == {n \in Nat : ~\E sum : Sums(sum, fun, Small(n))}
<1>1. SUFFICES ASSUME Bad # {} PROVE FALSE
  OBVIOUS
<1>2. PICK n \in Bad : \A m \in Bad : n <= m
  <2>1. Bad \subseteq Nat
    OBVIOUS
  <2> HIDE DEF Bad
  <2> QED BY <1>1, <2>1, SmallestExists
<1>3. ASSUME NEW s \in SUBSET S PROVE IsFiniteSet(s) /\ Cardinality(s) \in Nat /\ (s # {} => Cardinality(s) # 0)
  BY FS_Subset, FS_CardinalityType, FS_EmptySet
<1>4. CASE n = 0
  <2> DEFINE start == [s \in Small(0) |-> 0]
  <2>1. ASSUME NEW s \in Small(0) PROVE SumStep(start, fun, s) = 0
    <3>1. s = {}
      BY <1>3
    <3> QED BY <3>1 DEF SumStep
  <2>2. Sums(start, fun, Small(0))
    <3> HIDE DEF Small
    <3> QED BY <2>1, Zenon DEF Sums
  <2> QED BY <1>2, <1>4, <2>2
<1>5. CASE n # 0
  <2>1. n - 1 \in Nat /\ n - 1 \notin Bad
    <3> HIDE DEF Small
    <3> QED BY <1>2, <1>5
  <2>2. PICK a : Sums(a, fun, Small(n - 1))
    BY <2>1
  <2> DEFINE b == [s \in Small(n) |-> SumStep(a, fun, s)]
  <2>3. ASSUME NEW s \in Small(n) PROVE SumStep(b, fun, s) = SumStep(a, fun, s)
    <3>1. CASE s = {}
      BY <3>1 DEF SumStep
    <3>2. CASE s # {}
      <4> DEFINE x == CHOOSE x \in s : TRUE
      <4>1. x \in s
        BY <3>2
      <4>2. Cardinality(s \ {x}) = Cardinality(s) - 1
        BY <1>3, <4>1, FS_RemoveElement
      <4>3. s \ {x} \in Small(n - 1) /\ s \ {x} \in Small(n)
        BY <1>2, <1>3, <4>2
      <4>4. a[s \ {x}] = SumStep(a, fun, s \ {x})
        <5> HIDE DEF Small, x
        <5> QED BY <2>2, <4>3 DEF Sums
      <4>5. b[s \ {x}] = SumStep(a, fun, s \ {x})
        <5> HIDE DEF Small, x
        <5> QED BY <4>3
      <4> HIDE DEF Small, b
      <4> QED BY <4>4, <4>5 DEF SumStep
    <3> QED BY <3>1, <3>2
  <2>4. Sums(b, fun, Small(n))
    <3> HIDE DEF Small
    <3> QED BY <2>3, Zenon DEF Sums
  <2> QED BY <1>2, <2>4
<1> QED BY <1>4, <1>5

LEMMA SumOverIs ==
    ASSUME NEW S, IsFiniteSet(S), NEW fun
    PROVE  Sums(SumOver(S, fun), fun, SUBSET S)
<1>1. {s \in SUBSET S : Cardinality(s) <= Cardinality(S)} = SUBSET S
  <2>1. ASSUME NEW s \in SUBSET S PROVE Cardinality(s) <= Cardinality(S)
    BY FS_Subset
  <2> QED BY <2>1
<1>2. Cardinality(S) \in Nat
  BY FS_CardinalityType
<1>3. \E sum : Sums(sum, fun, {s \in SUBSET S : Cardinality(s) <= Cardinality(S)})
  BY <1>2, SumUpTo
<1> QED BY <1>1, <1>3, Zenon DEF SumOver

LEMMA SumOfNone == ASSUME NEW S, NEW sum, NEW fun, Sums(sum, fun, SUBSET S) PROVE sum[{}] = 0
<1>1. {} \in SUBSET S
  OBVIOUS
<1>2. sum[{}] = SumStep(sum, fun, {})
  BY <1>1 DEF Sums
<1> QED BY <1>2 DEF SumStep

LEMMA SumOfSome ==
    ASSUME NEW S, NEW sum, NEW fun, Sums(sum, fun, SUBSET S), NEW s \in SUBSET S, s # {}
    PROVE  \E x \in s : Takes(sum, fun, s, x)
<1>1. sum[s] = SumStep(sum, fun, s)
  BY DEF Sums
<1> QED BY <1>1 DEF SumStep, Takes

LEMMA SumIsNat ==
    ASSUME NEW S, IsFiniteSet(S), NEW fun \in [S -> Nat], NEW sum, Sums(sum, fun, SUBSET S), NEW s \in SUBSET S
    PROVE  sum[s] \in Nat
<1> DEFINE Bad == {t \in SUBSET S : sum[t] \notin Nat}
<1>1. SUFFICES ASSUME Bad # {} PROVE FALSE
  OBVIOUS
<1>2. PICK t \in Bad : \A x \in t : t \ {x} \notin Bad
  <2>1. Bad \subseteq SUBSET S
    OBVIOUS
  <2> HIDE DEF Bad
  <2> QED BY <1>1, <2>1, SmallestSet, Zenon
<1>3. t # {} /\ t \in SUBSET S
  <2>1. sum[{}] = 0
    BY SumOfNone, Zenon
  <2> QED BY <1>2, <2>1
<1>4. PICK x \in t : Takes(sum, fun, t, x)
  BY <1>3, SumOfSome
<1>5. sum[t \ {x}] \in Nat /\ fun[x] \in Nat
  BY <1>2, <1>3
<1> QED BY <1>2, <1>4, <1>5 DEF Takes

\* Any element can be taken first.
LEMMA SumWithout ==
    ASSUME NEW S, IsFiniteSet(S), NEW fun \in [S -> Nat], NEW sum, Sums(sum, fun, SUBSET S),
           NEW s \in SUBSET S, NEW x \in s
    PROVE  Takes(sum, fun, s, x)
<1> DEFINE Bad == {t \in SUBSET S : \E y \in t : ~Takes(sum, fun, t, y)}
<1>1. SUFFICES ASSUME Bad # {} PROVE FALSE
  OBVIOUS
<1>2. PICK t \in Bad : \A z \in t : t \ {z} \notin Bad
  <2>1. Bad \subseteq SUBSET S
    OBVIOUS
  <2> HIDE DEF Bad
  <2> QED BY <1>1, <2>1, SmallestSet, Zenon
<1>3. t \in SUBSET S
  BY <1>2
<1>4. PICK y \in t : ~Takes(sum, fun, t, y)
  BY <1>2
<1>5. PICK z \in t : Takes(sum, fun, t, z)
  <2>1. t # {}
    BY <1>4
  <2> QED BY <1>3, <2>1, SumOfSome
<1>6. y # z
  BY <1>4, <1>5
<1>7. Takes(sum, fun, t \ {z}, y)
  <2>1. t \ {z} \in SUBSET S /\ y \in t \ {z} /\ t \ {z} \notin Bad
    BY <1>2, <1>3, <1>6
  <2> QED BY <2>1
<1>8. Takes(sum, fun, t \ {y}, z)
  <2>1. PICK u : u = t \ {y}
    OBVIOUS
  <2>2. u \in SUBSET S /\ z \in u
    BY <1>3, <1>6, <2>1
  <2>3. u \notin Bad
    BY <1>2, <1>4, <2>1
  <2> QED BY <2>1, <2>2, <2>3
<1>9. (t \ {z}) \ {y} = (t \ {y}) \ {z} /\ sum[(t \ {y}) \ {z}] \in Nat /\ fun[y] \in Nat /\ fun[z] \in Nat
  <2>1. (t \ {y}) \ {z} \in SUBSET S
    BY <1>3
  <2>2. sum[(t \ {y}) \ {z}] \in Nat
    BY <2>1, SumIsNat
  <2> QED BY <1>3, <2>2
<1>10. PICK rest : rest = sum[(t \ {y}) \ {z}]
  OBVIOUS
<1>11. rest \in Nat /\ sum[t \ {z}] = fun[y] + rest /\ sum[t \ {y}] = fun[z] + rest
  BY <1>7, <1>8, <1>9, <1>10, Zenon DEF Takes
<1>12. fun[z] + (fun[y] + rest) = fun[y] + (fun[z] + rest)
  BY <1>9, <1>11
<1> QED BY <1>4, <1>5, <1>11, <1>12, Zenon DEF Takes

LEMMA SumsAgree ==
    ASSUME NEW S, IsFiniteSet(S), NEW fun \in [S -> Nat], NEW sum, Sums(sum, fun, SUBSET S),
           NEW fun2 \in [S -> Nat], NEW sum2, Sums(sum2, fun2, SUBSET S),
           NEW s \in SUBSET S, \A x \in s : fun[x] = fun2[x]
    PROVE  sum[s] = sum2[s]
<1> DEFINE Bad == {t \in SUBSET s : sum[t] # sum2[t]}
<1>1. SUFFICES ASSUME Bad # {} PROVE FALSE
  OBVIOUS
<1>2. PICK t \in Bad : \A z \in t : t \ {z} \notin Bad
  <2>1. Bad \subseteq SUBSET S
    OBVIOUS
  <2> HIDE DEF Bad
  <2> QED BY <1>1, <2>1, SmallestSet, Zenon
<1>3. t \in SUBSET S /\ t \in SUBSET s
  BY <1>2
<1>4. t # {}
  <2>1. sum[{}] = 0 /\ sum2[{}] = 0
    BY SumOfNone, Zenon
  <2> QED BY <1>2, <2>1
<1>5. PICK x \in t : Takes(sum, fun, t, x)
  BY <1>3, <1>4, SumOfSome
<1>6. Takes(sum2, fun2, t, x)
  BY <1>3, SumWithout
<1>7. sum[t \ {x}] = sum2[t \ {x}] /\ fun[x] = fun2[x]
  BY <1>2, <1>3
<1> QED BY <1>2, <1>5, <1>6, <1>7 DEF Takes

\* When one value changes, the sum changes by as much.
LEMMA SumChange ==
    ASSUME NEW S, IsFiniteSet(S), NEW fun \in [S -> Nat], NEW fun2 \in [S -> Nat], NEW x \in S,
           \A y \in S \ {x} : fun[y] = fun2[y]
    PROVE  /\ SumOver(S, fun)[S] \in Nat /\ SumOver(S, fun2)[S] \in Nat
           /\ SumOver(S, fun)[S] >= fun[x]
           /\ SumOver(S, fun2)[S] = SumOver(S, fun)[S] - fun[x] + fun2[x]
<1>1. PICK sum, sum2 : sum = SumOver(S, fun) /\ sum2 = SumOver(S, fun2)
  OBVIOUS
<1>2. Sums(sum, fun, SUBSET S) /\ Sums(sum2, fun2, SUBSET S)
  BY <1>1, SumOverIs
<1>3. S \in SUBSET S /\ S \ {x} \in SUBSET S
  OBVIOUS
<1>4. sum[S] = fun[x] + sum[S \ {x}] /\ sum2[S] = fun2[x] + sum2[S \ {x}]
  <2>1. Takes(sum, fun, S, x) /\ Takes(sum2, fun2, S, x)
    BY <1>2, <1>3, SumWithout
  <2> QED BY <2>1 DEF Takes
<1>5. sum[S \ {x}] = sum2[S \ {x}]
  BY <1>2, <1>3, SumsAgree
<1>6. sum[S \ {x}] \in Nat /\ sum2[S \ {x}] \in Nat
  BY <1>2, <1>3, SumIsNat
<1>7. fun[x] \in Nat /\ fun2[x] \in Nat
  OBVIOUS
<1>8. sum[S] \in Nat /\ sum2[S] \in Nat /\ sum[S] >= fun[x] /\ sum2[S] = sum[S] - fun[x] + fun2[x]
  BY <1>4, <1>5, <1>6, <1>7
<1> QED BY <1>1, <1>8

LEMMA SumOfZeros ==
    ASSUME NEW S, IsFiniteSet(S), NEW fun, \A x \in S : fun[x] = 0
    PROVE  SumOver(S, fun)[S] = 0
<1>1. PICK sum : sum = SumOver(S, fun)
  OBVIOUS
<1>2. Sums(sum, fun, SUBSET S)
  BY <1>1, SumOverIs
<1> DEFINE Bad == {t \in SUBSET S : sum[t] # 0}
<1>3. SUFFICES ASSUME Bad # {} PROVE FALSE
  BY <1>1
<1>4. PICK t \in Bad : \A z \in t : t \ {z} \notin Bad
  <2>1. Bad \subseteq SUBSET S
    OBVIOUS
  <2> HIDE DEF Bad
  <2> QED BY <1>3, <2>1, SmallestSet, Zenon
<1>5. t \in SUBSET S /\ t # {}
  <2>1. sum[{}] = 0
    BY <1>2, SumOfNone, Zenon
  <2> QED BY <1>4, <2>1
<1>6. PICK x \in t : Takes(sum, fun, t, x)
  BY <1>2, <1>5, SumOfSome
<1>7. sum[t \ {x}] = 0 /\ fun[x] = 0
  BY <1>4, <1>5
<1> QED BY <1>4, <1>6, <1>7 DEF Takes

-----------------------------------------------------------------------------
(* Read counters *)

CarriedBy(e) == [f \in Flushers |-> Carried(f, e)]

LEMMA InFlightIs == \A e : InFlight(e) = SumOver(Flushers, CarriedBy(e))[Flushers]
BY DEF InFlight, CarriedBy, MapThenSumSet, MapThenFoldSet, SumOver, Sums, SumStep

LEMMA InFlightBecomes == \A e : InFlight(e)' = SumOver(Flushers, CarriedBy(e)')[Flushers]
BY DEF InFlight, CarriedBy, MapThenSumSet, MapThenFoldSet, SumOver, Sums, SumStep

Claims == [pc : {"idle", "upsert", "restore"}, claimed : [Entities -> 0..MaxFetches + MaxRepeated],
           todo : SUBSET Entities, added : SUBSET Entities, discarded : SUBSET Entities]
CountersTyped ==
    /\ live \subseteq Entities /\ fetches \in [Entities -> 0..MaxFetches] /\ repeated \in [Entities -> 0..MaxRepeated]
    /\ pending \in [Entities -> Nat] /\ total \in [Entities -> Nat]
    /\ dropped \in [Entities -> Nat] /\ lost \in [Entities -> Nat]
    /\ flush \in [Flushers -> Claims]

\* A flush has nothing between its runs; while its transaction is open, each counter it claimed
\* is still to be written, written or discarded, and only one of these.
Accounted(r) ==
    /\ r.pc = "idle" => r = IdleFlush
    /\ r.todo \cap r.added = {} /\ r.todo \cap r.discarded = {} /\ r.added \cap r.discarded = {}
    /\ r.pc = "upsert" => \A e \in Entities : r.claimed[e] = 0 \/ e \in r.todo \cup r.added \cup r.discarded
ClaimsAreTracked == \A f \in Flushers : Accounted(flush[f])

AccessInv == CountersTyped /\ ClaimsAreTracked /\ CountsAreConserved

LEMMA CarriedTyped ==
    ASSUME CountersTyped, NEW e \in Entities
    PROVE  /\ CarriedBy(e) \in [Flushers -> Nat]
           /\ \A f \in Flushers : CarriedBy(e)[f] = Carried(f, e) /\ Carried(f, e) \in 0..MaxFetches + MaxRepeated
BY AccessAssumption DEF CountersTyped, Claims, CarriedBy, Carried

LEMMA SumTyped == ASSUME NEW one \in [Flushers -> Nat] PROVE SumOver(Flushers, one)[Flushers] \in Nat
<1>1. PICK sum : sum = SumOver(Flushers, one)
  OBVIOUS
<1>2. Sums(sum, one, SUBSET Flushers)
  BY <1>1, SumOverIs, AccessAssumption
<1>3. sum[Flushers] \in Nat
  BY <1>2, SumIsNat, AccessAssumption
<1> QED BY <1>1, <1>3

\* A flush that changes what it carries changes what is in flight by as much.
LEMMA InFlightChange ==
    ASSUME CountersTyped, CountersTyped', NEW e \in Entities, NEW f \in Flushers,
           \A g \in Flushers \ {f} : flush'[g] = flush[g]
    PROVE  /\ InFlight(e) \in Nat /\ InFlight(e)' \in Nat /\ InFlight(e) >= Carried(f, e)
           /\ InFlight(e)' = InFlight(e) - Carried(f, e) + Carried(f, e)'
<1>1. PICK one : one = CarriedBy(e)
  OBVIOUS
<1>2. PICK two : two = CarriedBy(e)'
  OBVIOUS
<1>3. one \in [Flushers -> Nat] /\ one[f] = Carried(f, e)
  BY <1>1, CarriedTyped
<1>4. two \in [Flushers -> Nat] /\ two[f] = Carried(f, e)'
  BY <1>2, AccessAssumption DEF CountersTyped, Claims, CarriedBy, Carried
<1>5. \A g \in Flushers \ {f} : one[g] = two[g]
  BY <1>1, <1>2 DEF CarriedBy, Carried
<1>6. InFlight(e) = SumOver(Flushers, one)[Flushers] /\ InFlight(e)' = SumOver(Flushers, two)[Flushers]
  BY <1>1, <1>2, InFlightIs, InFlightBecomes
<1> QED BY <1>3, <1>4, <1>5, <1>6, AccessAssumption, SumChange

LEMMA InFlightStays ==
    ASSUME flush' = flush, NEW e
    PROVE  InFlight(e)' = InFlight(e)
<1>1. CarriedBy(e)' = CarriedBy(e)
  BY DEF CarriedBy, Carried
<1> QED BY <1>1, InFlightIs, InFlightBecomes

LEMMA InFlightTyped ==
    ASSUME CountersTyped, NEW e \in Entities
    PROVE  InFlight(e) \in Nat /\ \A f \in Flushers : InFlight(e) >= Carried(f, e)
<1>1. PICK one : one = CarriedBy(e)
  OBVIOUS
<1>2. one \in [Flushers -> Nat] /\ \A f \in Flushers : one[f] = Carried(f, e)
  BY <1>1, CarriedTyped
<1>3. InFlight(e) = SumOver(Flushers, one)[Flushers]
  BY <1>1, InFlightIs
<1>4. SumOver(Flushers, one)[Flushers] \in Nat
  BY <1>2, SumTyped
<1>5. ASSUME NEW f \in Flushers PROVE InFlight(e) >= Carried(f, e)
  BY <1>2, <1>3, SumChange, AccessAssumption
<1> QED BY <1>3, <1>4, <1>5

LEMMA InitAccessInv == AccessInit => AccessInv
<1> SUFFICES ASSUME AccessInit PROVE AccessInv
  OBVIOUS
<1> USE AccessAssumption
<1>1. CountersTyped
  BY DEF AccessInit, CountersTyped, Claims, IdleFlush, Zero
<1>2. ClaimsAreTracked
  BY DEF AccessInit, ClaimsAreTracked, Accounted, IdleFlush, Zero
<1>3. ASSUME NEW e \in Entities PROVE InFlight(e) = 0
  <2>1. \A f \in Flushers : CarriedBy(e)[f] = 0
    BY DEF AccessInit, CarriedBy, Carried, IdleFlush, Zero
  <2> QED BY <2>1, InFlightIs, SumOfZeros
<1>4. CountsAreConserved
  BY <1>3 DEF CountsAreConserved, AccessInit, Zero
<1> QED BY <1>1, <1>2, <1>4 DEF AccessInv

\* A read is counted once, k reads go from one place to another, or k reads that a flush
\* carries are in the table as well.
ReadsMove(e, k) ==
    \/ /\ fetches'[e] = fetches[e] + 1 /\ pending'[e] = pending[e] + 1 /\ InFlight(e)' = InFlight(e)
       /\ total'[e] = total[e] /\ dropped'[e] = dropped[e] /\ lost'[e] = lost[e] /\ repeated'[e] = repeated[e]
    \/ /\ fetches'[e] = fetches[e] /\ lost'[e] = lost[e] /\ repeated'[e] = repeated[e]
       /\ \/ /\ pending'[e] = pending[e] - k /\ InFlight(e)' = InFlight(e) + k
             /\ total'[e] = total[e] /\ dropped'[e] = dropped[e]
          \/ /\ pending'[e] = pending[e] + k /\ InFlight(e)' = InFlight(e) - k
             /\ total'[e] = total[e] /\ dropped'[e] = dropped[e]
          \/ /\ total'[e] = total[e] + k /\ InFlight(e)' = InFlight(e) - k
             /\ pending'[e] = pending[e] /\ dropped'[e] = dropped[e]
          \/ /\ dropped'[e] = dropped[e] + k /\ InFlight(e)' = InFlight(e) - k
             /\ pending'[e] = pending[e] /\ total'[e] = total[e]
          \/ /\ dropped'[e] = dropped[e] + k /\ total'[e] = total[e] - k
             /\ pending'[e] = pending[e] /\ InFlight(e)' = InFlight(e)
    \/ /\ fetches'[e] = fetches[e] /\ lost'[e] = lost[e] + k /\ repeated'[e] = repeated[e]
       /\ total'[e] = total[e] /\ dropped'[e] = dropped[e]
       /\ \/ InFlight(e)' = InFlight(e) - k /\ pending'[e] = pending[e]
          \/ InFlight(e)' = InFlight(e) /\ pending'[e] = pending[e] - k
    \/ /\ fetches'[e] = fetches[e] /\ repeated'[e] = repeated[e] + k /\ total'[e] = total[e] + k
       /\ InFlight(e)' = InFlight(e) /\ pending'[e] = pending[e] /\ dropped'[e] = dropped[e] /\ lost'[e] = lost[e]

LEMMA MovesConserve ==
    ASSUME AccessInv, CountersTyped', NEW e \in Entities, NEW k \in Nat, ReadsMove(e, k), InFlight(e)' \in Nat
    PROVE  fetches'[e] + repeated'[e] = pending'[e] + InFlight(e)' + total'[e] + dropped'[e] + lost'[e]
<1>1. PICK a, b, p, i, t, d, l : /\ a = fetches[e] /\ b = repeated[e] /\ p = pending[e] /\ i = InFlight(e)
                                 /\ t = total[e] /\ d = dropped[e] /\ l = lost[e]
  OBVIOUS
<1>2. PICK a2, b2, p2, w2, t2, d2, l2 : /\ a2 = fetches'[e] /\ b2 = repeated'[e] /\ p2 = pending'[e]
                                       /\ w2 = InFlight(e)' /\ t2 = total'[e] /\ d2 = dropped'[e] /\ l2 = lost'[e]
  OBVIOUS
<1>3. a \in Nat /\ b \in Nat /\ p \in Nat /\ i \in Nat /\ t \in Nat /\ d \in Nat /\ l \in Nat
  BY <1>1, InFlightTyped, AccessAssumption DEF AccessInv, CountersTyped
<1>4. a2 \in Nat /\ b2 \in Nat /\ p2 \in Nat /\ w2 \in Nat /\ t2 \in Nat /\ d2 \in Nat /\ l2 \in Nat
  BY <1>2, AccessAssumption DEF CountersTyped
<1>5. a + b = p + i + t + d + l
  BY <1>1, Zenon DEF AccessInv, CountsAreConserved
<1>6. \/ a2 = a + 1 /\ b2 = b /\ p2 = p + 1 /\ w2 = i /\ t2 = t /\ d2 = d /\ l2 = l
      \/ a2 = a /\ b2 = b /\ l2 = l /\ p2 = p - k /\ w2 = i + k /\ t2 = t /\ d2 = d
      \/ a2 = a /\ b2 = b /\ l2 = l /\ p2 = p + k /\ w2 = i - k /\ t2 = t /\ d2 = d
      \/ a2 = a /\ b2 = b /\ l2 = l /\ p2 = p /\ w2 = i - k /\ t2 = t + k /\ d2 = d
      \/ a2 = a /\ b2 = b /\ l2 = l /\ p2 = p /\ w2 = i - k /\ t2 = t /\ d2 = d + k
      \/ a2 = a /\ b2 = b /\ l2 = l /\ p2 = p /\ w2 = i /\ t2 = t - k /\ d2 = d + k
      \/ a2 = a /\ b2 = b /\ l2 = l + k /\ p2 = p /\ w2 = i - k /\ t2 = t /\ d2 = d
      \/ a2 = a /\ b2 = b /\ l2 = l + k /\ p2 = p - k /\ w2 = i /\ t2 = t /\ d2 = d
      \/ a2 = a /\ b2 = b + k /\ l2 = l /\ p2 = p /\ w2 = i /\ t2 = t + k /\ d2 = d
  BY <1>1, <1>2 DEF ReadsMove
<1>7. a2 + b2 = p2 + w2 + t2 + d2 + l2
  BY <1>3, <1>4, <1>5, <1>6
<1> QED BY <1>2, <1>7, Zenon

LEMMA Conservation ==
    ASSUME AccessInv, CountersTyped', \A e \in Entities : \E k \in Nat : ReadsMove(e, k)
    PROVE  CountsAreConserved'
<1> SUFFICES ASSUME NEW e \in Entities
             PROVE  fetches'[e] + repeated'[e] = pending'[e] + InFlight(e)' + total'[e] + dropped'[e] + lost'[e]
  BY DEF CountsAreConserved
<1>1. PICK two : two = CarriedBy(e)'
  OBVIOUS
<1>2. two \in [Flushers -> Nat]
  BY <1>1, AccessAssumption DEF CountersTyped, Claims, CarriedBy, Carried
<1>3. InFlight(e)' \in Nat
  BY <1>1, <1>2, InFlightBecomes, SumTyped
<1> QED BY <1>3, MovesConserve

\* A step of a flush, which leaves the other flushes alone.
CarriedOf(r, e) == IF e \in r.discarded THEN 0 ELSE r.claimed[e]

Carries(f, r, e) ==
    /\ InFlight(e) \in Nat /\ InFlight(e)' \in Nat
    /\ CarriedOf(flush[f], e) \in Nat /\ CarriedOf(r, e) \in Nat
    /\ InFlight(e)' = InFlight(e) - CarriedOf(flush[f], e) + CarriedOf(r, e)

LEMMA FlushStep ==
    ASSUME AccessInv, NEW f \in Flushers, NEW r \in Claims, Accounted(r), flush' = [flush EXCEPT ![f] = r],
           live' = live, fetches' = fetches, repeated' \in [Entities -> 0..MaxRepeated],
           pending' \in [Entities -> Nat], total' \in [Entities -> Nat],
           dropped' \in [Entities -> Nat], lost' \in [Entities -> Nat]
    PROVE  CountersTyped' /\ ClaimsAreTracked' /\ \A e \in Entities : Carries(f, r, e)
<1>1. CountersTyped'
  BY DEF AccessInv, CountersTyped
<1>2. flush'[f] = r /\ \A g \in Flushers \ {f} : flush'[g] = flush[g]
  BY DEF AccessInv, CountersTyped
<1>3. ClaimsAreTracked'
  <2> SUFFICES ASSUME NEW g \in Flushers PROVE Accounted(flush'[g])
    BY DEF ClaimsAreTracked, Accounted
  <2> QED BY <1>2 DEF AccessInv, ClaimsAreTracked
<1>4. ASSUME NEW e \in Entities
      PROVE  Carries(f, r, e)
  <2>1. Carried(f, e) = CarriedOf(flush[f], e) /\ Carried(f, e)' = CarriedOf(r, e)
    BY <1>2 DEF Carried, CarriedOf
  <2>2. CarriedOf(flush[f], e) \in Nat /\ CarriedOf(r, e) \in Nat
    BY AccessAssumption DEF CarriedOf, Claims, AccessInv, CountersTyped
  <2> QED BY <1>1, <1>2, <2>1, <2>2, InFlightChange DEF AccessInv, Carries
<1> QED BY <1>1, <1>3, <1>4

\* No place holds more reads than were counted.
LEMMA NoMoreThanReads ==
    ASSUME AccessInv, NEW e \in Entities
    PROVE  /\ pending[e] \in 0..MaxFetches + MaxRepeated /\ total[e] \in 0..MaxFetches + MaxRepeated
           /\ dropped[e] \in 0..MaxFetches + MaxRepeated /\ lost[e] \in 0..MaxFetches + MaxRepeated
<1>1. PICK a, b, p, i, t, d, l : /\ a = fetches[e] /\ b = repeated[e] /\ p = pending[e] /\ i = InFlight(e)
                                 /\ t = total[e] /\ d = dropped[e] /\ l = lost[e]
  OBVIOUS
<1>2. a \in 0..MaxFetches /\ b \in 0..MaxRepeated /\ p \in Nat /\ i \in Nat /\ t \in Nat /\ d \in Nat /\ l \in Nat
  BY <1>1, InFlightTyped DEF AccessInv, CountersTyped
<1>3. a + b = p + i + t + d + l
  BY <1>1, Zenon DEF AccessInv, CountsAreConserved
<1>4. PICK n : n = MaxFetches + MaxRepeated
  OBVIOUS
<1>5. p \in 0..n /\ t \in 0..n /\ d \in 0..n /\ l \in 0..n
  BY <1>2, <1>3, <1>4, AccessAssumption
<1> QED BY <1>1, <1>4, <1>5

LEMMA ReadStep == ASSUME AccessInv, NEW e \in Entities, Track(e) PROVE AccessInv'
<1>1. CountersTyped'
  BY AccessAssumption DEF Track, AccessInv, CountersTyped
<1>2. ClaimsAreTracked'
  BY DEF Track, AccessInv, ClaimsAreTracked, Accounted
<1>3. ASSUME NEW o \in Entities PROVE \E k \in Nat : ReadsMove(o, k)
  <2>1. InFlight(o)' = InFlight(o) /\ InFlight(o) \in Nat
    BY InFlightStays, InFlightTyped DEF Track, AccessInv
  <2>2. ReadsMove(o, 0)
    <3>1. CASE o = e
      BY <2>1, <3>1 DEF ReadsMove, Track, AccessInv, CountersTyped
    <3>2. CASE o # e
      BY <2>1, <3>2 DEF ReadsMove, Track, AccessInv, CountersTyped
    <3> QED BY <3>1, <3>2
  <2> QED BY <2>2
<1> QED BY <1>1, <1>2, <1>3, Conservation DEF AccessInv

LEMMA DeleteStep == ASSUME AccessInv, NEW e \in Entities, Delete(e) PROVE AccessInv'
<1>1. CountersTyped'
  BY DEF Delete, AccessInv, CountersTyped
<1>2. ClaimsAreTracked'
  BY DEF Delete, AccessInv, ClaimsAreTracked, Accounted
<1>3. ASSUME NEW o \in Entities PROVE \E k \in Nat : ReadsMove(o, k)
  <2>1. InFlight(o)' = InFlight(o) /\ InFlight(o) \in Nat
    BY InFlightStays, InFlightTyped DEF Delete, AccessInv
  <2>2. CASE o = e
    BY <2>1, <2>2 DEF ReadsMove, Delete, AccessInv, CountersTyped
  <2>3. CASE o # e
    <3>1. ReadsMove(o, 0)
      BY <2>1, <2>3 DEF ReadsMove, Delete, AccessInv, CountersTyped
    <3> QED BY <3>1
  <2> QED BY <2>2, <2>3
<1> QED BY <1>1, <1>2, <1>3, Conservation DEF AccessInv

LEMMA PopStep == ASSUME AccessInv, NEW f \in Flushers, Pop(f) PROVE AccessInv'
<1>1. PICK q \in Highest : /\ flush' = [flush EXCEPT ![f] = Claim(q)]
                           /\ pending' = [e \in Entities |-> IF e \in q THEN 0 ELSE pending[e]]
  BY DEF Pop
<1>2. q \subseteq Entities
  BY DEF Highest
<1>3. PICK r : r = Claim(q)
  OBVIOUS
<1>4. \A e \in Entities : pending[e] \in 0..MaxFetches + MaxRepeated
  BY NoMoreThanReads
<1>5. /\ r.pc = "upsert" /\ r.todo = q /\ r.added = {} /\ r.discarded = {}
      /\ r.claimed = [e \in Entities |-> IF e \in q THEN pending[e] ELSE 0]
      /\ r \in Claims
  <2>1. r = [pc |-> "upsert", claimed |-> [e \in Entities |-> IF e \in q THEN pending[e] ELSE 0], todo |-> q,
             added |-> {}, discarded |-> {}]
    BY <1>3 DEF Claim, IdleFlush
  <2>2. [e \in Entities |-> IF e \in q THEN pending[e] ELSE 0] \in [Entities -> 0..MaxFetches + MaxRepeated]
    BY <1>4, AccessAssumption
  <2> QED BY <1>2, <2>1, <2>2 DEF Claims
<1>6. Accounted(r)
  BY <1>5 DEF Accounted
<1>7. flush[f] = IdleFlush
  BY DEF Pop, AccessInv, ClaimsAreTracked, Accounted
<1>8. CountersTyped' /\ ClaimsAreTracked' /\ \A e \in Entities : Carries(f, r, e)
  <2>1. pending' \in [Entities -> Nat]
    BY <1>1 DEF AccessInv, CountersTyped
  <2>2. flush' = [flush EXCEPT ![f] = r]
    BY <1>1, <1>3
  <2>3. total \in [Entities -> Nat] /\ dropped \in [Entities -> Nat] /\ lost \in [Entities -> Nat]
    BY DEF AccessInv, CountersTyped
  <2>4. UNCHANGED <<live, fetches, repeated, total, dropped, lost>> /\ repeated \in [Entities -> 0..MaxRepeated]
    BY DEF Pop, AccessInv, CountersTyped
  <2> QED BY <1>5, <1>6, <2>1, <2>2, <2>3, <2>4, FlushStep
<1>9. ASSUME NEW e \in Entities PROVE \E k \in Nat : ReadsMove(e, k)
  <2>1. CarriedOf(flush[f], e) = 0
    BY <1>7 DEF CarriedOf, IdleFlush, Zero
  <2>2. CarriedOf(r, e) = IF e \in q THEN pending[e] ELSE 0
    BY <1>5 DEF CarriedOf
  <2>3. InFlight(e)' = InFlight(e) + CarriedOf(r, e)
    BY <1>8, <2>1 DEF Carries
  <2>4. pending'[e] = pending[e] - CarriedOf(r, e)
    BY <1>1, <1>4, <2>2
  <2>5. ReadsMove(e, CarriedOf(r, e))
    BY <2>3, <2>4 DEF ReadsMove, Pop
  <2> QED BY <1>8, <2>5 DEF Carries
<1> QED BY <1>8, <1>9, Conservation DEF AccessInv

LEMMA LosePopStep == ASSUME AccessInv, NEW f \in Flushers, LosePop(f) PROVE AccessInv'
<1>1. PICK q \in Highest : /\ pending' = [e \in Entities |-> IF e \in q THEN 0 ELSE pending[e]]
                           /\ lost' = [e \in Entities |-> IF e \in q THEN lost[e] + pending[e] ELSE lost[e]]
  BY DEF LosePop
<1>2. UNCHANGED <<live, fetches, repeated, total, dropped, flush>>
  BY DEF LosePop
<1>3. CountersTyped'
  BY <1>1, <1>2 DEF AccessInv, CountersTyped
<1>4. ClaimsAreTracked'
  BY <1>2 DEF AccessInv, ClaimsAreTracked, Accounted
<1>5. ASSUME NEW e \in Entities PROVE \E k \in Nat : ReadsMove(e, k)
  <2>1. InFlight(e)' = InFlight(e) /\ pending[e] \in Nat /\ lost[e] \in Nat
    BY <1>2, InFlightStays DEF AccessInv, CountersTyped
  <2>2. CASE e \in q
    <3>1. pending'[e] = pending[e] - pending[e] /\ lost'[e] = lost[e] + pending[e]
      BY <1>1, <2>1, <2>2
    <3>2. ReadsMove(e, pending[e])
      BY <1>2, <2>1, <3>1 DEF ReadsMove
    <3> QED BY <2>1, <3>2
  <2>3. CASE e \notin q
    <3>1. ReadsMove(e, 0)
      BY <1>1, <1>2, <2>1, <2>3 DEF ReadsMove
    <3> QED BY <3>1
  <2> QED BY <2>2, <2>3
<1> QED BY <1>3, <1>4, <1>5, Conservation DEF AccessInv

\* A step that moves no read: the flush carries what it carried.
LEMMA CarryingStep ==
    ASSUME AccessInv, NEW f \in Flushers, NEW r \in Claims, Accounted(r), flush' = [flush EXCEPT ![f] = r],
           r.claimed = flush[f].claimed, r.discarded = flush[f].discarded,
           UNCHANGED <<live, fetches, repeated, pending, total, dropped, lost>>
    PROVE  AccessInv'
<1>1. CountersTyped' /\ ClaimsAreTracked' /\ \A e \in Entities : Carries(f, r, e)
  BY FlushStep DEF AccessInv, CountersTyped
<1>2. ASSUME NEW e \in Entities PROVE \E k \in Nat : ReadsMove(e, k)
  <2>1. CarriedOf(flush[f], e) = CarriedOf(r, e)
    BY DEF CarriedOf
  <2>2. InFlight(e)' = InFlight(e)
    BY <1>1, <2>1 DEF Carries
  <2>3. pending[e] \in Nat
    BY DEF AccessInv, CountersTyped
  <2>4. ReadsMove(e, 0)
    BY <1>1, <2>2, <2>3 DEF ReadsMove, Carries
  <2> QED BY <2>4
<1> QED BY <1>1, <1>2, Conservation DEF AccessInv

LEMMA RollbackStep == ASSUME AccessInv, NEW f \in Flushers, Rollback(f) PROVE AccessInv'
<1>1. PICK r : r = [flush[f] EXCEPT !.pc = "restore", !.todo = {}, !.added = {}]
  OBVIOUS
<1>2. flush[f] \in Claims
  BY DEF AccessInv, CountersTyped
<1>3. r \in Claims /\ Accounted(r) /\ r.claimed = flush[f].claimed /\ r.discarded = flush[f].discarded
  BY <1>1, <1>2 DEF Claims, Accounted
<1>4. flush' = [flush EXCEPT ![f] = r]
  BY <1>1, <1>2 DEF Rollback, AccessInv, CountersTyped
<1> QED BY <1>3, <1>4, CarryingStep DEF Rollback

LEMMA UpsertStep == ASSUME AccessInv, NEW f \in Flushers, NEW e \in Entities, Upsert(f, e) PROVE AccessInv'
<1>1. flush[f] \in Claims /\ Accounted(flush[f]) /\ flush[f].pc = "upsert" /\ e \in flush[f].todo
  BY DEF Upsert, AccessInv, CountersTyped, ClaimsAreTracked
<1>2. CASE e \in live
  <2>1. PICK r : r = [flush[f] EXCEPT !.todo = @ \ {e}, !.added = @ \cup {e}]
    OBVIOUS
  <2>2. /\ r.pc = "upsert" /\ r.claimed = flush[f].claimed /\ r.discarded = flush[f].discarded
        /\ r.todo = flush[f].todo \ {e} /\ r.added = flush[f].added \cup {e} /\ r \in Claims
    BY <1>1, <2>1 DEF Claims
  <2>3. Accounted(r)
    BY <1>1, <2>2 DEF Accounted
  <2>4. flush' = [flush EXCEPT ![f] = r]
    BY <1>2, <2>1 DEF Upsert
  <2> QED BY <1>2, <2>2, <2>3, <2>4, CarryingStep DEF Upsert
<1>3. CASE e \notin live
  <2>1. PICK r : r = [flush[f] EXCEPT !.todo = @ \ {e}, !.discarded = @ \cup {e}]
    OBVIOUS
  <2>2. /\ r.pc = "upsert" /\ r.claimed = flush[f].claimed /\ r.discarded = flush[f].discarded \cup {e}
        /\ r.todo = flush[f].todo \ {e} /\ r.added = flush[f].added /\ r \in Claims
    BY <1>1, <2>1 DEF Claims
  <2>3. Accounted(r)
    BY <1>1, <2>2 DEF Accounted
  <2>4. flush' = [flush EXCEPT ![f] = r]
    BY <1>3, <2>1 DEF Upsert
  <2>5. dropped' = [dropped EXCEPT ![e] = @ + flush[f].claimed[e]] /\ UNCHANGED <<live, fetches, repeated, pending, total, lost>>
    BY <1>3 DEF Upsert
  <2>6. flush[f].claimed[e] \in Nat /\ dropped' \in [Entities -> Nat]
    BY <1>1, <2>5, AccessAssumption DEF AccessInv, CountersTyped, Claims
  <2>7. CountersTyped' /\ ClaimsAreTracked' /\ \A o \in Entities : Carries(f, r, o)
    BY <2>2, <2>3, <2>4, <2>5, <2>6, FlushStep DEF AccessInv, CountersTyped
  <2>8. ASSUME NEW o \in Entities PROVE \E k \in Nat : ReadsMove(o, k)
    <3>1. dropped[o] \in Nat /\ pending[o] \in Nat
      BY DEF AccessInv, CountersTyped
    <3>2. CASE o = e
      <4>1. CarriedOf(flush[f], o) = flush[f].claimed[o] /\ CarriedOf(r, o) = 0
        BY <1>1, <2>2, <3>2 DEF CarriedOf, Accounted
      <4>2. InFlight(o)' = InFlight(o) - flush[f].claimed[o] /\ dropped'[o] = dropped[o] + flush[f].claimed[o]
        BY <2>5, <2>7, <3>2, <4>1 DEF Carries, AccessInv, CountersTyped
      <4>3. ReadsMove(o, flush[f].claimed[o])
        BY <2>5, <4>2 DEF ReadsMove
      <4> QED BY <2>6, <3>2, <4>3
    <3>3. CASE o # e
      <4>1. CarriedOf(flush[f], o) = CarriedOf(r, o)
        BY <2>2, <3>3 DEF CarriedOf
      <4>2. InFlight(o)' = InFlight(o) /\ dropped'[o] = dropped[o]
        BY <2>5, <2>7, <3>3, <4>1 DEF Carries, AccessInv, CountersTyped
      <4>3. ReadsMove(o, 0)
        BY <2>5, <2>7, <3>1, <4>2 DEF ReadsMove, Carries
      <4> QED BY <4>3
    <3> QED BY <3>2, <3>3
  <2> QED BY <2>7, <2>8, Conservation DEF AccessInv
<1> QED BY <1>2, <1>3

\* A flush ends: what it carried goes elsewhere.
LEMMA EndTyped ==
    /\ IdleFlush \in Claims /\ Accounted(IdleFlush)
    /\ \A e \in Entities : CarriedOf(IdleFlush, e) = 0
BY AccessAssumption DEF IdleFlush, Claims, Accounted, CarriedOf, Zero

LEMMA CarriedIs == ASSUME NEW f, NEW e PROVE Carried(f, e) = CarriedOf(flush[f], e)
BY DEF Carried, CarriedOf

LEMMA RestoreStep == ASSUME AccessInv, NEW f \in Flushers, Restore(f) PROVE AccessInv'
<1>1. flush' = [flush EXCEPT ![f] = IdleFlush] /\ UNCHANGED <<live, fetches, repeated, total, dropped, lost>>
  BY DEF Restore
<1>2. pending' = [e \in Entities |-> pending[e] + CarriedOf(flush[f], e)]
  BY CarriedIs DEF Restore
<1>3. \A e \in Entities : pending[e] \in Nat /\ CarriedOf(flush[f], e) \in Nat
  BY CarriedIs, CarriedTyped, AccessAssumption DEF AccessInv, CountersTyped
<1>4. pending' \in [Entities -> Nat]
  BY <1>2, <1>3
<1>5. CountersTyped' /\ ClaimsAreTracked' /\ \A e \in Entities : Carries(f, IdleFlush, e)
  BY <1>1, <1>4, EndTyped, FlushStep DEF AccessInv, CountersTyped
<1>6. ASSUME NEW e \in Entities PROVE \E k \in Nat : ReadsMove(e, k)
  <2>1. InFlight(e)' = InFlight(e) - CarriedOf(flush[f], e)
    BY <1>5, EndTyped DEF Carries
  <2>2. ReadsMove(e, CarriedOf(flush[f], e))
    BY <1>1, <1>2, <2>1 DEF ReadsMove
  <2> QED BY <1>3, <2>2
<1> QED BY <1>5, <1>6, Conservation DEF AccessInv

LEMMA LoseStep == ASSUME AccessInv, NEW f \in Flushers, Lose(f) PROVE AccessInv'
<1>1. flush' = [flush EXCEPT ![f] = IdleFlush] /\ UNCHANGED <<live, fetches, repeated, pending, total, dropped>>
  BY DEF Lose
<1>2. lost' = [e \in Entities |-> lost[e] + CarriedOf(flush[f], e)]
  BY CarriedIs DEF Lose
<1>3. \A e \in Entities : lost[e] \in Nat /\ CarriedOf(flush[f], e) \in Nat
  BY CarriedIs, CarriedTyped, AccessAssumption DEF AccessInv, CountersTyped
<1>4. lost' \in [Entities -> Nat]
  BY <1>2, <1>3
<1>5. CountersTyped' /\ ClaimsAreTracked' /\ \A e \in Entities : Carries(f, IdleFlush, e)
  BY <1>1, <1>4, EndTyped, FlushStep DEF AccessInv, CountersTyped
<1>6. ASSUME NEW e \in Entities PROVE \E k \in Nat : ReadsMove(e, k)
  <2>1. InFlight(e)' = InFlight(e) - CarriedOf(flush[f], e)
    BY <1>5, EndTyped DEF Carries
  <2>2. ReadsMove(e, CarriedOf(flush[f], e))
    BY <1>1, <1>2, <2>1 DEF ReadsMove
  <2> QED BY <1>3, <2>2
<1> QED BY <1>5, <1>6, Conservation DEF AccessInv

\* What a committing flush carries is what it added.
LEMMA CommitAddsCarried ==
    ASSUME AccessInv, NEW f \in Flushers, flush[f].pc = "upsert", flush[f].todo = {}, NEW e \in Entities
    PROVE  (IF e \in flush[f].added THEN flush[f].claimed[e] ELSE 0) = CarriedOf(flush[f], e)
<1>1. Accounted(flush[f])
  BY DEF AccessInv, ClaimsAreTracked
<1> QED BY <1>1 DEF Accounted, CarriedOf

LEMMA CommitStep == ASSUME AccessInv, NEW f \in Flushers, Commit(f) PROVE AccessInv'
<1>1. flush' = [flush EXCEPT ![f] = IdleFlush] /\ UNCHANGED <<live, fetches, repeated, pending, dropped, lost>>
  BY DEF Commit
<1>2. \A e \in Entities : (IF e \in flush[f].added THEN flush[f].claimed[e] ELSE 0) = CarriedOf(flush[f], e)
  BY CommitAddsCarried DEF Commit
<1>3. total' = [e \in Entities |-> total[e] + CarriedOf(flush[f], e)]
  BY <1>2 DEF Commit
<1>4. \A e \in Entities : total[e] \in Nat /\ CarriedOf(flush[f], e) \in Nat
  BY CarriedIs, CarriedTyped, AccessAssumption DEF AccessInv, CountersTyped
<1>5. total' \in [Entities -> Nat]
  BY <1>3, <1>4
<1>6. CountersTyped' /\ ClaimsAreTracked' /\ \A e \in Entities : Carries(f, IdleFlush, e)
  BY <1>1, <1>5, EndTyped, FlushStep DEF AccessInv, CountersTyped
<1>7. ASSUME NEW e \in Entities PROVE \E k \in Nat : ReadsMove(e, k)
  <2>1. InFlight(e)' = InFlight(e) - CarriedOf(flush[f], e)
    BY <1>6, EndTyped DEF Carries
  <2>2. ReadsMove(e, CarriedOf(flush[f], e))
    BY <1>1, <1>3, <2>1 DEF ReadsMove
  <2> QED BY <1>4, <2>2
<1> QED BY <1>6, <1>7, Conservation DEF AccessInv

\* The reads it added are in the table and with the flush.
LEMMA CommitUnknownStep == ASSUME AccessInv, NEW f \in Flushers, CommitUnknown(f) PROVE AccessInv'
<1>1. PICK r : r = [flush[f] EXCEPT !.pc = "restore", !.added = {}]
  OBVIOUS
<1>2. flush[f] \in Claims /\ Accounted(flush[f]) /\ flush[f].pc = "upsert" /\ flush[f].todo = {}
  BY DEF CommitUnknown, AccessInv, CountersTyped, ClaimsAreTracked
<1>3. /\ r.pc = "restore" /\ r.claimed = flush[f].claimed /\ r.discarded = flush[f].discarded
      /\ r.todo = {} /\ r.added = {} /\ r \in Claims
  BY <1>1, <1>2 DEF Claims
<1>4. Accounted(r)
  BY <1>3 DEF Accounted
<1>5. flush' = [flush EXCEPT ![f] = r] /\ UNCHANGED <<live, fetches, pending, dropped, lost>>
  BY <1>1 DEF CommitUnknown
<1>6. \A e \in Entities : (IF e \in flush[f].added THEN flush[f].claimed[e] ELSE 0) = CarriedOf(flush[f], e)
  BY <1>2, CommitAddsCarried
<1>7. /\ total' = [e \in Entities |-> total[e] + CarriedOf(flush[f], e)]
      /\ repeated' = [e \in Entities |-> repeated[e] + CarriedOf(flush[f], e)]
  BY <1>6 DEF CommitUnknown
<1>8. \A e \in Entities : total[e] \in Nat /\ repeated[e] \in 0..MaxRepeated /\ CarriedOf(flush[f], e) \in Nat
  BY CarriedIs, CarriedTyped, AccessAssumption DEF AccessInv, CountersTyped
<1>9. \A e \in Entities : repeated[e] + CarriedOf(flush[f], e) <= MaxRepeated
  <2> SUFFICES ASSUME NEW e \in Entities PROVE repeated[e] + CarriedOf(flush[f], e) <= MaxRepeated
    OBVIOUS
  <2>1. CASE e \in flush[f].added
    <3>1. repeated[e] + flush[f].claimed[e] <= MaxRepeated
      BY <2>1 DEF CommitUnknown
    <3> QED BY <1>6, <2>1, <3>1
  <2>2. CASE e \notin flush[f].added
    BY <1>6, <1>8, <2>2, AccessAssumption
  <2> QED BY <2>1, <2>2
<1>10. total' \in [Entities -> Nat] /\ repeated' \in [Entities -> 0..MaxRepeated]
  BY <1>7, <1>8, <1>9, AccessAssumption
<1>11. CountersTyped' /\ ClaimsAreTracked' /\ \A e \in Entities : Carries(f, r, e)
  BY <1>3, <1>4, <1>5, <1>10, FlushStep DEF AccessInv, CountersTyped
<1>12. ASSUME NEW e \in Entities PROVE \E k \in Nat : ReadsMove(e, k)
  <2>1. CarriedOf(r, e) = CarriedOf(flush[f], e)
    BY <1>3 DEF CarriedOf
  <2>2. InFlight(e)' = InFlight(e)
    BY <1>11, <2>1 DEF Carries
  <2>3. ReadsMove(e, CarriedOf(flush[f], e))
    BY <1>5, <1>7, <2>2 DEF ReadsMove
  <2> QED BY <1>8, <2>3
<1> QED BY <1>11, <1>12, Conservation DEF AccessInv

LEMMA InductiveAccessInv == AccessInv /\ [AccessNext]_accessVars => AccessInv'
<1> SUFFICES ASSUME AccessInv, [AccessNext]_accessVars PROVE AccessInv'
  OBVIOUS
<1>1. CASE \E e \in Entities : Track(e) \/ Delete(e)
  BY <1>1, ReadStep, DeleteStep
<1>2. ASSUME NEW f \in Flushers, Flush(f) PROVE AccessInv'
  <2>1. CASE BreakDeadlock(f)
    BY <2>1, RollbackStep DEF BreakDeadlock
  <2> QED BY <1>2, <2>1, PopStep, UpsertStep, RestoreStep, CommitStep DEF Flush
<1>3. CASE \E f \in Flushers : Fail(f)
  BY <1>3, RollbackStep DEF Fail
<1>4. CASE \E f \in Flushers : LosePop(f) \/ CommitUnknown(f) \/ Lose(f)
  BY <1>4, LosePopStep, CommitUnknownStep, LoseStep
<1>5. CASE UNCHANGED accessVars
  <2>1. CountersTyped' /\ ClaimsAreTracked'
    BY <1>5 DEF accessVars, AccessInv, CountersTyped, ClaimsAreTracked, Accounted
  <2>2. CountsAreConserved'
    BY <1>5, InFlightStays DEF accessVars, AccessInv, CountsAreConserved
  <2> QED BY <2>1, <2>2 DEF AccessInv
<1> QED BY <1>1, <1>2, <1>3, <1>4, <1>5 DEF AccessNext

LEMMA AccessInvTyped == AccessInv => AccessTypeOK /\ CountsAreConserved
<1> SUFFICES ASSUME AccessInv PROVE AccessTypeOK /\ CountsAreConserved
  OBVIOUS
<1>1. pending \in Counts /\ total \in Counts /\ dropped \in Counts /\ lost \in Counts
  BY NoMoreThanReads DEF Counts, AccessInv, CountersTyped
<1>2. Claims = FlushRecord
  BY DEF Claims, FlushRecord, Counts
<1> QED BY <1>1, <1>2 DEF AccessInv, AccessTypeOK, CountersTyped

\* Wherever reads are, those that exist and those a flush restored after a commit it did not hear
\* of account for every one, however many flushes overlap, fail, are given up or wait for each
\* other, and whichever entities are deleted between a read and its flush: no read is lost
\* unnoticed, and none is counted twice but by such a commit.
THEOREM ConservationSafety == AccessSpec => []CountsAreConserved
<1>1. AccessSpec => []AccessInv
  BY InitAccessInv, InductiveAccessInv, PTL DEF AccessSpec
<1> QED BY <1>1, AccessInvTyped, PTL

-----------------------------------------------------------------------------
(* The adaptive refresh *)

PassRecord == [pc : {"idle", "recalculate", "select", "insert", "record"}, kind : 1..Kinds,
               due : SUBSET Tracked, target : SUBSET Tracked, active : BOOLEAN]

LEMMA RefreshTypeStep == RefreshTypeOK /\ [RefreshNext]_refreshVars => RefreshTypeOK'
<1> SUFFICES ASSUME RefreshTypeOK, [RefreshNext]_refreshVars PROVE RefreshTypeOK'
  OBVIOUS
<1> USE RefreshAssumption
<1>1. pass \in PassRecord /\ Idle \in PassRecord
  BY DEF RefreshTypeOK, Idle, PassRecord
<1>2. ASSUME pass' \in PassRecord, age' \in [Tracked -> 0..ColdHours], cadence' \in [Tracked -> {HotHours, ColdHours}],
             ingest' \in [Tracked -> 0..1], current' \in [Tracked -> {"active", "ended"}], kindOf' = kindOf
      PROVE  RefreshTypeOK'
  BY <1>2 DEF RefreshTypeOK, PassRecord
<1> USE DEF RefreshTypeOK
<1>3. ASSUME NEW e \in Tracked, EndJob(e)
      PROVE  ingest' \in [Tracked -> 0..1] /\ pass' \in PassRecord /\ UNCHANGED <<kindOf, cadence>>
  <2>1. ingest' \in [Tracked -> 0..1]
    BY <1>3 DEF EndJob
  <2>2. pass' \in PassRecord
    BY <1>1, <1>3 DEF EndJob, PassRecord
  <2> QED BY <1>3, <2>1, <2>2 DEF EndJob
<1>4. ASSUME NEW e \in Tracked, AskIngestion(e) PROVE RefreshTypeOK'
  BY <1>1, <1>2, <1>4 DEF AskIngestion, InsertUnique
<1>5. ASSUME NEW e \in Tracked, IngestSucceeds(e) PROVE RefreshTypeOK'
  BY <1>2, <1>3, <1>5 DEF IngestSucceeds
<1>6. ASSUME NEW e \in Tracked, IngestFails(e) PROVE RefreshTypeOK'
  BY <1>2, <1>3, <1>6 DEF IngestFails
<1>7. ASSUME NEW e \in Tracked, InsertRefresh(e) PROVE RefreshTypeOK'
  <2>1. pass' \in PassRecord
    BY <1>1, <1>7 DEF InsertRefresh, PassRecord
  <2> QED BY <1>2, <1>7, <2>1 DEF InsertRefresh, InsertUnique
<1>8. CASE StartPass
  <2>1. pass' \in PassRecord
    BY <1>1, <1>8 DEF StartPass, PassRecord
  <2>2. age' \in [Tracked -> 0..ColdHours]
    BY <1>8 DEF StartPass
  <2> QED BY <1>2, <1>8, <2>1, <2>2 DEF StartPass
<1>9. CASE Recalculate
  <2>1. pass' \in PassRecord
    BY <1>1, <1>9 DEF Recalculate, PassRecord
  <2> QED BY <1>2, <1>9, <2>1 DEF Recalculate
<1>10. CASE Select
  <2>1. PICK chosen \in SUBSET Tracked : pass' = [pass EXCEPT !.pc = "insert", !.due = chosen]
    BY <1>10 DEF Select, Due
  <2>2. pass' \in PassRecord
    BY <1>1, <2>1 DEF PassRecord
  <2> QED BY <1>2, <1>10, <2>2 DEF Select
<1>11. ASSUME pass' = [pass EXCEPT !.pc = "insert", !.due = @ \ pass.target, !.target = {}, !.active = FALSE]
       PROVE  pass' \in PassRecord
  BY <1>1, <1>11 DEF PassRecord
<1>12. CASE RecordJob
  <2>1. current' \in [Tracked -> {"active", "ended"}]
    BY <1>12 DEF RecordJob, RecordWith
  <2> QED BY <1>2, <1>11, <1>12, <2>1 DEF RecordJob, RecordWith
<1>13. CASE RecordFails
  BY <1>2, <1>11, <1>13 DEF RecordFails, RecordWith
<1>14. CASE NextKind
  <2>1. pass' \in PassRecord
    <3>1. CASE pass.kind = Kinds
      BY <1>1, <1>14, <3>1 DEF NextKind
    <3>2. CASE pass.kind # Kinds
      <4>1. pass.kind + 1 \in 1..Kinds
        BY <1>1, <3>2 DEF PassRecord
      <4> QED BY <1>1, <1>14, <3>2, <4>1 DEF NextKind, PassRecord
    <3> QED BY <3>1, <3>2
  <2> QED BY <1>2, <1>14, <2>1 DEF NextKind
<1>15. CASE PassFails
  BY <1>1, <1>2, <1>15 DEF PassFails
<1>16. CASE UNCHANGED refreshVars
  BY <1>16 DEF refreshVars
<1> QED
  BY <1>4, <1>5, <1>6, <1>7, <1>8, <1>9, <1>10, <1>14, <1>15, <1>16, <1>12, <1>13 DEF RefreshNext, PassWork

LEMMA RefreshTypeInit == RefreshInit => RefreshTypeOK
BY RefreshAssumption DEF RefreshInit, RefreshTypeOK, Idle

-----------------------------------------------------------------------------
(* The outbox drain *)

DrainRecord == [pc : {"idle", "batch", "wait", "pending"}, batch : 0..(MaxBatches - 1), expired : BOOLEAN]
SequencerStates == {"none", "running", "sequenced", "failed"}

\* No outbox has more rows to sequence than were staged: that bounds them, as it bounds the batches.
DrainInv == DrainTypeOK /\ \A f \in Feeds : unsequenced[f] <= staged[f]

LEMMA DrainInvInit == DrainInit => DrainInv
BY DrainAssumption DEF DrainInit, DrainInv, DrainTypeOK, NoDrain, Stopped

LEMMA DrainInvStep == DrainInv /\ [DrainNext]_drainVars => DrainInv'
<1> SUFFICES ASSUME DrainInv, [DrainNext]_drainVars PROVE DrainInv'
  OBVIOUS
<1> USE DEF DrainInv
<1>1. MaxRows \in Nat /\ MaxDeaths \in Nat /\ BatchSize \in Nat \ {0} /\ MaxBatches \in Nat \ {0}
  BY DrainAssumption
<1>2. drain \in DrainRecord /\ NoDrain \in DrainRecord
  BY <1>1 DEF DrainTypeOK, DrainRecord, NoDrain
<1>3. ASSUME drain' \in DrainRecord, sequencer' \in [Feeds -> SequencerStates], unsequenced' \in [Feeds -> 0..MaxRows],
             staged' = staged, \A f \in Feeds : unsequenced'[f] <= unsequenced[f],
             condition' = condition, deaths' \in 0..MaxDeaths
      PROVE  DrainInv'
  <2>1. DrainTypeOK'
    BY <1>3 DEF DrainTypeOK, DrainRecord, SequencerStates
  <2>2. ASSUME NEW f \in Feeds PROVE unsequenced'[f] <= staged'[f]
    <3>1. unsequenced'[f] <= unsequenced[f] /\ unsequenced[f] <= staged[f] /\ staged'[f] = staged[f]
      BY <1>3
    <3>2. unsequenced'[f] \in Nat /\ unsequenced[f] \in Nat /\ staged[f] \in Nat
      BY <1>3 DEF DrainTypeOK
    <3> QED BY <3>1, <3>2
  <2> QED BY <2>1, <2>2
<1>4. \A f \in Feeds : AfterBatch(f) \in 0..MaxRows /\ AfterBatch(f) <= unsequenced[f] /\ unsequenced[f] <= unsequenced[f]
  BY <1>1 DEF DrainTypeOK, AfterBatch
<1>5. ASSUME Cancel
      PROVE  /\ sequencer' \in [Feeds -> SequencerStates] /\ unsequenced' \in [Feeds -> 0..MaxRows]
             /\ \A f \in Feeds : unsequenced'[f] <= unsequenced[f]
  BY <1>4, <1>5 DEF Cancel, Stopped, SequencerStates, DrainTypeOK
<1> USE DEF DrainTypeOK
<1>6. sequencer \in [Feeds -> SequencerStates]
  BY DEF SequencerStates
<1>7. CASE StartDrain
  <2>1. drain' \in DrainRecord
    BY <1>2, <1>7 DEF StartDrain, DrainRecord
  <2> QED BY <1>3, <1>4, <1>6, <1>7, <2>1 DEF StartDrain
<1>8. CASE SequenceBatch
  <2>1. drain' \in DrainRecord
    BY <1>2, <1>8 DEF SequenceBatch, DrainRecord
  <2>2. sequencer' \in [Feeds -> SequencerStates]
    BY <1>8 DEF SequenceBatch, SequencerStates
  <2> QED BY <1>3, <1>4, <1>8, <2>1, <2>2 DEF SequenceBatch
<1>9. CASE BatchEnds
  <2>1. drain' \in DrainRecord
    BY <1>2, <1>9 DEF BatchEnds, DrainRecord
  <2> QED BY <1>3, <1>5, <1>9, <2>1 DEF BatchEnds
<1>10. CASE CheckPending
  <2>1. CASE drain' = NoDrain
    BY <1>2, <1>3, <1>4, <1>6, <1>10, <2>1 DEF CheckPending
  <2>2. CASE drain.batch + 1 < MaxBatches /\ drain' = [NoDrain EXCEPT !.pc = "batch", !.batch = drain.batch + 1]
    <3>1. drain.batch + 1 \in 0..(MaxBatches - 1)
      BY <1>1, <1>2, <2>2 DEF DrainRecord
    <3>2. drain' \in DrainRecord
      BY <1>2, <2>2, <3>1 DEF DrainRecord, NoDrain
    <3> QED BY <1>3, <1>4, <1>6, <1>10, <3>2 DEF CheckPending
  <2> QED BY <1>10, <2>1, <2>2 DEF CheckPending
<1>11. CASE Deadline
  <2>1. drain' \in DrainRecord
    BY <1>2, <1>11 DEF Deadline, DrainRecord
  <2> QED BY <1>3, <1>4, <1>6, <1>11, <2>1 DEF Deadline
<1>12. CASE PendingFails
  BY <1>2, <1>3, <1>4, <1>6, <1>12 DEF PendingFails
<1>13. CASE JobTimeout
  BY <1>2, <1>3, <1>5, <1>13 DEF JobTimeout
<1>14. CASE DrainCrash
  <2>1. deaths' \in 0..MaxDeaths
    BY <1>1, <1>14 DEF DrainCrash
  <2> QED BY <1>2, <1>3, <1>5, <1>14, <2>1 DEF DrainCrash
<1>15. ASSUME NEW f \in Feeds, Stage(f) PROVE DrainInv'
  <2>1. staged[f] + 1 \in 0..MaxRows /\ unsequenced[f] + 1 \in 0..MaxRows /\ unsequenced[f] + 1 <= staged[f] + 1
    BY <1>1, <1>15 DEF Stage
  <2>2. /\ staged' = [staged EXCEPT ![f] = staged[f] + 1] /\ unsequenced' = [unsequenced EXCEPT ![f] = unsequenced[f] + 1]
        /\ UNCHANGED <<condition, sequencer, drain, deaths>>
    BY <1>15 DEF Stage
  <2>3. DrainTypeOK'
    BY <2>1, <2>2
  <2>4. \A g \in Feeds : unsequenced'[g] <= staged'[g]
    BY <2>1, <2>2
  <2> QED BY <2>3, <2>4
<1>16. ASSUME NEW f \in Feeds, SequenceCommits(f) PROVE DrainInv'
  <2>1. /\ sequencer' \in [Feeds -> SequencerStates] /\ unsequenced' \in [Feeds -> 0..MaxRows]
        /\ \A g \in Feeds : unsequenced'[g] <= unsequenced[g]
    BY <1>4, <1>6, <1>16 DEF SequenceCommits, SequencerStates
  <2> QED BY <1>2, <1>3, <1>16, <2>1 DEF SequenceCommits
<1>17. ASSUME NEW f \in Feeds, SequenceFails(f) PROVE DrainInv'
  <2>1. sequencer' \in [Feeds -> SequencerStates]
    BY <1>6, <1>17 DEF SequenceFails, SequencerStates
  <2> QED BY <1>2, <1>3, <1>4, <1>17, <2>1 DEF SequenceFails
<1>18. CASE UNCHANGED drainVars
  BY <1>18 DEF drainVars
<1> QED
  BY <1>7, <1>8, <1>9, <1>10, <1>11, <1>12, <1>13, <1>14, <1>15, <1>16, <1>17, <1>18
  DEF DrainNext, DrainWork, Sequencing

-----------------------------------------------------------------------------
(* Fingerprint runs *)

MatchRunRecord == [state : {"unborn", "queued", "working", "completed", "failed", "deleted"},
                   fingerprint : BOOLEAN, expired : BOOLEAN, result : {"none", "matched", "empty"}]
MatchJobRecord == [pc : {"none", "available", "matching", "finishing"}, by : SUBSET Requesters,
                   attempt : 0..(MatchAttempts - 1), fingerprint : BOOLEAN]
RequestRecord == [pc : {"new", "ensured", "stored", "done"}, run : SUBSET Runs]

LEMMA FingerprintTypeIs ==
    FingerprintTypeOK <=> /\ matchRun \in [Runs -> MatchRunRecord] /\ matchJob \in [Runs -> MatchJobRecord]
                          /\ request \in [Requesters -> RequestRecord] /\ held \subseteq Keyed
BY DEF FingerprintTypeOK, MatchRunRecord, MatchJobRecord, RequestRecord

LEMMA NoneTyped == Unborn \in MatchRunRecord /\ NoMatch \in MatchJobRecord
BY FingerprintAssumption DEF Unborn, NoMatch, MatchRunRecord, MatchJobRecord

LEMMA FingerprintTypeInit == FingerprintInit => FingerprintTypeOK
<1> SUFFICES ASSUME FingerprintInit PROVE FingerprintTypeOK
  OBVIOUS
<1>1. request \in [Requesters -> RequestRecord]
  BY DEF FingerprintInit, RequestRecord
<1> QED BY <1>1, NoneTyped, FingerprintTypeIs DEF FingerprintInit

LEMMA RetriedTyped ==
    ASSUME NEW r \in Runs, matchJob \in [Runs -> MatchJobRecord]
    PROVE  Retried(r) \in MatchJobRecord
<1>1. CASE matchJob[r].attempt + 1 < MatchAttempts
  <2>1. matchJob[r].attempt + 1 \in 0..(MatchAttempts - 1)
    BY <1>1, FingerprintAssumption DEF MatchJobRecord
  <2> QED BY <1>1, <2>1 DEF Retried, MatchJobRecord
<1>2. CASE ~(matchJob[r].attempt + 1 < MatchAttempts)
  BY <1>2, NoneTyped DEF Retried
<1> QED BY <1>1, <1>2

LEMMA FingerprintTypeStep == FingerprintTypeOK /\ [FingerprintNext]_fingerprintVars => FingerprintTypeOK'
<1> SUFFICES ASSUME FingerprintTypeOK, [FingerprintNext]_fingerprintVars PROVE FingerprintTypeOK'
  OBVIOUS
<1>1. /\ matchRun \in [Runs -> MatchRunRecord] /\ matchJob \in [Runs -> MatchJobRecord]
      /\ request \in [Requesters -> RequestRecord] /\ held \subseteq Keyed
  BY FingerprintTypeIs
<1>2. ASSUME matchRun' \in [Runs -> MatchRunRecord], matchJob' \in [Runs -> MatchJobRecord],
             request' \in [Requesters -> RequestRecord], held' \subseteq Keyed
      PROVE  FingerprintTypeOK'
  BY <1>2 DEF FingerprintTypeOK, MatchRunRecord, MatchJobRecord, RequestRecord
<1>3. ASSUME NEW r \in Runs, NEW state \in {"working", "completed", "failed"}
      PROVE  Row(r, state) \in MatchRunRecord
  BY <1>1 DEF Row, MatchRunRecord
<1>4. ASSUME NEW r \in Runs, NEW from, NEW new \in MatchJobRecord, MatchStep(r, from, new)
      PROVE  matchJob' \in [Runs -> MatchJobRecord]
  BY <1>1, <1>4 DEF MatchStep
<1>5. CASE CredentialsExpire
  BY <1>1, <1>2, <1>5 DEF CredentialsExpire
<1>6. CASE DeleteExpired
  <2>1. [Unborn EXCEPT !.state = "deleted"] \in MatchRunRecord
    BY NoneTyped DEF MatchRunRecord
  <2>2. matchRun' \in [Runs -> MatchRunRecord]
    BY <1>1, <1>6, <2>1 DEF DeleteExpired
  <2> QED BY <1>1, <1>2, <1>6, <2>2 DEF DeleteExpired
<1>7. ASSUME NEW q \in Requesters, EnsureRun(q) PROVE FingerprintTypeOK'
  <2>1. PICK r \in Runs :
          /\ matchRun' = [matchRun EXCEPT ![r] = IF r \in ActiveRuns THEN [@ EXCEPT !.expired = FALSE]
                                                ELSE [Unborn EXCEPT !.state = "queued", !.fingerprint = TRUE]]
          /\ request' = [request EXCEPT ![q] = [pc |-> "ensured", run |-> {r}]]
    BY <1>7 DEF EnsureRun, ActiveRuns
  <2>2. [matchRun[r] EXCEPT !.expired = FALSE] \in MatchRunRecord
    BY <1>1 DEF MatchRunRecord
  <2>3. [Unborn EXCEPT !.state = "queued", !.fingerprint = TRUE] \in MatchRunRecord
    BY NoneTyped DEF MatchRunRecord
  <2>4. matchRun' \in [Runs -> MatchRunRecord]
    BY <1>1, <2>1, <2>2, <2>3
  <2>5. request' \in [Requesters -> RequestRecord]
    BY <1>1, <2>1 DEF RequestRecord
  <2> QED BY <1>1, <1>2, <1>7, <2>4, <2>5 DEF EnsureRun
<1>8. ASSUME NEW q \in Requesters, StoreMatchKey(q) PROVE FingerprintTypeOK'
  <2>1. request' \in [Requesters -> RequestRecord]
    BY <1>1, <1>8 DEF StoreMatchKey, RequestRecord
  <2>2. held' \subseteq Keyed
    BY <1>1, <1>8 DEF StoreMatchKey
  <2> QED BY <1>1, <1>2, <1>8, <2>1, <2>2 DEF StoreMatchKey
<1>9. ASSUME NEW q \in Requesters, InsertFingerprintMatch(q) PROVE FingerprintTypeOK'
  <2>1. request' \in [Requesters -> RequestRecord]
    BY <1>1, <1>9 DEF InsertFingerprintMatch, RequestRecord
  <2>2. [NoMatch EXCEPT !.pc = "available", !.by = {q}] \in MatchJobRecord
    BY NoneTyped DEF MatchJobRecord
  <2>3. matchJob' \in [Runs -> MatchJobRecord]
    BY <1>1, <1>9, <2>2 DEF InsertFingerprintMatch
  <2> QED BY <1>1, <1>2, <1>9, <2>1, <2>3 DEF InsertFingerprintMatch
<1>10. ASSUME NEW q \in Requesters, RequestFails(q) PROVE FingerprintTypeOK'
  <2>1. request' \in [Requesters -> RequestRecord]
    BY <1>1, <1>10 DEF RequestFails, RequestRecord
  <2> QED BY <1>1, <1>2, <1>10, <2>1 DEF RequestFails
<1>11. ASSUME NEW r \in Runs, MatchWork(r) PROVE FingerprintTypeOK'
  <2>1. CASE CancelWithoutCredentials(r)
    BY <1>1, <1>2, <1>4, <2>1, NoneTyped DEF CancelWithoutCredentials
  <2>2. CASE StartMatch(r)
    <3>1. [matchJob[r] EXCEPT !.pc = "matching", !.fingerprint = matchRun[r].fingerprint] \in MatchJobRecord
      BY <1>1 DEF MatchJobRecord, MatchRunRecord
    <3>2. matchRun' \in [Runs -> MatchRunRecord]
      BY <1>1, <1>3, <2>2 DEF StartMatch
    <3> QED BY <1>1, <1>2, <1>4, <2>2, <3>1, <3>2 DEF StartMatch
  <2>3. CASE StartFails(r)
    BY <1>1, <1>2, <1>4, <2>3, RetriedTyped DEF StartFails
  <2>4. CASE CompleteMatch(r)
    <3>1. [matchJob[r] EXCEPT !.pc = "finishing"] \in MatchJobRecord
      BY <1>1 DEF MatchJobRecord
    <3>2. PICK ended : ended = [Row(r, "completed") EXCEPT !.fingerprint = FALSE,
                                  !.result = IF matchJob[r].fingerprint THEN "matched" ELSE "empty"]
      OBVIOUS
    <3>3. ended \in MatchRunRecord
      BY <1>3, <3>2 DEF MatchRunRecord
    <3>4. matchRun' \in [Runs -> MatchRunRecord]
      BY <1>1, <2>4, <3>2, <3>3 DEF CompleteMatch
    <3> QED BY <1>1, <1>2, <1>4, <2>4, <3>1, <3>4 DEF CompleteMatch
  <2>5. CASE MatchFails(r)
    <3>1. matchRun' \in [Runs -> MatchRunRecord]
      BY <1>1, <1>3, <2>5 DEF MatchFails
    <3> QED BY <1>1, <1>2, <1>4, <2>5, <3>1, RetriedTyped DEF MatchFails
  <2>6. CASE JobCompletes(r)
    BY <1>1, <1>2, <1>4, <2>6, NoneTyped DEF JobCompletes
  <2> QED BY <1>11, <2>1, <2>2, <2>3, <2>4, <2>5, <2>6 DEF MatchWork
<1>12. ASSUME NEW r \in Runs, MatchCrash(r) PROVE FingerprintTypeOK'
  BY <1>1, <1>2, <1>12, RetriedTyped DEF MatchCrash
<1>13. ASSUME NEW r \in Runs, HourPasses(r) PROVE FingerprintTypeOK'
  <2>1. [matchRun[r] EXCEPT !.expired = TRUE] \in MatchRunRecord
    BY <1>1 DEF MatchRunRecord
  <2>2. matchRun' \in [Runs -> MatchRunRecord]
    BY <1>1, <1>13, <2>1 DEF HourPasses
  <2> QED BY <1>1, <1>2, <1>13, <2>2 DEF HourPasses
<1>14. CASE UNCHANGED fingerprintVars
  BY <1>1, <1>2, <1>14 DEF fingerprintVars
<1> QED
  BY <1>5, <1>6, <1>7, <1>8, <1>9, <1>10, <1>11, <1>12, <1>13, <1>14 DEF FingerprintNext, RequestWork

-----------------------------------------------------------------------------
(* Artists' discographies *)

LEMMA InOrderExists ==
    ASSUME NEW m \in Nat, NEW S, S \subseteq 1..m
    PROVE  \E order \in [1..Cardinality(S) -> S] : \A i, j \in DOMAIN order : i < j => order[i] < order[j]
<1> DEFINE Ordered(T) == \E order \in [1..Cardinality(T) -> T] : \A i, j \in DOMAIN order : i < j => order[i] < order[j]
<1> DEFINE Bad == {T \in SUBSET S : ~Ordered(T)}
<1>1. SUFFICES ASSUME Bad # {} PROVE FALSE
  OBVIOUS
<1>2. IsFiniteSet(S)
  <2>1. IsFiniteSet(1..m)
    BY FS_Interval
  <2> QED BY <2>1, FS_Subset
<1>3. PICK T \in Bad : \A x \in T : T \ {x} \notin Bad
  <2>1. Bad \subseteq SUBSET S
    OBVIOUS
  <2> HIDE DEF Bad
  <2> QED BY <1>2, <1>1, <2>1, SmallestSet, Zenon
<1>4. T \in SUBSET S /\ ~Ordered(T) /\ IsFiniteSet(T)
  BY <1>2, <1>3, FS_Subset
<1>5. T # {}
  <2>1. ASSUME T = {} PROVE FALSE
    <3>1. Cardinality(T) = 0
      BY <2>1, FS_EmptySet
    <3>2. [i \in 1..0 |-> 0] \in [1..0 -> {}]
      OBVIOUS
    <3>3. \A i, j \in 1..0 : i < j => [n \in 1..0 |-> 0][i] < [n \in 1..0 |-> 0][j]
      OBVIOUS
    <3>4. Ordered(T)
      BY <2>1, <3>1, <3>2, <3>3
    <3> QED BY <1>4, <3>4
  <2> QED BY <2>1
<1>6. PICK last \in T : \A x \in T : x <= last
  BY <1>4, <1>5, LargestExists
<1>7. PICK rest : rest = T \ {last}
  OBVIOUS
<1>8. PICK n : n = Cardinality(rest)
  OBVIOUS
<1>9. n \in Nat /\ Cardinality(T) = n + 1
  <2>1. last \in T /\ IsFiniteSet(T) /\ Cardinality(T) \in Nat /\ Cardinality(T \ {last}) = Cardinality(T) - 1
    BY <1>4, <1>6, FS_RemoveElement, FS_CardinalityType
  <2>2. Cardinality(T \ {last}) \in Nat
    BY <2>1, FS_Subset, FS_CardinalityType
  <2> QED BY <1>7, <1>8, <2>1, <2>2
<1>10. PICK order \in [1..n -> rest] : \A i, j \in DOMAIN order : i < j => order[i] < order[j]
  BY <1>3, <1>4, <1>6, <1>7, <1>8
<1> DEFINE longer == [i \in 1..(n + 1) |-> IF i = n + 1 THEN last ELSE order[i]]
<1>11. longer \in [1..(n + 1) -> T]
  BY <1>6, <1>7, <1>9, <1>10
<1>12. ASSUME NEW i \in 1..(n + 1), NEW j \in 1..(n + 1), i < j PROVE longer[i] < longer[j]
  <2>1. i \in 1..n /\ longer[i] = order[i] /\ order[i] \in rest
    BY <1>9, <1>10, <1>12
  <2>2. CASE j = n + 1
    <3>1. PICK x : x = order[i]
      OBVIOUS
    <3>2. x \in T /\ x # last /\ T \subseteq 1..m
      BY <1>4, <1>7, <2>1, <3>1
    <3>3. x <= last /\ x \in Nat /\ last \in Nat
      BY <1>6, <3>2
    <3> QED BY <2>1, <2>2, <3>1, <3>2, <3>3
  <2>3. CASE j # n + 1
    <3>1. j \in 1..n /\ longer[j] = order[j]
      BY <1>9, <2>3
    <3> QED BY <1>10, <1>12, <2>1, <3>1
  <2> QED BY <2>2, <2>3
<1>13. Ordered(T)
  <2> HIDE DEF longer
  <2>1. DOMAIN longer = 1..Cardinality(T) /\ longer \in [1..Cardinality(T) -> T]
    BY <1>9, <1>11
  <2> QED BY <1>9, <1>12, <2>1
<1> QED BY <1>4, <1>13

LEMMA InOrderTyped ==
    ASSUME NEW m \in Nat, NEW S, S \subseteq 1..m
    PROVE  InOrder(S) \in [1..Cardinality(S) -> S]
BY InOrderExists DEF InOrder

\* When not all sources have a claim, some id was never given to a group.
LEMMA FreeGroup ==
    ASSUME claimOf \in [Sources -> Groups \cup {Nothing}], NEW free \in Sources, claimOf[free] = Nothing
    PROVE  NewGroup \in Groups
<1> USE CatalogAssumption
<1> DEFINE taken == {claimOf[s] : s \in Sources \ {free}}
<1>1. ASSUME \A g \in Groups : \E s \in Sources : claimOf[s] = g PROVE FALSE
  <2>1. Groups \subseteq taken
    BY <1>1
  <2>2. IsFiniteSet(Sources \ {free}) /\ Cardinality(Sources \ {free}) = Cardinality(Sources) - 1
    BY FS_RemoveElement
  <2>3. IsFiniteSet(taken) /\ Cardinality(taken) <= Cardinality(Sources \ {free})
    <3>1. PICK rest : rest = Sources \ {free}
      OBVIOUS
    <3>2. PICK claim : claim = [s \in rest |-> claimOf[s]]
      OBVIOUS
    <3>3. PICK image : image = {claim[s] : s \in rest}
      OBVIOUS
    <3>4. claim \in Surjection(rest, image)
      BY <3>2, <3>3 DEF Surjection
    <3>5. IsFiniteSet(image) /\ Cardinality(image) <= Cardinality(rest)
      BY <2>2, <3>1, <3>4, FS_Surjection
    <3>6. image = taken
      BY <3>1, <3>2, <3>3
    <3> QED BY <3>1, <3>5, <3>6
  <2>4. Cardinality(Groups) <= Cardinality(taken)
    BY <2>1, <2>3, FS_Subset
  <2>5. Cardinality(Sources) \in Nat /\ Cardinality(Groups) \in Nat /\ Cardinality(taken) \in Nat
    BY <2>3, FS_CardinalityType
  <2> HIDE DEF taken
  <2> QED BY <2>2, <2>3, <2>4, <2>5
<1>2. PICK g \in Groups : \A s \in Sources : claimOf[s] # g
  BY <1>1
<1> QED BY <1>2 DEF NewGroup

\* Where a synchronisation is: at a cluster while it walks over them, and in a group once it has
\* merged one. Every cluster has a source.
Walking == {"promote", "resolve", "merge", "activate", "coalesce", "list"}
OnItsWay(job) ==
    /\ job.next \in Nat \ {0} /\ \A i \in DOMAIN job.clusters : job.clusters[i].rep \in job.clusters[i].sources
    /\ job.pc \in Walking => job.next \in 1..Len(job.clusters)
    /\ job.pc \notin Walking => job.next = 1
    /\ job.pc = "activate" => job.into \in Groups
CatalogInv == CatalogTypeOK /\ \A a \in Artists : OnItsWay(sync[a])

TablesTyped ==
    /\ claimOf \in [Sources -> Groups \cup {Nothing}]
    /\ liveGroups \subseteq Groups /\ independent \subseteq Groups
    /\ promotion \in [Artists -> [Groups -> {"none", "active", "superseded"}]]
    /\ discography \in [Artists -> [Sources -> Relations]]
    /\ ingesting \in [Spine -> [ids : SUBSET Sources, into : Groups \cup {Nothing}]]
FaultsTyped == world \in Worlds /\ catalogFaults \in 0..world.maxFaults

LEMMA FaultsTypedStep ==
    ASSUME CatalogInv, Calm \/ \E kind \in {"error", "dropped", "crash"} : Struck(kind)
    PROVE  FaultsTyped'
<1>1. world.maxFaults \in Nat
  BY CatalogAssumption DEF CatalogInv, CatalogTypeOK
<1> QED BY <1>1 DEF CatalogInv, CatalogTypeOK, FaultsTyped, Calm, Struck

\* The job of one artist makes a step.
LEMMA SyncStep ==
    ASSUME CatalogInv, NEW a \in Artists, NEW job \in SyncRecord, OnItsWay(job), sync' = [sync EXCEPT ![a] = job],
           TablesTyped', FaultsTyped'
    PROVE  CatalogInv'
<1>1. sync' \in [Artists -> SyncRecord] /\ \A b \in Artists : sync'[b] = IF b = a THEN job ELSE sync[b]
  BY DEF CatalogInv, CatalogTypeOK
<1>2. ASSUME NEW b \in Artists PROVE OnItsWay(sync'[b])
  BY <1>1 DEF CatalogInv
<1>3. \A b \in Artists : OnItsWay(sync[b])'
  BY <1>2 DEF OnItsWay
<1>4. CatalogTypeOK'
  BY <1>1 DEF CatalogTypeOK, TablesTyped, FaultsTyped
<1> QED BY <1>3, <1>4 DEF CatalogInv

LEMMA SyncTyped ==
    ASSUME CatalogInv, NEW a \in Artists
    PROVE  /\ sync[a] \in SyncRecord /\ OnItsWay(sync[a])
           /\ TablesTyped
BY DEF CatalogInv, CatalogTypeOK, TablesTyped

LEMMA CurrentTyped ==
    ASSUME CatalogInv, NEW a \in Artists, sync[a].pc \in Walking
    PROVE  /\ Current(a) \in Clusters /\ Current(a).rep \in Current(a).sources /\ Current(a).sources \subseteq Sources
           /\ sync[a].next \in 1..Len(sync[a].clusters) /\ Len(sync[a].clusters) \in Nat
           /\ sync[a].clusters \in Seq(Clusters)
<1>1. sync[a] \in SyncRecord /\ OnItsWay(sync[a])
  BY SyncTyped
<1>2. PICK clusters, next : clusters = sync[a].clusters /\ next = sync[a].next
  OBVIOUS
<1>3. clusters \in Seq(Clusters) /\ next \in 1..Len(clusters) /\ \A i \in DOMAIN clusters : clusters[i].rep \in clusters[i].sources
  BY <1>1, <1>2 DEF SyncRecord, OnItsWay
<1>4. clusters[next] \in Clusters /\ next \in DOMAIN clusters /\ Len(clusters) \in Nat
  BY <1>3
<1>5. clusters[next].rep \in clusters[next].sources /\ clusters[next].sources \subseteq Sources
  BY <1>3, <1>4 DEF Clusters
<1> QED BY <1>2, <1>3, <1>4, <1>5 DEF Current

\* The loop over the clusters goes on after one of them was changed.
LEMMA SettledStep ==
    ASSUME CatalogInv, NEW a \in Artists, sync[a].pc \in {"promote", "resolve", "merge", "activate"},
           NEW state \in {"spine", "canonical", "promoted", "identity_conflict", "promotion_failed",
                          "unresolved_single_provider"},
           Settled(a, state), TablesTyped', FaultsTyped'
    PROVE  CatalogInv'
<1>1. sync[a] \in SyncRecord /\ OnItsWay(sync[a])
  BY SyncTyped
<1>2. PICK clusters, next : clusters = sync[a].clusters /\ next = sync[a].next
  OBVIOUS
<1>3. clusters \in Seq(Clusters) /\ next \in 1..Len(clusters) /\ \A i \in DOMAIN clusters : clusters[i].rep \in clusters[i].sources
  BY <1>1, <1>2 DEF SyncRecord, OnItsWay, Walking
<1>4. PICK cluster : cluster = [clusters[next] EXCEPT !.state = state]
  OBVIOUS
<1>5. clusters[next] \in Clusters /\ next \in DOMAIN clusters
  BY <1>3
<1>6. cluster \in Clusters /\ cluster.rep \in cluster.sources
  BY <1>3, <1>4, <1>5 DEF Clusters
<1>7. PICK changed : changed = [clusters EXCEPT ![next] = cluster]
  OBVIOUS
<1>8. changed \in Seq(Clusters) /\ Len(changed) = Len(clusters) /\ \A i \in DOMAIN changed : changed[i].rep \in changed[i].sources
  BY <1>3, <1>6, <1>7
<1>9. PICK job : job = [sync[a] EXCEPT !.clusters = changed, !.into = Nothing,
                                        !.next = IF next = Len(clusters) THEN 1 ELSE next + 1,
                                        !.pc = IF next = Len(clusters) THEN "coalesce" ELSE "promote"]
  OBVIOUS
<1>10. sync' = [sync EXCEPT ![a] = job]
  <2>1. sync \in [Artists -> SyncRecord]
    BY DEF CatalogInv, CatalogTypeOK
  <2>2. IsLast(a) <=> next = Len(clusters)
    BY <1>2 DEF IsLast
  <2> QED BY <1>2, <1>4, <1>7, <1>9, <2>1, <2>2 DEF Settled, SyncRecord
<1>11. /\ job.clusters = changed /\ job.into = Nothing /\ job.next = (IF next = Len(clusters) THEN 1 ELSE next + 1)
       /\ job.pc = (IF next = Len(clusters) THEN "coalesce" ELSE "promote") /\ job.orphans = sync[a].orphans
       /\ job = [pc |-> job.pc, clusters |-> job.clusters, next |-> job.next, into |-> job.into, orphans |-> job.orphans]
  BY <1>1, <1>9 DEF SyncRecord
<1>12. job.next \in 1..Len(changed) /\ Len(changed) \in Nat
  <2>1. Len(clusters) \in Nat
    BY <1>3
  <2>2. CASE next = Len(clusters)
    BY <1>3, <1>8, <1>11, <2>1, <2>2
  <2>3. CASE next # Len(clusters)
    BY <1>3, <1>8, <1>11, <2>1, <2>3
  <2> QED BY <2>2, <2>3
<1>13. job \in SyncRecord
  BY <1>1, <1>8, <1>11, <1>12 DEF SyncRecord
<1>14. OnItsWay(job)
  BY <1>8, <1>11, <1>12 DEF OnItsWay, Walking
<1> QED BY <1>10, <1>13, <1>14, SyncStep

\* A merge of records into a group, new or not.
LEMMA MergeTyped ==
    ASSUME TablesTyped, NEW ids \in SUBSET Sources, NEW owner \in Groups \cup {Nothing},
           ids # {} \/ owner # Nothing,
           Attachable(ids, owner), MergeInto(ids, Into(owner))
    PROVE  /\ Into(owner) \in Groups
           /\ claimOf' \in [Sources -> Groups \cup {Nothing}] /\ liveGroups' \subseteq Groups
           /\ discography' \in [Artists -> [Sources -> Relations]]
<1>1. PICK g : g = Into(owner)
  OBVIOUS
<1>2. g \in Groups
  <2>1. CASE owner = Nothing
    <3>1. PICK s \in Sources : s \in ids /\ claimOf[s] = Nothing
      BY <2>1 DEF Attachable
    <3>2. NewGroup \in Groups
      BY <3>1, FreeGroup DEF TablesTyped
    <3> QED BY <1>1, <2>1, <3>2 DEF Into
  <2>2. CASE owner # Nothing
    BY <1>1, <2>2 DEF Into
  <2> QED BY <2>1, <2>2
<1>3. claimOf' \in [Sources -> Groups \cup {Nothing}] /\ liveGroups' \subseteq Groups
  BY <1>1, <1>2 DEF MergeInto, TablesTyped
<1>4. ASSUME NEW a \in Artists, NEW s \in Sources PROVE [discography[a][s] EXCEPT !.target = g] \in Relations
  <2>1. discography[a][s] \in Relations
    BY DEF TablesTyped
  <2>2. PICK relation : relation = discography[a][s]
    OBVIOUS
  <2>3. [relation EXCEPT !.target = g] \in Relations
    BY <1>2, <2>1, <2>2 DEF Relations
  <2> QED BY <2>2, <2>3
<1>5. discography' \in [Artists -> [Sources -> Relations]]
  BY <1>1, <1>4 DEF MergeInto, TablesTyped
<1> QED BY <1>1, <1>2, <1>3, <1>5

LEMMA AtRestTyped == AtRest \in SyncRecord /\ OnItsWay(AtRest)
BY DEF AtRest, SyncRecord, OnItsWay, Walking

LEMMA UnresolvedTyped ==
    ASSUME NEW listing \in Listings
    PROVE  /\ Unresolved(listing) \in Clusters /\ Unresolved(listing).rep \in Unresolved(listing).sources
BY DEF Listings, Unresolved, Clusters

LEMMA CollectStep == ASSUME CatalogInv, NEW a \in Artists, Collect(a) PROVE CatalogInv'
<1>1. PICK catalog \in world.catalogs[a] :
        sync' = [sync EXCEPT ![a] = [AtRest EXCEPT !.pc = "supersede", !.clusters =
                   [i \in DOMAIN catalog |-> Unresolved(catalog[i])]]]
  BY DEF Collect
<1>2. catalog \in Seq(Listings)
  BY CatalogAssumption DEF CatalogInv, CatalogTypeOK
<1>3. PICK clusters : clusters = [i \in DOMAIN catalog |-> Unresolved(catalog[i])]
  OBVIOUS
<1>4. \A i \in DOMAIN catalog : catalog[i] \in Listings
  BY <1>2
<1>5. clusters \in Seq(Clusters) /\ \A i \in DOMAIN clusters : clusters[i].rep \in clusters[i].sources
  <2>1. DOMAIN catalog = 1..Len(catalog) /\ Len(catalog) \in Nat
    BY <1>2
  <2>2. \A i \in DOMAIN catalog : Unresolved(catalog[i]) \in Clusters /\ Unresolved(catalog[i]).rep \in Unresolved(catalog[i]).sources
    BY <1>4, UnresolvedTyped
  <2>3. clusters \in [1..Len(catalog) -> Clusters]
    BY <1>3, <2>1, <2>2
  <2> QED BY <1>3, <2>1, <2>2, <2>3
<1>6. PICK job : job = [AtRest EXCEPT !.pc = "supersede", !.clusters = clusters]
  OBVIOUS
<1>7. job = [pc |-> "supersede", clusters |-> clusters, next |-> 1, into |-> Nothing, orphans |-> {}]
  BY <1>6 DEF AtRest
<1>8. job \in SyncRecord /\ OnItsWay(job)
  BY <1>5, <1>7 DEF SyncRecord, OnItsWay, Walking
<1>9. TablesTyped' /\ FaultsTyped'
  BY SyncTyped, FaultsTypedStep DEF Collect, tables, TablesTyped
<1> QED BY <1>1, <1>3, <1>6, <1>8, <1>9, SyncStep

\* Only pc changes, to where no cluster is looked at or to the first one.
LEMMA PcStep ==
    ASSUME CatalogInv, NEW a \in Artists, NEW pc, sync' = [sync EXCEPT ![a].pc = pc], TablesTyped', FaultsTyped',
           \/ sync[a].pc \notin Walking /\ pc \in {"relist", "reactivate", "orphans", "delete"}
           \/ sync[a].pc \notin Walking /\ sync[a].clusters # <<>> /\ pc \in {"promote", "list"}
           \/ sync[a].pc \in Walking /\ pc \in {"resolve", "merge"}
    PROVE  CatalogInv'
<1>1. sync[a] \in SyncRecord /\ OnItsWay(sync[a])
  BY SyncTyped
<1>2. PICK job : job = [sync[a] EXCEPT !.pc = pc]
  OBVIOUS
<1>3. job.pc = pc /\ job.clusters = sync[a].clusters /\ job.next = sync[a].next /\ job.into = sync[a].into
  BY <1>1, <1>2 DEF SyncRecord
<1>4. job \in SyncRecord
  BY <1>1, <1>2 DEF SyncRecord, Walking
<1>5. sync[a].clusters # <<>> => 1 \in 1..Len(sync[a].clusters)
  <2>1. PICK clusters : clusters = sync[a].clusters
    OBVIOUS
  <2>2. clusters \in Seq(Clusters)
    BY <1>1, <2>1 DEF SyncRecord
  <2>3. clusters # <<>> => 1 \in 1..Len(clusters)
    BY <2>2
  <2> QED BY <2>1, <2>3
<1>6. OnItsWay(job)
  BY <1>1, <1>3, <1>5 DEF OnItsWay, Walking
<1>7. sync' = [sync EXCEPT ![a] = job]
  BY <1>2 DEF CatalogInv, CatalogTypeOK
<1> QED BY <1>4, <1>6, <1>7, SyncStep

LEMMA SupersedePromotionsStep == ASSUME CatalogInv, NEW a \in Artists, SupersedePromotions(a) PROVE CatalogInv'
<1>1. promotion' \in [Artists -> [Groups -> {"none", "active", "superseded"}]]
  <2>1. promotion \in [Artists -> [Groups -> {"none", "active", "superseded"}]]
    BY DEF CatalogInv, CatalogTypeOK
  <2>2. PICK row : row = [g \in Groups |-> IF promotion[a][g] = "none" THEN "none" ELSE "superseded"]
    OBVIOUS
  <2>3. row \in [Groups -> {"none", "active", "superseded"}]
    BY <2>2
  <2>4. promotion' = [promotion EXCEPT ![a] = row] \/ promotion' = promotion
    BY <2>2 DEF SupersedePromotions
  <2> QED BY <2>1, <2>3, <2>4
<1>2. TablesTyped'
  BY <1>1, SyncTyped DEF SupersedePromotions, TablesTyped
<1>3. FaultsTyped'
  BY FaultsTypedStep DEF SupersedePromotions
<1>4. CASE sync[a].clusters = <<>>
  <2>1. sync' = [sync EXCEPT ![a].pc = "relist"]
    BY <1>4 DEF SupersedePromotions
  <2> QED BY <1>2, <1>3, <2>1, PcStep DEF SupersedePromotions, Walking
<1>5. CASE sync[a].clusters # <<>>
  <2>1. sync' = [sync EXCEPT ![a].pc = "promote"]
    BY <1>5 DEF SupersedePromotions
  <2> QED BY <1>2, <1>3, <1>5, <2>1, PcStep DEF SupersedePromotions, Walking
<1> QED BY <1>4, <1>5

LEMMA ClassifyStep == ASSUME CatalogInv, NEW a \in Artists, Classify(a) PROVE CatalogInv'
<1>1. TablesTyped'
  BY SyncTyped DEF Classify, tables, TablesTyped
<1>2. FaultsTyped'
  BY FaultsTypedStep DEF Classify
<1>3. \/ \E state \in {"spine", "canonical", "identity_conflict", "promotion_failed", "unresolved_single_provider"} :
           Settled(a, state)
      \/ sync' = [sync EXCEPT ![a].pc = "resolve"]
  BY DEF Classify
<1>4. sync[a].pc = "promote"
  BY DEF Classify
<1> QED BY <1>1, <1>2, <1>3, <1>4, SettledStep, PcStep DEF Walking

LEMMA ResolvePromotedStep == ASSUME CatalogInv, NEW a \in Artists, ResolvePromoted(a) PROVE CatalogInv'
<1>1. TablesTyped'
  BY SyncTyped DEF ResolvePromoted, tables, TablesTyped
<1>2. FaultsTyped'
  BY FaultsTypedStep DEF ResolvePromoted
<1>3. sync[a].pc = "resolve"
  BY DEF ResolvePromoted
<1>4. CASE Settled(a, "promotion_failed")
  BY <1>1, <1>2, <1>3, <1>4, SettledStep
<1>5. CASE sync' = [sync EXCEPT ![a].pc = "merge"]
  BY <1>1, <1>2, <1>3, <1>5, PcStep DEF Walking
<1>6. ASSUME NEW g \in Owners(Current(a).sources), sync' = [sync EXCEPT ![a].pc = "merge", ![a].into = g]
      PROVE  CatalogInv'
  <2>1. g \in Groups
    BY <1>3, <1>6, CurrentTyped DEF Owners, Walking, CatalogInv, CatalogTypeOK
  <2>2. sync[a] \in SyncRecord /\ OnItsWay(sync[a])
    BY SyncTyped
  <2>3. PICK job : job = [sync[a] EXCEPT !.pc = "merge", !.into = g]
    OBVIOUS
  <2>4. job \in SyncRecord /\ job.pc = "merge" /\ job.clusters = sync[a].clusters /\ job.next = sync[a].next
    BY <2>1, <2>2, <2>3 DEF SyncRecord
  <2>5. OnItsWay(job)
    BY <1>3, <2>2, <2>4 DEF OnItsWay, Walking
  <2>6. sync' = [sync EXCEPT ![a] = job]
    BY <1>6, <2>3 DEF CatalogInv, CatalogTypeOK
  <2> QED BY <1>1, <1>2, <2>4, <2>5, <2>6, SyncStep
<1> QED BY <1>4, <1>5, <1>6 DEF ResolvePromoted

LEMMA MergePromotedStep == ASSUME CatalogInv, NEW a \in Artists, MergePromoted(a) PROVE CatalogInv'
<1>1. PICK ids, owner : ids = Current(a).sources /\ owner = sync[a].into
  OBVIOUS
<1>2. sync[a].pc = "merge" /\ UNCHANGED <<independent, promotion, ingesting>>
  BY DEF MergePromoted
<1>3. ids \subseteq Sources /\ ids # {} /\ owner \in Groups \cup {Nothing}
  BY <1>1, <1>2, CurrentTyped, SyncTyped DEF Walking, SyncRecord
<1>4. FaultsTyped'
  BY FaultsTypedStep DEF MergePromoted
<1>5. CASE /\ Attachable(ids, owner) /\ MergeInto(ids, Into(owner))
           /\ sync' = [sync EXCEPT ![a].pc = "activate", ![a].into = Into(owner)]
  <2>1. /\ Into(owner) \in Groups
        /\ claimOf' \in [Sources -> Groups \cup {Nothing}] /\ liveGroups' \subseteq Groups
        /\ discography' \in [Artists -> [Sources -> Relations]]
    BY <1>3, <1>5, SyncTyped, MergeTyped
  <2>2. TablesTyped'
    BY <1>2, <2>1, SyncTyped DEF TablesTyped
  <2>3. sync[a] \in SyncRecord /\ OnItsWay(sync[a])
    BY SyncTyped
  <2>4. PICK g : g = Into(owner)
    OBVIOUS
  <2>5. PICK job : job = [sync[a] EXCEPT !.pc = "activate", !.into = g]
    OBVIOUS
  <2>6. job \in SyncRecord /\ job.pc = "activate" /\ job.into = g /\ job.clusters = sync[a].clusters /\ job.next = sync[a].next
    BY <2>1, <2>3, <2>4, <2>5 DEF SyncRecord
  <2>7. OnItsWay(job)
    BY <1>2, <2>1, <2>3, <2>4, <2>6 DEF OnItsWay, Walking
  <2>8. sync' = [sync EXCEPT ![a] = job]
    BY <1>5, <2>4, <2>5 DEF CatalogInv, CatalogTypeOK
  <2> QED BY <1>4, <2>2, <2>6, <2>7, <2>8, SyncStep
<1>6. CASE Settled(a, "promotion_failed") /\ UNCHANGED <<claimOf, liveGroups, discography>>
  <2>1. TablesTyped'
    BY <1>2, <1>6, SyncTyped DEF TablesTyped
  <2> QED BY <1>2, <1>4, <1>6, <2>1, SettledStep
<1> QED BY <1>1, <1>5, <1>6 DEF MergePromoted

LEMMA ActivatePromotionStep == ASSUME CatalogInv, NEW a \in Artists, ActivatePromotion(a) PROVE CatalogInv'
<1>1. sync[a].pc = "activate" /\ sync[a].into \in Groups
  BY SyncTyped DEF ActivatePromotion, OnItsWay
<1>2. promotion' \in [Artists -> [Groups -> {"none", "active", "superseded"}]]
  <2>1. promotion \in [Artists -> [Groups -> {"none", "active", "superseded"}]]
    BY DEF CatalogInv, CatalogTypeOK
  <2>2. PICK g \in Groups : g = sync[a].into
    BY <1>1
  <2>3. PICK row : row = [promotion[a] EXCEPT ![g] = "active"]
    OBVIOUS
  <2>4. row \in [Groups -> {"none", "active", "superseded"}]
    BY <2>1, <2>3
  <2>5. promotion' = [promotion EXCEPT ![a] = row] \/ promotion' = promotion
    BY <2>2, <2>3 DEF ActivatePromotion
  <2> QED BY <2>1, <2>4, <2>5
<1>3. TablesTyped'
  BY <1>2, SyncTyped DEF ActivatePromotion, TablesTyped
<1>4. FaultsTyped'
  BY FaultsTypedStep DEF ActivatePromotion
<1>5. \E state \in {"promoted", "promotion_failed"} : Settled(a, state)
  BY DEF ActivatePromotion
<1> QED BY <1>1, <1>3, <1>4, <1>5, SettledStep

LEMMA TargetedTyped ==
    ASSUME TablesTyped, NEW cluster \in Clusters
    PROVE  /\ Targeted(cluster) \in Clusters
           /\ Targeted(cluster).rep = cluster.rep /\ Targeted(cluster).sources = cluster.sources
<1>1. PICK targets : targets = ClusterTargets(cluster)
  OBVIOUS
<1>2. targets \subseteq Groups
  BY <1>1 DEF ClusterTargets, TablesTyped
<1>3. PICK preferred : preferred = targets \cap independent
  OBVIOUS
<1>4. CASE Cardinality(targets) = 1
  <2>1. targets # {}
    BY <1>4, FS_EmptySet
  <2>2. PICK g : g = CHOOSE group \in targets : TRUE
    OBVIOUS
  <2>3. g \in Groups
    BY <1>2, <2>1, <2>2
  <2>4. Targeted(cluster) = [cluster EXCEPT !.target = g]
    BY <1>1, <1>4, <2>2 DEF Targeted
  <2> QED BY <2>3, <2>4 DEF Clusters
<1>5. CASE Cardinality(targets) # 1 /\ cluster.bridged /\ Cardinality(preferred) = 1
  <2>1. preferred # {}
    BY <1>5, FS_EmptySet
  <2>2. PICK g : g = CHOOSE group \in preferred : TRUE
    OBVIOUS
  <2>3. g \in Groups
    BY <1>2, <1>3, <2>1, <2>2
  <2>4. PICK others \in SUBSET Groups : others = targets \ preferred
    BY <1>2
  <2>5. Targeted(cluster) = [cluster EXCEPT !.target = g, !.alternates = others]
    BY <1>1, <1>3, <1>5, <2>2, <2>4 DEF Targeted
  <2> QED BY <2>3, <2>5 DEF Clusters
<1>6. CASE Cardinality(targets) # 1 /\ ~(cluster.bridged /\ Cardinality(preferred) = 1)
  BY <1>1, <1>3, <1>6 DEF Targeted
<1> QED BY <1>4, <1>5, <1>6

LEMMA CoalescedTyped ==
    ASSUME NEW clusters \in Seq(Clusters), \A i \in DOMAIN clusters : clusters[i].rep \in clusters[i].sources
    PROVE  /\ Coalesced(clusters) \in Seq(Clusters)
           /\ \A i \in DOMAIN Coalesced(clusters) : Coalesced(clusters)[i].rep \in Coalesced(clusters)[i].sources
<1> DEFINE sameAs(i) == {j \in DOMAIN clusters : clusters[j].target = clusters[i].target}
           firsts == {i \in DOMAIN clusters : clusters[i].target = Nothing \/ \A j \in sameAs(i) : i <= j}
           joined(i) == IF clusters[i].target # Nothing /\ \E j \in sameAs(i) : IsSpine(clusters[j])
                        THEN [clusters[i] EXCEPT !.state = "spine"] ELSE clusters[i]
<1>1. Len(clusters) \in Nat /\ DOMAIN clusters = 1..Len(clusters)
  OBVIOUS
<1>2. firsts \subseteq 1..Len(clusters)
  BY <1>1
<1>3. ASSUME NEW i \in 1..Len(clusters) PROVE joined(i) \in Clusters /\ joined(i).rep \in joined(i).sources
  <2>1. PICK cluster : cluster = clusters[i]
    OBVIOUS
  <2>2. cluster \in Clusters /\ cluster.rep \in cluster.sources
    BY <1>1, <2>1
  <2>3. [cluster EXCEPT !.state = "spine"] \in Clusters
    BY <2>2 DEF Clusters
  <2>4. [cluster EXCEPT !.state = "spine"].rep = cluster.rep /\ [cluster EXCEPT !.state = "spine"].sources = cluster.sources
    BY <2>2 DEF Clusters
  <2>5. joined(i) = [cluster EXCEPT !.state = "spine"] \/ joined(i) = cluster
    BY <2>1
  <2> HIDE DEF joined
  <2> QED BY <2>2, <2>3, <2>4, <2>5
<1>4. Coalesced(clusters) = [k \in 1..Cardinality(firsts) |-> joined(InOrder(firsts)[k])]
  BY DEF Coalesced
<1>5. InOrder(firsts) \in [1..Cardinality(firsts) -> firsts]
  BY <1>1, <1>2, InOrderTyped
<1>6. Cardinality(firsts) \in Nat
  <2>1. PICK length \in Nat : length = Len(clusters)
    BY <1>1
  <2>2. IsFiniteSet(1..length)
    BY FS_Interval
  <2> HIDE DEF firsts
  <2> QED BY <1>2, <2>1, <2>2, FS_Subset, FS_CardinalityType
<1> HIDE DEF firsts, joined
<1>7. PICK n \in Nat : n = Cardinality(firsts)
  BY <1>6
<1>8. PICK order : order = InOrder(firsts)
  OBVIOUS
<1>9. \A k \in 1..n : order[k] \in 1..Len(clusters)
  BY <1>2, <1>5, <1>7, <1>8
<1>10. PICK result : result = [k \in 1..n |-> joined(order[k])]
  OBVIOUS
<1>11. Coalesced(clusters) = result
  BY <1>4, <1>7, <1>8, <1>10
<1>12. result \in [1..n -> Clusters] /\ \A k \in 1..n : result[k].rep \in result[k].sources
  BY <1>3, <1>9, <1>10
<1> QED BY <1>11, <1>12

LEMMA CoalesceClusterStep == ASSUME CatalogInv, NEW a \in Artists, CoalesceCluster(a) PROVE CatalogInv'
<1>1. sync[a] \in SyncRecord /\ OnItsWay(sync[a]) /\ sync[a].pc = "coalesce" /\ TablesTyped
  BY SyncTyped DEF CoalesceCluster
<1>2. PICK clusters, next : clusters = sync[a].clusters /\ next = sync[a].next
  OBVIOUS
<1>3. clusters \in Seq(Clusters) /\ next \in 1..Len(clusters) /\ \A i \in DOMAIN clusters : clusters[i].rep \in clusters[i].sources
  BY <1>1, <1>2 DEF SyncRecord, OnItsWay, Walking
<1>4. PICK cluster : cluster = Targeted(clusters[next])
  OBVIOUS
<1>5. clusters[next] \in Clusters /\ next \in DOMAIN clusters
  BY <1>3
<1>6. cluster \in Clusters /\ cluster.rep \in cluster.sources
  BY <1>1, <1>3, <1>4, <1>5, TargetedTyped
<1>7. PICK changed : changed = [clusters EXCEPT ![next] = cluster]
  OBVIOUS
<1>8. changed \in Seq(Clusters) /\ Len(changed) = Len(clusters) /\ \A i \in DOMAIN changed : changed[i].rep \in changed[i].sources
  BY <1>3, <1>6, <1>7
<1>9. PICK final : final = Coalesced(changed)
  OBVIOUS
<1>10. final \in Seq(Clusters) /\ \A i \in DOMAIN final : final[i].rep \in final[i].sources
  BY <1>8, <1>9, CoalescedTyped
<1>11. PICK last \in BOOLEAN : last = (next = Len(clusters))
  OBVIOUS
<1>12. PICK job : job = [sync[a] EXCEPT !.clusters = IF last THEN final ELSE changed,
                                        !.next = IF last THEN 1 ELSE next + 1,
                                        !.pc = IF last THEN "relist" ELSE "coalesce"]
  OBVIOUS
<1>13. sync' = [sync EXCEPT ![a] = job]
  <2>1. sync \in [Artists -> SyncRecord]
    BY DEF CatalogInv, CatalogTypeOK
  <2>2. IsLast(a) <=> last
    BY <1>2, <1>11 DEF IsLast
  <2>3. [sync[a].clusters EXCEPT ![sync[a].next] = Targeted(@)] = changed
    BY <1>2, <1>4, <1>7
  <2>4. sync' = [sync EXCEPT ![a].clusters = IF IsLast(a) THEN Coalesced(changed) ELSE changed,
                             ![a].next = IF IsLast(a) THEN 1 ELSE @ + 1,
                             ![a].pc = IF IsLast(a) THEN "relist" ELSE "coalesce"]
    BY <2>3 DEF CoalesceCluster
  <2> QED BY <1>2, <1>9, <1>12, <2>1, <2>2, <2>4 DEF SyncRecord
<1>14. /\ job.clusters = (IF last THEN final ELSE changed) /\ job.next = (IF last THEN 1 ELSE next + 1)
       /\ job.pc = (IF last THEN "relist" ELSE "coalesce") /\ job.into = sync[a].into /\ job.orphans = sync[a].orphans
       /\ job = [pc |-> job.pc, clusters |-> job.clusters, next |-> job.next, into |-> job.into, orphans |-> job.orphans]
  BY <1>1, <1>12 DEF SyncRecord
<1>15. job.next \in Nat \ {0} /\ (~last => job.next \in 1..Len(changed))
  <2>1. Len(clusters) \in Nat
    BY <1>3
  <2>2. CASE last
    BY <1>14, <2>2
  <2>3. CASE ~last
    <3>1. next # Len(clusters) /\ job.next = next + 1
      BY <1>11, <1>14, <2>3
    <3>2. next + 1 \in 1..Len(changed)
      BY <1>3, <1>8, <2>1, <3>1
    <3> QED BY <3>1, <3>2
  <2> QED BY <2>2, <2>3
<1>16. job \in SyncRecord
  BY <1>1, <1>8, <1>10, <1>14, <1>15 DEF SyncRecord
<1>17. OnItsWay(job)
  BY <1>8, <1>10, <1>14, <1>15 DEF OnItsWay, Walking
<1>18. TablesTyped' /\ FaultsTyped'
  BY <1>1, FaultsTypedStep DEF CoalesceCluster, tables, TablesTyped
<1> QED BY <1>13, <1>16, <1>17, <1>18, SyncStep

LEMMA SupersedeListingStep == ASSUME CatalogInv, NEW a \in Artists, SupersedeListing(a) PROVE CatalogInv'
<1>1. discography' \in [Artists -> [Sources -> Relations]]
  <2>1. discography \in [Artists -> [Sources -> Relations]]
    BY DEF CatalogInv, CatalogTypeOK
  <2>2. ASSUME NEW s \in Sources PROVE [discography[a][s] EXCEPT !.state = "superseded"] \in Relations
    <3>1. PICK relation \in Relations : relation = discography[a][s]
      BY <2>1
    <3>2. [relation EXCEPT !.state = "superseded"] \in Relations
      BY DEF Relations
    <3> QED BY <3>1, <3>2
  <2>3. PICK row : row = [s \in Sources |-> IF discography[a][s].state = "accepted"
                                            THEN [discography[a][s] EXCEPT !.state = "superseded"] ELSE discography[a][s]]
    OBVIOUS
  <2>4. row \in [Sources -> Relations]
    BY <2>1, <2>2, <2>3
  <2>5. discography' = [discography EXCEPT ![a] = row]
    BY <2>3 DEF SupersedeListing
  <2> QED BY <2>1, <2>4, <2>5
<1>2. TablesTyped'
  BY <1>1, SyncTyped DEF SupersedeListing, TablesTyped
<1>3. FaultsTyped'
  BY FaultsTypedStep DEF SupersedeListing
<1>4. CASE sync[a].clusters = <<>>
  <2>1. sync' = [sync EXCEPT ![a].pc = "reactivate"]
    BY <1>4 DEF SupersedeListing
  <2> QED BY <1>2, <1>3, <2>1, PcStep DEF SupersedeListing, Walking
<1>5. CASE sync[a].clusters # <<>>
  <2>1. sync' = [sync EXCEPT ![a].pc = "list"]
    BY <1>5 DEF SupersedeListing
  <2> QED BY <1>2, <1>3, <1>5, <2>1, PcStep DEF SupersedeListing, Walking
<1> QED BY <1>4, <1>5

LEMMA ListClusterStep == ASSUME CatalogInv, NEW a \in Artists, ListCluster(a) PROVE CatalogInv'
<1>1. sync[a] \in SyncRecord /\ OnItsWay(sync[a]) /\ sync[a].pc = "list" /\ TablesTyped
  BY SyncTyped DEF ListCluster
<1>2. Current(a) \in Clusters /\ sync[a].next \in 1..Len(sync[a].clusters) /\ Len(sync[a].clusters) \in Nat
  BY <1>1, CurrentTyped DEF Walking
<1>3. discography' \in [Artists -> [Sources -> Relations]]
  <2>1. discography \in [Artists -> [Sources -> Relations]]
    BY DEF CatalogInv, CatalogTypeOK
  <2>2. PICK cluster \in Clusters : cluster = Current(a)
    BY <1>2
  <2>3. PICK relation : relation = [state |-> "accepted", target |-> cluster.target, alternates |-> cluster.alternates]
    OBVIOUS
  <2>4. relation \in Relations /\ cluster.rep \in Sources
    BY <2>3 DEF Relations, Clusters
  <2>5. discography' = [discography EXCEPT ![a][cluster.rep] = relation] \/ discography' = discography
    BY <2>2, <2>3 DEF ListCluster
  <2> QED BY <2>1, <2>4, <2>5
<1>4. TablesTyped'
  BY <1>1, <1>3 DEF ListCluster, TablesTyped
<1>5. FaultsTyped'
  BY FaultsTypedStep DEF ListCluster
<1>6. PICK next, length : next = sync[a].next /\ length = Len(sync[a].clusters)
  OBVIOUS
<1>7. PICK job : job = [sync[a] EXCEPT !.next = IF next = length THEN 1 ELSE next + 1,
                                       !.pc = IF next = length THEN "reactivate" ELSE "list"]
  OBVIOUS
<1>8. sync' = [sync EXCEPT ![a] = job]
  BY <1>6, <1>7 DEF ListCluster, IsLast, CatalogInv, CatalogTypeOK, SyncRecord
<1>9. /\ job.next = (IF next = length THEN 1 ELSE next + 1) /\ job.pc = (IF next = length THEN "reactivate" ELSE "list")
      /\ job.clusters = sync[a].clusters /\ job.into = sync[a].into /\ job.orphans = sync[a].orphans
      /\ job = [pc |-> job.pc, clusters |-> job.clusters, next |-> job.next, into |-> job.into, orphans |-> job.orphans]
  BY <1>1, <1>7 DEF SyncRecord
<1>10. job.next \in Nat \ {0} /\ (next # length => job.next \in 1..length) /\ length = Len(job.clusters)
  BY <1>2, <1>6, <1>9
<1>11. job \in SyncRecord
  BY <1>1, <1>9, <1>10 DEF SyncRecord
<1>12. OnItsWay(job)
  BY <1>1, <1>9, <1>10 DEF OnItsWay, Walking
<1> QED BY <1>4, <1>5, <1>8, <1>11, <1>12, SyncStep

LEMMA ReactivatePromotionsStep == ASSUME CatalogInv, NEW a \in Artists, ReactivatePromotions(a) PROVE CatalogInv'
<1>1. promotion' \in [Artists -> [Groups -> {"none", "active", "superseded"}]]
  <2>1. promotion \in [Artists -> [Groups -> {"none", "active", "superseded"}]]
    BY DEF CatalogInv, CatalogTypeOK
  <2>2. PICK row : row = [g \in Groups |-> IF promotion[a][g] # "none" /\ g \in TargetsOf(a) \cup AlternatesOf(a)
                                           THEN "active" ELSE promotion[a][g]]
    OBVIOUS
  <2>3. row \in [Groups -> {"none", "active", "superseded"}]
    BY <2>1, <2>2
  <2>4. promotion' = [promotion EXCEPT ![a] = row]
    BY <2>2 DEF ReactivatePromotions
  <2> QED BY <2>1, <2>3, <2>4
<1>2. TablesTyped'
  BY <1>1, SyncTyped DEF ReactivatePromotions, TablesTyped
<1>3. FaultsTyped'
  BY FaultsTypedStep DEF ReactivatePromotions
<1>4. sync' = [sync EXCEPT ![a].pc = "orphans"] /\ sync[a].pc = "reactivate"
  BY DEF ReactivatePromotions
<1> QED BY <1>2, <1>3, <1>4, PcStep DEF Walking

LEMMA SnapshotOrphansStep == ASSUME CatalogInv, NEW a \in Artists, SnapshotOrphans(a) PROVE CatalogInv'
<1>1. sync[a] \in SyncRecord /\ OnItsWay(sync[a]) /\ sync[a].pc = "orphans"
  BY SyncTyped DEF SnapshotOrphans
<1>2. PICK orphans : orphans = Orphans(a)
  OBVIOUS
<1>3. orphans \subseteq Groups
  BY <1>2 DEF Orphans
<1>4. PICK job : job = [sync[a] EXCEPT !.orphans = orphans, !.pc = "delete"]
  OBVIOUS
<1>5. job \in SyncRecord /\ job.pc = "delete" /\ job.clusters = sync[a].clusters /\ job.next = sync[a].next
  BY <1>1, <1>3, <1>4 DEF SyncRecord
<1>6. OnItsWay(job)
  BY <1>1, <1>5 DEF OnItsWay, Walking
<1>7. sync' = [sync EXCEPT ![a] = job]
  BY <1>2, <1>4 DEF SnapshotOrphans, CatalogInv, CatalogTypeOK
<1>8. TablesTyped' /\ FaultsTyped'
  BY SyncTyped, FaultsTypedStep DEF SnapshotOrphans, tables, TablesTyped
<1> QED BY <1>5, <1>6, <1>7, <1>8, SyncStep

LEMMA DeleteOrphansStep == ASSUME CatalogInv, NEW a \in Artists, DeleteOrphans(a) PROVE CatalogInv'
<1>1. TablesTyped' /\ FaultsTyped'
  BY SyncTyped, FaultsTypedStep DEF DeleteOrphans, TablesTyped
<1>2. sync' = [sync EXCEPT ![a] = AtRest]
  BY DEF DeleteOrphans
<1> QED BY <1>1, <1>2, AtRestTyped, SyncStep

LEMMA GiveUpSyncStep == ASSUME CatalogInv, NEW a \in Artists, GiveUpSync(a) PROVE CatalogInv'
<1>1. TablesTyped' /\ FaultsTyped'
  BY SyncTyped, FaultsTypedStep DEF GiveUpSync, tables, TablesTyped
<1>2. sync' = [sync EXCEPT ![a] = AtRest]
  BY DEF GiveUpSync
<1> QED BY <1>1, <1>2, AtRestTyped, SyncStep

\* No synchronisation makes a step.
LEMMA IngestStep == ASSUME CatalogInv, UNCHANGED sync, TablesTyped', FaultsTyped' PROVE CatalogInv'
<1>1. \A b \in Artists : OnItsWay(sync[b])'
  BY DEF CatalogInv, OnItsWay
<1> QED BY <1>1 DEF CatalogInv, CatalogTypeOK, TablesTyped, FaultsTyped

LEMMA ResolveIngestedStep == ASSUME CatalogInv, NEW m \in Spine, ResolveIngested(m) PROVE CatalogInv'
<1>1. PICK ids \in world.identities[m] : \E owner \in Owners(ids) \cup {Nothing} :
        ingesting' = [ingesting EXCEPT ![m] = [ids |-> ids, into |-> owner]]
  BY DEF ResolveIngested
<1>2. ids \subseteq Sources
  BY CatalogAssumption DEF CatalogInv, CatalogTypeOK
<1>3. Owners(ids) \subseteq Groups
  BY <1>2 DEF Owners, CatalogInv, CatalogTypeOK
<1>4. ingesting' \in [Spine -> [ids : SUBSET Sources, into : Groups \cup {Nothing}]]
  BY <1>1, <1>2, <1>3 DEF CatalogInv, CatalogTypeOK
<1>5. TablesTyped' /\ FaultsTyped'
  BY <1>4, SyncTyped, FaultsTypedStep DEF ResolveIngested, tables, TablesTyped, CatalogInv, CatalogTypeOK
<1> QED BY <1>5, IngestStep DEF ResolveIngested

LEMMA MergeIngestedStep == ASSUME CatalogInv, NEW m \in Spine, MergeIngested(m) PROVE CatalogInv'
<1>1. TablesTyped
  BY DEF CatalogInv, CatalogTypeOK, TablesTyped
<1>2. PICK ids, owner : ids = ingesting[m].ids /\ owner = ingesting[m].into
  OBVIOUS
<1>3. ids \subseteq Sources /\ owner \in Groups \cup {Nothing} /\ (ids # {} \/ owner # Nothing)
  <2>1. PICK job : job = ingesting[m]
    OBVIOUS
  <2>2. job \in [ids : SUBSET Sources, into : Groups \cup {Nothing}]
    BY <1>1, <2>1 DEF TablesTyped
  <2>3. job # [ids |-> {}, into |-> Nothing]
    BY <2>1 DEF MergeIngested, NotIngesting
  <2> QED BY <1>2, <2>1, <2>2, <2>3
<1>4. ingesting' \in [Spine -> [ids : SUBSET Sources, into : Groups \cup {Nothing}]]
  BY <1>1 DEF MergeIngested, NotIngesting, TablesTyped
<1>5. CASE Attachable(ids, owner) /\ MergeInto(ids, Into(owner)) /\ independent' = independent \cup {Into(owner)}
  <2>1. /\ Into(owner) \in Groups
        /\ claimOf' \in [Sources -> Groups \cup {Nothing}] /\ liveGroups' \subseteq Groups
        /\ discography' \in [Artists -> [Sources -> Relations]]
    BY <1>1, <1>3, <1>5, MergeTyped
  <2>2. independent' \subseteq Groups
    BY <1>1, <1>5, <2>1 DEF TablesTyped
  <2> QED BY <1>1, <1>4, <2>1, <2>2, FaultsTypedStep, IngestStep DEF MergeIngested, TablesTyped
<1>6. CASE UNCHANGED <<claimOf, liveGroups, independent, discography>>
  BY <1>1, <1>4, <1>6, FaultsTypedStep, IngestStep DEF MergeIngested, TablesTyped
<1> QED BY <1>2, <1>5, <1>6 DEF MergeIngested

LEMMA InitCatalogInv == CatalogInit => CatalogInv
<1>1. SUFFICES ASSUME CatalogInit PROVE CatalogInv
  OBVIOUS
<1>2. world \in Worlds /\ catalogFaults = 0 /\ world.maxFaults \in Nat
  BY <1>1, CatalogAssumption DEF CatalogInit
<1>3. Unlisted \in Relations
  BY DEF Unlisted, Relations
<1>4. NotIngesting \in [ids : SUBSET Sources, into : Groups \cup {Nothing}]
  BY DEF NotIngesting
<1>5. CatalogTypeOK
  <2>1. sync \in [Artists -> SyncRecord]
    BY <1>1, AtRestTyped DEF CatalogInit
  <2>2. discography \in [Artists -> [Sources -> Relations]] /\ ingesting \in [Spine -> [ids : SUBSET Sources, into : Groups \cup {Nothing}]]
    BY <1>1, <1>3, <1>4 DEF CatalogInit
  <2> QED BY <1>1, <1>2, <2>1, <2>2 DEF CatalogInit, CatalogTypeOK
<1>6. \A a \in Artists : sync[a] = AtRest
  BY <1>1 DEF CatalogInit
<1> QED BY <1>5, <1>6, AtRestTyped DEF CatalogInv

LEMMA InductiveCatalogInv == CatalogInv /\ [CatalogNext]_catalogVars => CatalogInv'
<1>1. SUFFICES ASSUME CatalogInv, [CatalogNext]_catalogVars PROVE CatalogInv'
  OBVIOUS
<1>2. ASSUME NEW a \in Artists, SyncArtist(a) PROVE CatalogInv'
  BY <1>1, <1>2, CollectStep, SupersedePromotionsStep, ClassifyStep, ResolvePromotedStep, MergePromotedStep,
     ActivatePromotionStep, CoalesceClusterStep, SupersedeListingStep, ListClusterStep, ReactivatePromotionsStep,
     SnapshotOrphansStep, DeleteOrphansStep DEF SyncArtist
<1>3. ASSUME NEW a \in Artists, GiveUpSync(a) PROVE CatalogInv'
  BY <1>1, <1>3, GiveUpSyncStep
<1>4. ASSUME NEW m \in Spine, ResolveIngested(m) \/ MergeIngested(m) PROVE CatalogInv'
  BY <1>1, <1>4, ResolveIngestedStep, MergeIngestedStep
<1>5. CASE UNCHANGED catalogVars
  <2>1. TablesTyped' /\ FaultsTyped'
    BY <1>1, <1>5 DEF catalogVars, CatalogInv, CatalogTypeOK, TablesTyped, FaultsTyped
  <2> QED BY <1>1, <1>5, <2>1, IngestStep DEF catalogVars
<1> QED BY <1>1, <1>2, <1>3, <1>4, <1>5 DEF CatalogNext

\* The types of the catalogue, and where a synchronisation is while it walks over clusters
\* (musiccatalog/service.go SyncArtist).
THEOREM CatalogTypeSafety == CatalogSpec => []CatalogTypeOK
<1>1. CatalogInv => CatalogTypeOK
  BY DEF CatalogInv
<1> QED BY <1>1, InitCatalogInv, InductiveCatalogInv, PTL DEF CatalogSpec

-----------------------------------------------------------------------------
(* All components *)

\* A behaviour of all components is one of each.
LEMMA Composition ==
    ProgressSpec => /\ Spec /\ AccessSpec /\ ImageSpec /\ RefreshSpec /\ DrainSpec /\ GateSpec /\ FingerprintSpec
                    /\ CatalogSpec /\ Movie!Spec /\ [](subject \in Subjects)
<1>1. ProgressInit => /\ Init /\ AccessInit /\ ImageInit /\ RefreshInit /\ DrainInit /\ GateInit /\ FingerprintInit
                      /\ CatalogInit /\ Movie!Init /\ subject \in Subjects
  BY DEF ProgressInit
<1>2. [ProgressNext]_allVars =>
        /\ [Next]_vars /\ [AccessNext]_accessVars /\ [ImageNext]_imageVars /\ [RefreshNext]_refreshVars
        /\ [DrainNext]_drainVars /\ [GateNext]_gateVars /\ [FingerprintNext]_fingerprintVars
        /\ [CatalogNext]_catalogVars /\ [Movie!Next]_(Movie!vars) /\ UNCHANGED subject
  <2>1. UNCHANGED movieVars => UNCHANGED Movie!vars
    BY DEF movieVars, Movie!vars, Movie!committed
  <2> QED BY <2>1 DEF ProgressNext, allVars
<1>3. subject \in Subjects /\ UNCHANGED subject => (subject \in Subjects)'
  OBVIOUS
<1> QED
  BY <1>1, <1>2, <1>3, PTL
  DEF ProgressSpec, Spec, AccessSpec, ImageSpec, RefreshSpec, DrainSpec, GateSpec, FingerprintSpec, CatalogSpec,
      Movie!Spec

\* Every variable of every component has its type, in any behaviour of them all.
THEOREM ProgressTypeSafety == ProgressSpec => []AllTypeOK
<1>1. AccessSpec => []AccessTypeOK
  BY InitAccessInv, InductiveAccessInv, AccessInvTyped, PTL DEF AccessSpec
<1>2. RefreshSpec => []RefreshTypeOK
  BY RefreshTypeInit, RefreshTypeStep, PTL DEF RefreshSpec
<1>3. DrainSpec => []DrainTypeOK
  <2>1. DrainInv => DrainTypeOK
    BY DEF DrainInv
  <2> QED BY <2>1, DrainInvInit, DrainInvStep, PTL DEF DrainSpec
<1>4. GateSpec => []GateTypeOK
  <2>1. GateInv => GateTypeOK
    BY DEF GateInv
  <2> QED BY <2>1, InitGateInv, InductiveGateInv, PTL DEF GateSpec
<1>5. FingerprintSpec => []FingerprintTypeOK
  BY FingerprintTypeInit, FingerprintTypeStep, PTL DEF FingerprintSpec
<1>6. Movie!Spec => []Movie!TypeOK
  <2>1. Movie!MovieAssumption /\ Movie!EvidenceAssumption
    BY DEF Movie!MovieAssumption, Movie!EvidenceAssumption
  <2> QED BY <2>1, Movie!TypeSafety
<1> QED
  BY <1>1, <1>2, <1>3, <1>4, <1>5, <1>6, Composition, RunTypeSafety, ImageTypeSafety, CatalogTypeSafety, PTL
  DEF AllTypeOK
==============================================================================
