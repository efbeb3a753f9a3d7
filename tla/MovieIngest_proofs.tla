------------------------- MODULE MovieIngest_proofs -------------------------
(***************************************************************************)
(* Evidence never crosses movies, for any number of ingestions, titles and  *)
(* observations. Claims are resolved without a lock, so the proof rests on   *)
(* what an open merge has written: the claims it holds are free or its own   *)
(* movie's, and no two merges hold the same one.                             *)
(***************************************************************************)
EXTENDS MovieIngest, SequenceTheorems, TLAPS

Locking == {"lock"} \cup InMerge
Active == {"record", "resolve", "create"} \cup Locking

\* An attempt under way works on a recorded observation, and then for a movie ...
Observing(j) ==
    /\ job[j].pc \in Active => job[j].obs \in 1..clock
    /\ job[j].pc \in Locking => job[j].entity \in Entities

\* ... attaches it only after it has written every claim of it ...
AllAttached(j) ==
    /\ job[j].pc \in InMerge => job[j].next <= Len(List(j)) + 1
    /\ job[j].pc \in {"attach", "load", "commit"} => job[j].next > Len(List(j))

\* ... and has written only claims that are free or belong to its movie.
HeldAreOwn(j) == \A c \in Held(j) : claims[c] \in {None, job[j].entity}

\* Observations are those the clock has counted.
Recorded == \A o \in Observations : records[o].state # "none" => o \in 1..clock

HeldAreDisjoint == \A j, k \in Jobs : j # k => Held(j) \cap Held(k) = {}

IInv ==
    /\ TypeOK
    /\ \A j \in Jobs : Observing(j) /\ AllAttached(j) /\ HeldAreOwn(j)
    /\ Recorded /\ HeldAreDisjoint
    /\ EvidenceOwnsItsClaims

-----------------------------------------------------------------------------
LEMMA InitIInv == Init => IInv
<1> SUFFICES ASSUME Init PROVE IInv
  OBVIOUS
<1> USE MovieAssumption
<1>1. TypeOK
  <2>1. records \in [Observations -> Record]
    BY DEF Init, NoRecord, Record
  <2>2. entities \in [Entities -> EntityRecord] /\ document \in [Entities -> DocumentRecord]
    BY DEF Init, EntityRecord, DocumentRecord
  <2>3. job \in [Jobs -> JobRecord]
    BY DEF Init, Fresh, JobRecord
  <2>4. reader \in [Readers -> ReaderRecord]
    BY DEF Init, IdleReader, ReaderRecord
  <2>5. clock \in 0..MaxObservations /\ conflicts \subseteq Jobs
    BY DEF Init
  <2>6. /\ claims \in [Claims -> Entities \cup {None}] /\ cache \in [Entities -> Nat]
        /\ run \in [Jobs -> {"none", "working", "failed", "completed"}]
    BY DEF Init
  <2> QED BY <2>1, <2>2, <2>3, <2>4, <2>5, <2>6 DEF TypeOK
<1>2. \A j \in Jobs : job[j].pc = "idle"
  BY DEF Init, Fresh
<1>3. \A j \in Jobs : Held(j) = {}
  BY <1>2 DEF Held, InMerge
<1>4. EvidenceOwnsItsClaims /\ Recorded
  BY DEF Init, EvidenceOwnsItsClaims, Recorded, NoRecord
<1> QED BY <1>1, <1>2, <1>3, <1>4 DEF IInv, Observing, AllAttached, HeldAreOwn, HeldAreDisjoint, Active, Locking, InMerge

\* The candidates of an observation are claims.
LEMMA CandidatesAreClaims ==
    ASSUME TypeOK, NEW o \in Observations
    PROVE  records[o].candidates \in Seq(Claims)
<1>1. records[o].candidates \in Candidates \cup {<<>>}
  BY DEF TypeOK, Record
<1>2. Candidates \subseteq Seq(Claims)
  BY MovieAssumption DEF Candidates
<1>3. <<>> \in Seq(Claims)
  OBVIOUS
<1> QED BY <1>1, <1>2, <1>3

\* What a step of one ingestion must show: the other ingestions keep what they hold.
LEMMA LocalStep ==
    ASSUME IInv, TypeOK', NEW j \in Jobs,
           \A k \in Jobs \ {j} : job'[k] = job[k],
           clock <= clock',
           \A o \in 1..clock : records'[o].candidates = records[o].candidates,
           Recorded', Observing(j)', AllAttached(j)', HeldAreOwn(j)',
           \A k \in Jobs \ {j} : Held(j)' \cap Held(k) = {},
           claims' = claims,
           \A o \in Observations : records'[o].entity # None =>
               records'[o].entity = records[o].entity /\ records'[o].candidates = records[o].candidates
    PROVE  IInv'
<1>0. /\ TypeOK /\ \A k \in Jobs : Observing(k) /\ AllAttached(k) /\ HeldAreOwn(k)
      /\ HeldAreDisjoint /\ EvidenceOwnsItsClaims
  BY DEF IInv
<1>1. ASSUME NEW k \in Jobs \ {j}
      PROVE  /\ Held(k)' = Held(k)
             /\ Observing(k)' /\ AllAttached(k)' /\ HeldAreOwn(k)'
  <2>1. clock \in Nat /\ clock' \in Nat
    BY <1>0, MovieAssumption DEF TypeOK
  <2>2. job'[k] = job[k] /\ Observing(k) /\ AllAttached(k) /\ HeldAreOwn(k)
    BY <1>0
  <2>3. job[k].pc \in Active => List(k)' = List(k)
    BY <2>2 DEF Observing, List, Locking, InMerge
  <2>4. Held(k)' = Held(k)
    <3>1. CASE job[k].pc \in InMerge
      <4>1. List(k)' = List(k)
        BY <2>3, <3>1 DEF Active, Locking
      <4> QED BY <2>2, <3>1, <4>1 DEF Held
    <3>2. CASE job[k].pc \notin InMerge
      BY <2>2, <3>2 DEF Held
    <3> QED BY <3>1, <3>2
  <2>5. Observing(k)'
    BY <2>1, <2>2 DEF Observing, Locking, InMerge
  <2>6. AllAttached(k)'
    BY <2>2, <2>3 DEF AllAttached, Active, Locking, InMerge
  <2> QED BY <2>2, <2>4, <2>5, <2>6 DEF HeldAreOwn
<1>2. \A k \in Jobs : Observing(k)' /\ AllAttached(k)' /\ HeldAreOwn(k)'
  BY <1>1
<1>3. HeldAreDisjoint'
  <2> SUFFICES ASSUME NEW a \in Jobs, NEW b \in Jobs, a # b PROVE Held(a)' \cap Held(b)' = {}
    BY DEF HeldAreDisjoint
  <2>1. CASE a = j
    BY <1>1, <2>1
  <2>2. CASE b = j
    BY <1>1, <2>2
  <2>3. CASE a # j /\ b # j
    BY <1>0, <1>1, <2>3 DEF HeldAreDisjoint
  <2> QED BY <2>1, <2>2, <2>3
<1>4. EvidenceOwnsItsClaims'
  BY <1>0 DEF EvidenceOwnsItsClaims
<1> QED BY <1>2, <1>3, <1>4 DEF IInv

\* A step that leaves the job outside the part of its merge that writes claims.
LEMMA OutsideStep ==
    ASSUME IInv, TypeOK', NEW j \in Jobs,
           \A k \in Jobs \ {j} : job'[k] = job[k],
           UNCHANGED <<clock, records, claims>>,
           job'[j].pc \notin InMerge,
           job'[j].pc \in Active => job'[j].obs \in 1..clock,
           job'[j].pc = "lock" => job'[j].entity \in Entities
    PROVE  IInv'
<1>1. Held(j)' = {}
  BY DEF Held
<1>2. Observing(j)' /\ AllAttached(j)' /\ HeldAreOwn(j)'
  BY <1>1 DEF Observing, AllAttached, HeldAreOwn, InMerge, Locking
<1>3. clock \in Nat
  BY MovieAssumption DEF IInv, TypeOK
<1>4. Recorded'
  BY DEF IInv, Recorded
<1> QED BY <1>1, <1>2, <1>3, <1>4, LocalStep

\* An attempt that starts or is given up has nothing.
LEMMA FreshTyped ==
    ASSUME NEW a \in 0..MaxAttempts, NEW pc \in {"idle", "collect", "cache", "failed", "done"}
    PROVE  Fresh(a, pc) \in JobRecord /\ Fresh(a, pc).pc = pc
BY MovieAssumption DEF Fresh, JobRecord

LEMMA FreshStep ==
    ASSUME IInv, NEW j \in Jobs, NEW a \in 0..MaxAttempts, NEW pc \in {"idle", "collect", "failed", "done"},
           job' = [job EXCEPT ![j] = Fresh(a, pc)],
           UNCHANGED <<clock, committed, conflicts, reader>>,
           cache' \in [Entities -> Nat],
           run' \in [Jobs -> {"none", "working", "failed", "completed"}]
    PROVE  IInv'
<1>0. TypeOK
  BY DEF IInv
<1>1. Fresh(a, pc) \in JobRecord /\ Fresh(a, pc).pc = pc
  BY FreshTyped
<1>2. job' \in [Jobs -> JobRecord] /\ job'[j] = Fresh(a, pc) /\ \A k \in Jobs \ {j} : job'[k] = job[k]
  BY <1>0, <1>1 DEF TypeOK
<1>3. TypeOK'
  BY <1>0, <1>2 DEF TypeOK, committed
<1> QED BY <1>1, <1>2, <1>3, OutsideStep DEF committed, Active, Locking, InMerge

LEMMA EndStep ==
    ASSUME IInv, NEW j \in Jobs, Start(j) \/ CacheDetail(j) \/ CacheError(j) \/ Abort(j) \/ Crash(j)
    PROVE  IInv'
<1>0. /\ TypeOK /\ job \in [Jobs -> JobRecord] /\ job[j] \in JobRecord /\ job[j].attempt \in 0..MaxAttempts
      /\ run \in [Jobs -> {"none", "working", "failed", "completed"}] /\ cache \in [Entities -> Nat]
  BY DEF IInv, TypeOK, JobRecord
<1>1. CASE Start(j)
  <2>1. job[j].attempt + 1 \in 0..MaxAttempts
    BY <1>0, <1>1, MovieAssumption DEF Start
  <2> QED BY <1>0, <1>1, <2>1, FreshStep DEF Start
<1>2. CASE CacheDetail(j)
  <2>1. job[j].version \in Nat
    BY <1>0 DEF JobRecord
  <2>2. cache' \in [Entities -> Nat]
    BY <1>0, <1>2, <2>1 DEF CacheDetail
  <2> QED BY <1>0, <1>2, <2>2, FreshStep DEF CacheDetail
<1>3. CASE CacheError(j)
  BY <1>0, <1>3, FreshStep DEF CacheError
<1>4. CASE Abort(j)
  BY <1>0, <1>4, FreshStep DEF Abort
<1>5. CASE Crash(j)
  BY <1>0, <1>5, FreshStep DEF Crash
<1> QED BY <1>1, <1>2, <1>3, <1>4, <1>5

\* A step that only changes the job keeps the types when the new job is a job.
LEMMA JobTyped ==
    ASSUME TypeOK, NEW j \in Jobs, NEW r \in JobRecord, job' = [job EXCEPT ![j] = r],
           UNCHANGED <<clock, committed, cache, reader>>,
           conflicts' \subseteq Jobs,
           run' \in [Jobs -> {"none", "working", "failed", "completed"}]
    PROVE  TypeOK' /\ job'[j] = r /\ \A k \in Jobs \ {j} : job'[k] = job[k]
<1>1. job' \in [Jobs -> JobRecord] /\ job'[j] = r /\ \A k \in Jobs \ {j} : job'[k] = job[k]
  BY DEF TypeOK
<1> QED BY <1>1 DEF TypeOK, committed

LEMMA ResolveStep ==
    ASSUME IInv, NEW j \in Jobs,
           Reuse(j) \/ ResolveClaim(j) \/ RecordConflict(j) \/ ChooseEntity(j) \/ CreateEntity(j)
    PROVE  IInv'
<1>0. /\ TypeOK /\ job \in [Jobs -> JobRecord] /\ job[j] \in JobRecord /\ Observing(j)
      /\ run \in [Jobs -> {"none", "working", "failed", "completed"}] /\ conflicts \subseteq Jobs
      /\ claims \in [Claims -> Entities \cup {None}] /\ clock \in 0..MaxObservations
      /\ records \in [Observations -> Record]
  BY DEF IInv, TypeOK
<1>1. CASE Reuse(j)
  <2>1. PICK o \in Observed(TitleOf[j]) : job' = [job EXCEPT ![j].pc = "record", ![j].obs = o]
    BY <1>1 DEF Reuse
  <2>2. o \in Observations /\ records[o].state # "none"
    BY DEF Observed
  <2> DEFINE r == [job[j] EXCEPT !.pc = "record", !.obs = o]
  <2>3. r \in JobRecord
    BY <1>0, <2>2 DEF JobRecord
  <2>4. job' = [job EXCEPT ![j] = r]
    BY <1>0, <2>1
  <2>5. r.pc = "record" /\ r.obs = o
    BY <1>0 DEF JobRecord
  <2> HIDE DEF r
  <2>6. TypeOK' /\ job'[j] = r /\ \A k \in Jobs \ {j} : job'[k] = job[k]
    BY <1>0, <1>1, <2>3, <2>4, JobTyped DEF Reuse
  <2>7. o \in 1..clock
    BY <2>2 DEF IInv, Recorded
  <2> QED BY <1>1, <2>5, <2>6, <2>7, OutsideStep DEF Reuse, committed, InMerge
<1>2. CASE ResolveClaim(j)
  <2> DEFINE c == List(j)[job[j].next]
             r == [job[j] EXCEPT !.next = @ + 1, !.found = @ \cup ({claims[c]} \ {None})]
  <2>1. job[j].obs \in 1..clock
    BY <1>0, <1>2 DEF ResolveClaim, Observing, Active, Locking, InMerge
  <2>2. job[j].obs \in Observations
    BY <1>0, <2>1, MovieAssumption DEF Observations
  <2>3. List(j) \in Seq(Claims)
    BY <1>0, <2>2, CandidatesAreClaims DEF List
  <2>4. c \in Claims
    BY <1>0, <1>2, <2>3 DEF ResolveClaim, JobRecord
  <2>5. job' = [job EXCEPT ![j] = r]
    BY <1>0, <1>2 DEF ResolveClaim
  <2> HIDE DEF c
  <2>6. claims[c] \in Entities \cup {None}
    BY <1>0, <2>4
  <2>7. r \in JobRecord /\ r.pc = job[j].pc /\ r.obs = job[j].obs
    <3>1. job[j].found \cup ({claims[c]} \ {None}) \in SUBSET Entities
      BY <1>0, <2>6 DEF JobRecord
    <3>2. job[j].next + 1 \in Nat \ {0}
      BY <1>0 DEF JobRecord
    <3> QED BY <1>0, <3>1, <3>2 DEF JobRecord
  <2> HIDE DEF r
  <2>8. TypeOK' /\ job'[j] = r /\ \A k \in Jobs \ {j} : job'[k] = job[k]
    BY <1>0, <1>2, <2>5, <2>7, JobTyped DEF ResolveClaim
  <2> QED BY <1>2, <2>1, <2>7, <2>8, OutsideStep DEF ResolveClaim, committed, InMerge
<1>3. CASE RecordConflict(j)
  <2> DEFINE r == [job[j] EXCEPT !.pc = "failed"]
  <2>1. r \in JobRecord /\ r.pc = "failed" /\ job' = [job EXCEPT ![j] = r]
    BY <1>0, <1>3 DEF RecordConflict, To, JobRecord
  <2> HIDE DEF r
  <2>2. TypeOK' /\ job'[j] = r /\ \A k \in Jobs \ {j} : job'[k] = job[k]
    BY <1>0, <1>3, <2>1, JobTyped DEF RecordConflict
  <2> QED BY <1>3, <2>1, <2>2, OutsideStep DEF RecordConflict, committed, InMerge, Locking, Active
<1>4. CASE ChooseEntity(j)
  <2>1. job[j].obs \in 1..clock
    BY <1>0, <1>4 DEF ChooseEntity, Resolved, Observing, Active, Locking, InMerge
  <2>2. PICK r \in JobRecord : /\ job' = [job EXCEPT ![j] = r]
                               /\ r.pc \in {"create", "lock"} /\ r.obs = job[j].obs
                               /\ r.pc = "lock" => r.entity \in Entities
    <3>1. CASE job' = [job EXCEPT ![j].pc = "create"]
      <4> DEFINE r == [job[j] EXCEPT !.pc = "create"]
      <4>1. r \in JobRecord /\ r.pc = "create" /\ r.obs = job[j].obs /\ job' = [job EXCEPT ![j] = r]
        BY <1>0, <3>1 DEF JobRecord
      <4> QED BY <4>1
    <3>2. ASSUME NEW e \in Entities, job' = [job EXCEPT ![j].pc = "lock", ![j].entity = e]
          PROVE \E r \in JobRecord : /\ job' = [job EXCEPT ![j] = r]
                                     /\ r.pc \in {"create", "lock"} /\ r.obs = job[j].obs
                                     /\ r.pc = "lock" => r.entity \in Entities
      <4> DEFINE r == [job[j] EXCEPT !.pc = "lock", !.entity = e]
      <4>1. r \in JobRecord /\ r.pc = "lock" /\ r.obs = job[j].obs /\ r.entity = e
        BY <1>0 DEF JobRecord
      <4>2. job' = [job EXCEPT ![j] = r]
        BY <1>0, <3>2
      <4> QED BY <4>1, <4>2
    <3> QED BY <1>4, <3>1, <3>2 DEF ChooseEntity, To
  <2>3. TypeOK' /\ job'[j] = r /\ \A k \in Jobs \ {j} : job'[k] = job[k]
    BY <1>0, <1>4, <2>2, JobTyped DEF ChooseEntity
  <2> QED BY <1>4, <2>1, <2>2, <2>3, OutsideStep DEF ChooseEntity, committed, InMerge
<1>5. CASE CreateEntity(j)
  <2>1. job[j].obs \in 1..clock
    BY <1>0, <1>5 DEF CreateEntity, Observing, Active, Locking, InMerge
  <2>2. PICK n \in 0..Cardinality(Jobs), e \in Entities :
          job' = [job EXCEPT ![j].pc = "lock", ![j].entity = e,
                             ![j].slug = [base |-> SlugOf[TitleOf[j]], suffix |-> n]]
    BY <1>5 DEF CreateEntity
  <2>3. [base |-> SlugOf[TitleOf[j]], suffix |-> n] \in SlugRow
    BY MovieAssumption DEF SlugRow
  <2> DEFINE r == [job[j] EXCEPT !.pc = "lock", !.entity = e, !.slug = [base |-> SlugOf[TitleOf[j]], suffix |-> n]]
  <2>4. r \in JobRecord /\ r.pc = "lock" /\ r.obs = job[j].obs /\ r.entity = e
    BY <1>0, <2>3 DEF JobRecord
  <2>5. job' = [job EXCEPT ![j] = r]
    BY <1>0, <2>2
  <2> HIDE DEF r
  <2>6. TypeOK' /\ job'[j] = r /\ \A k \in Jobs \ {j} : job'[k] = job[k]
    BY <1>0, <1>5, <2>4, <2>5, JobTyped DEF CreateEntity
  <2> QED BY <1>5, <2>1, <2>4, <2>6, OutsideStep DEF CreateEntity, committed, InMerge
<1> QED BY <1>1, <1>2, <1>3, <1>4, <1>5

-----------------------------------------------------------------------------
(* Evidence *)

LEMMA ObserveStep ==
    ASSUME IInv, NEW j \in Jobs, Observe(j)
    PROVE  IInv'
<1>0. /\ TypeOK /\ job \in [Jobs -> JobRecord] /\ job[j] \in JobRecord /\ Recorded
      /\ clock \in 0..MaxObservations /\ records \in [Observations -> Record]
  BY DEF IInv, TypeOK
<1>1. clock + 1 \in Observations /\ clock' = clock + 1 /\ clock' \in 0..MaxObservations
  BY <1>0, MovieAssumption DEF Observe, Observations
<1>2. PICK list \in Evidence[TitleOf[j]] :
        records' = [records EXCEPT ![clock + 1] =
            [state |-> "observed", title |-> TitleOf[j], candidates |-> list, entity |-> None]]
  BY DEF Observe
<1> DEFINE row == [state |-> "observed", title |-> TitleOf[j], candidates |-> list, entity |-> None]
           r == [job[j] EXCEPT !.pc = "record", !.obs = clock + 1]
<1>3. list \in Candidates /\ TitleOf[j] \in Titles
  BY MovieAssumption DEF Candidates
<1>4. row \in Record /\ row.entity = None
  BY <1>3 DEF Record
<1>5. r \in JobRecord /\ r.pc = "record" /\ r.obs = clock + 1
  BY <1>0, <1>1 DEF JobRecord
<1>6. job' = [job EXCEPT ![j] = r]
  BY <1>0 DEF Observe
<1> HIDE DEF row, r
<1>7. /\ job' \in [Jobs -> JobRecord] /\ job'[j] = r /\ \A k \in Jobs \ {j} : job'[k] = job[k]
  BY <1>0, <1>5, <1>6
<1>8. /\ records' \in [Observations -> Record] /\ records'[clock + 1] = row
      /\ \A o \in Observations \ {clock + 1} : records'[o] = records[o]
  BY <1>0, <1>1, <1>2, <1>4 DEF row
<1>9. TypeOK'
  BY <1>0, <1>1, <1>7, <1>8 DEF TypeOK, Observe
<1>10. Held(j)' = {}
  BY <1>5, <1>7 DEF Held, InMerge
<1>11. Observing(j)' /\ AllAttached(j)' /\ HeldAreOwn(j)'
  BY <1>0, <1>1, <1>5, <1>7, <1>10 DEF Observing, AllAttached, HeldAreOwn, Locking, InMerge
<1>12. Recorded'
  BY <1>0, <1>1, <1>8 DEF Recorded
<1>13. \A o \in 1..clock : records'[o].candidates = records[o].candidates
  BY <1>0, <1>1, <1>8, MovieAssumption DEF Observations
<1>14. \A o \in Observations : records'[o].entity # None =>
            records'[o].entity = records[o].entity /\ records'[o].candidates = records[o].candidates
  BY <1>4, <1>8
<1>15. claims' = claims /\ clock <= clock'
  BY <1>0, <1>1 DEF Observe
<1> QED BY <1>7, <1>9, <1>10, <1>11, <1>12, <1>13, <1>14, <1>15, LocalStep

LEMMA RecordNormalizedStep ==
    ASSUME IInv, NEW j \in Jobs, RecordNormalized(j)
    PROVE  IInv'
<1>0. /\ TypeOK /\ job \in [Jobs -> JobRecord] /\ job[j] \in JobRecord /\ Recorded /\ Observing(j)
      /\ clock \in 0..MaxObservations /\ records \in [Observations -> Record]
  BY DEF IInv, TypeOK
<1> DEFINE n == job[j].obs
           row == [records[n] EXCEPT !.state = "normalized"]
           r == [job[j] EXCEPT !.pc = "resolve"]
<1>1. n \in 1..clock /\ n \in Observations
  BY <1>0, MovieAssumption DEF RecordNormalized, Observing, Active, Observations, Locking, InMerge
<1> HIDE DEF n
<1>2. /\ row \in Record /\ row.entity = records[n].entity /\ row.candidates = records[n].candidates
  BY <1>0, <1>1 DEF Record
<1>3. r \in JobRecord /\ r.pc = "resolve" /\ r.obs = n
  BY <1>0 DEF JobRecord, n
<1>4. job' = [job EXCEPT ![j] = r] /\ records' = [records EXCEPT ![n] = row]
  BY <1>0, <1>1 DEF RecordNormalized, To, n
<1> HIDE DEF row, r
<1>5. /\ job' \in [Jobs -> JobRecord] /\ job'[j] = r /\ \A k \in Jobs \ {j} : job'[k] = job[k]
  BY <1>0, <1>3, <1>4
<1>6. /\ records' \in [Observations -> Record] /\ records'[n] = row
      /\ \A o \in Observations \ {n} : records'[o] = records[o]
  BY <1>0, <1>1, <1>2, <1>4
<1>7. TypeOK'
  BY <1>0, <1>5, <1>6 DEF TypeOK, RecordNormalized
<1>8. Held(j)' = {}
  BY <1>3, <1>5 DEF Held, InMerge
<1>9. clock' = clock /\ claims' = claims /\ clock <= clock'
  BY <1>0 DEF RecordNormalized
<1>10. Observing(j)' /\ AllAttached(j)' /\ HeldAreOwn(j)'
  BY <1>1, <1>3, <1>5, <1>8, <1>9 DEF Observing, AllAttached, HeldAreOwn, Locking, InMerge
<1>11. Recorded'
  BY <1>0, <1>1, <1>6, <1>9 DEF Recorded
<1>12. \A o \in Observations : /\ records'[o].candidates = records[o].candidates
                               /\ records'[o].entity = records[o].entity
  BY <1>2, <1>6
<1>13. \A o \in 1..clock : o \in Observations
  BY <1>0, MovieAssumption DEF Observations
<1> QED BY <1>5, <1>7, <1>8, <1>9, <1>10, <1>11, <1>12, <1>13, LocalStep

-----------------------------------------------------------------------------
(* The merge *)

\* A step of an open merge: it may hold one more claim, that nobody else holds.
LEMMA MergeStep ==
    ASSUME IInv, NEW j \in Jobs, NEW r \in JobRecord, job' = [job EXCEPT ![j] = r],
           UNCHANGED <<clock, committed, cache, conflicts, run, reader>>,
           r.pc \in InMerge, job[j].pc \in Locking, r.obs = job[j].obs, r.entity = job[j].entity,
           r.next <= Len(List(j)) + 1,
           r.pc \in {"attach", "load", "commit"} => r.next > Len(List(j)),
           \A i \in 1..(r.next - 1) : LET c == List(j)[i] IN
               \/ c \in Held(j)
               \/ claims[c] \in {None, job[j].entity} /\ \A k \in Jobs \ {j} : c \notin Held(k)
    PROVE  IInv'
<1>0. /\ TypeOK /\ Observing(j) /\ HeldAreOwn(j) /\ HeldAreDisjoint /\ Recorded
      /\ clock \in 0..MaxObservations /\ conflicts \subseteq Jobs
      /\ run \in [Jobs -> {"none", "working", "failed", "completed"}]
  BY DEF IInv, TypeOK
<1>1. TypeOK' /\ job'[j] = r /\ \A k \in Jobs \ {j} : job'[k] = job[k]
  BY <1>0, JobTyped
<1>2. /\ clock' = clock /\ clock <= clock' /\ claims' = claims /\ records' = records
  BY <1>0, MovieAssumption DEF committed
<1>3. List(j)' = List(j)
  BY <1>1, <1>2 DEF List
<1>4. Held(j)' = {List(j)[i] : i \in 1..(r.next - 1)}
  BY <1>1, <1>3 DEF Held
<1>5. \A k \in Jobs \ {j} : Held(j)' \cap Held(k) = {}
  BY <1>0, <1>4 DEF HeldAreDisjoint
<1>6. HeldAreOwn(j)'
  BY <1>0, <1>1, <1>2, <1>4 DEF HeldAreOwn
<1>7. Observing(j)' /\ AllAttached(j)' /\ Recorded'
  BY <1>0, <1>1, <1>2, <1>3 DEF Observing, AllAttached, Recorded, Active, Locking, InMerge
<1> QED BY <1>1, <1>2, <1>5, <1>6, <1>7, LocalStep

LEMMA LockEntityStep ==
    ASSUME IInv, NEW j \in Jobs, LockEntity(j)
    PROVE  IInv'
<1>0. job \in [Jobs -> JobRecord] /\ job[j] \in JobRecord /\ job[j].pc = "lock"
  BY DEF IInv, TypeOK, LockEntity
<1> DEFINE r == [job[j] EXCEPT !.pc = "claims", !.next = 1]
<1>1. /\ r \in JobRecord /\ r.pc = "claims" /\ r.next = 1
      /\ r.obs = job[j].obs /\ r.entity = job[j].entity
  <2>1. 1 \in Nat \ {0}
    OBVIOUS
  <2>2. r \in JobRecord
    BY <1>0, <2>1 DEF JobRecord
  <2> QED BY <1>0, <2>2 DEF JobRecord
<1>2. job' = [job EXCEPT ![j] = r]
  BY <1>0 DEF LockEntity
<1> HIDE DEF r
<1>3. 1..(r.next - 1) = {} /\ r.next <= Len(List(j)) + 1
  <2>1. job[j].obs \in Observations /\ TypeOK
    BY <1>0, MovieAssumption DEF IInv, TypeOK, Observing, Active, Locking, Observations
  <2>2. List(j) \in Seq(Claims)
    BY <2>1, CandidatesAreClaims DEF List
  <2>3. Len(List(j)) \in Nat
    BY <2>2
  <2> QED BY <1>1, <2>3
<1>4. UNCHANGED <<clock, committed, cache, conflicts, run, reader>>
  BY DEF LockEntity
<1> QED BY <1>0, <1>1, <1>2, <1>3, <1>4, MergeStep DEF Active, Locking, InMerge

LEMMA AttachClaimStep ==
    ASSUME IInv, NEW j \in Jobs, AttachClaim(j)
    PROVE  IInv'
<1> DEFINE c == List(j)[job[j].next]
<1>0. /\ TypeOK /\ job \in [Jobs -> JobRecord] /\ job[j] \in JobRecord /\ job[j].pc = "claims"
      /\ run \in [Jobs -> {"none", "working", "failed", "completed"}]
      /\ cache \in [Entities -> Nat] /\ job[j].attempt \in 0..MaxAttempts
  BY DEF IInv, TypeOK, AttachClaim, JobRecord
<1>1. CASE claims[c] \in {None, job[j].entity}
  <2> DEFINE r == [job[j] EXCEPT !.next = @ + 1]
  <2>1. job[j].next + 1 \in Nat \ {0} /\ job[j].next \in Nat
    BY <1>0 DEF JobRecord
  <2>2. /\ r \in JobRecord /\ r.pc = "claims" /\ r.next = job[j].next + 1
        /\ r.obs = job[j].obs /\ r.entity = job[j].entity
    BY <1>0, <2>1 DEF JobRecord
  <2>3. job' = [job EXCEPT ![j] = r] /\ run' = run
    BY <1>0, <1>1 DEF AttachClaim
  <2> HIDE DEF r
  <2>4. \A k \in Jobs \ {j} : c \notin Held(k)
    BY DEF AttachClaim
  <2>5. Held(j) = {List(j)[i] : i \in 1..(job[j].next - 1)}
    BY <1>0 DEF Held, InMerge
  <2>6. ASSUME NEW i \in 1..(r.next - 1)
        PROVE  i = job[j].next \/ List(j)[i] \in Held(j)
    BY <2>1, <2>2, <2>5
  <2>7. UNCHANGED <<clock, committed, cache, conflicts, run, reader>>
    BY <2>3 DEF AttachClaim
  <2>8. r.next <= Len(List(j)) + 1
    <3>1. job[j].obs \in Observations
      BY <1>0, MovieAssumption DEF IInv, TypeOK, Observing, Active, Locking, InMerge, Observations
    <3>2. List(j) \in Seq(Claims)
      BY <1>0, <3>1, CandidatesAreClaims DEF List
    <3>3. Len(List(j)) \in Nat /\ job[j].next <= Len(List(j))
      BY <3>2 DEF AttachClaim
    <3> QED BY <2>1, <2>2, <3>3
  <2> QED BY <2>8, <1>0, <1>1, <2>2, <2>3, <2>4, <2>6, <2>7, MergeStep DEF Active, Locking, InMerge
<1>2. CASE claims[c] \notin {None, job[j].entity}
  <2>1. job' = [job EXCEPT ![j] = Fresh(job[j].attempt, "failed")] /\ run' = [run EXCEPT ![j] = "failed"]
    BY <1>2 DEF AttachClaim
  <2>2. UNCHANGED <<clock, committed, cache, conflicts, reader>>
    BY DEF AttachClaim
  <2> QED BY <1>0, <2>1, <2>2, FreshStep
<1> QED BY <1>1, <1>2

LEMMA AttachedStep ==
    ASSUME IInv, NEW j \in Jobs, ClaimsAttached(j) \/ AttachRecord(j) \/ LoadRecords(j)
    PROVE  IInv'
<1>0. /\ TypeOK /\ AllAttached(j) /\ job \in [Jobs -> JobRecord] /\ job[j] \in JobRecord
      /\ job[j].pc \in InMerge
  BY DEF IInv, TypeOK, ClaimsAttached, AttachRecord, LoadRecords, InMerge
<1>1. job[j].next > Len(List(j)) /\ job[j].next <= Len(List(j)) + 1
  BY <1>0 DEF AllAttached, ClaimsAttached, AttachRecord, LoadRecords
<1>2. PICK r \in JobRecord : /\ job' = [job EXCEPT ![j] = r] /\ r.pc \in {"attach", "load", "commit"}
                             /\ r.next = job[j].next /\ r.obs = job[j].obs /\ r.entity = job[j].entity
  <2>1. CASE ClaimsAttached(j) \/ AttachRecord(j)
    <3>1. PICK pc \in {"attach", "load"} : job' = [job EXCEPT ![j].pc = pc]
      BY <2>1 DEF ClaimsAttached, AttachRecord, To
    <3> DEFINE r == [job[j] EXCEPT !.pc = pc]
    <3>2. /\ r \in JobRecord /\ r.pc = pc /\ r.next = job[j].next /\ r.obs = job[j].obs
          /\ r.entity = job[j].entity
      BY <1>0 DEF JobRecord
    <3>3. job' = [job EXCEPT ![j] = r]
      BY <1>0, <3>1
    <3> HIDE DEF r
    <3> QED BY <3>2, <3>3
  <2>2. CASE LoadRecords(j)
    <3> DEFINE s == Newest(RecordsOf(job[j].entity) \cup {job[j].obs})
               r == [job[j] EXCEPT !.pc = "commit", !.sources = s]
    <3>1. job[j].obs \in Observations
      <4>1. job[j].obs \in 1..clock /\ clock \in 0..MaxObservations
        BY <1>0 DEF IInv, TypeOK, Observing, Active, Locking, InMerge
      <4> QED BY <4>1, MovieAssumption DEF Observations
    <3>2. s \in SUBSET Observations
      BY <3>1 DEF Newest, RecordsOf
    <3> HIDE DEF s
    <3>3. /\ r \in JobRecord /\ r.pc = "commit" /\ r.next = job[j].next /\ r.obs = job[j].obs
          /\ r.entity = job[j].entity
      BY <1>0, <3>2 DEF JobRecord
    <3>4. job' = [job EXCEPT ![j] = r]
      BY <1>0, <2>2 DEF LoadRecords, s
    <3> HIDE DEF r
    <3> QED BY <3>3, <3>4
  <2> QED BY <2>1, <2>2
<1>3. Held(j) = {List(j)[i] : i \in 1..(r.next - 1)}
  BY <1>0, <1>2 DEF Held
<1>4. UNCHANGED <<clock, committed, cache, conflicts, run, reader>>
  BY DEF ClaimsAttached, AttachRecord, LoadRecords
<1> QED BY <1>0, <1>1, <1>2, <1>3, <1>4, MergeStep DEF Active, Locking, InMerge

\* The merge becomes visible: what it holds turns into claims of its movie, which touches
\* no claim of a movie that already has one.
LEMMA CommitStep ==
    ASSUME IInv, NEW j \in Jobs, Commit(j)
    PROVE  IInv'
<1> DEFINE e == job[j].entity
           n == job[j].obs
           version == document[e].version + 1
           row == [records[n] EXCEPT !.entity = e]
           r == [Fresh(job[j].attempt, "cache") EXCEPT !.entity = e, !.version = version]
<1>0. /\ TypeOK /\ job \in [Jobs -> JobRecord] /\ job[j] \in JobRecord /\ job[j].pc = "commit"
      /\ \A k \in Jobs : Observing(k) /\ AllAttached(k) /\ HeldAreOwn(k)
      /\ Recorded /\ HeldAreDisjoint /\ EvidenceOwnsItsClaims
      /\ clock \in 0..MaxObservations /\ records \in [Observations -> Record]
      /\ claims \in [Claims -> Entities \cup {None}]
  BY DEF IInv, TypeOK, Commit
<1>1. n \in 1..clock /\ n \in Observations
  BY <1>0, MovieAssumption DEF Observing, Active, Locking, InMerge, Observations
<1>2. e \in Entities /\ job[j].next > Len(List(j)) /\ List(j) = records[n].candidates
  BY <1>0 DEF Observing, AllAttached, Locking, InMerge, List
<1> HIDE DEF e, n
<1>3. document \in [Entities -> DocumentRecord] /\ version \in Nat
  BY <1>0, <1>2 DEF TypeOK, DocumentRecord
<1>4. row \in Record /\ row.entity = e /\ row.candidates = records[n].candidates /\ row.state = records[n].state
  BY <1>0, <1>1, <1>2 DEF Record
<1>5. r \in JobRecord /\ r.pc = "cache"
  <2>1. job[j].attempt \in 0..MaxAttempts
    BY <1>0 DEF JobRecord
  <2>2. Fresh(job[j].attempt, "cache") \in JobRecord /\ Fresh(job[j].attempt, "cache").pc = "cache"
    BY <2>1, FreshTyped
  <2> HIDE DEF version
  <2> QED BY <1>2, <1>3, <2>2 DEF JobRecord
<1>6. records' = [records EXCEPT ![n] = row] /\ job' = [job EXCEPT ![j] = r]
  BY <1>0, <1>1 DEF Commit, e, n
<1> HIDE DEF row, r
<1>7. job' \in [Jobs -> JobRecord] /\ job'[j] = r /\ \A k \in Jobs \ {j} : job'[k] = job[k]
  BY <1>0, <1>5, <1>6
<1>8. /\ records' \in [Observations -> Record] /\ records'[n] = row
      /\ \A o \in Observations \ {n} : records'[o] = records[o]
  BY <1>0, <1>1, <1>4, <1>6
<1>9. /\ clock' = clock
      /\ claims' = [c \in Claims |-> IF c \in Held(j) /\ claims[c] = None THEN e ELSE claims[c]]
  BY DEF Commit, e
<1>10. TypeOK'
  <2>1. claims' \in [Claims -> Entities \cup {None}]
    BY <1>0, <1>2, <1>9
  <2>2. entities' \in [Entities -> EntityRecord]
    <3>1. entities \in [Entities -> EntityRecord] /\ job[j].slug \in SlugRow \cup {NoSlug}
      BY <1>0 DEF TypeOK, JobRecord
    <3>2. [live |-> TRUE, slug |-> job[j].slug] \in EntityRecord
      BY <3>1 DEF EntityRecord
    <3> QED BY <1>2, <3>1, <3>2 DEF Commit, e
  <2>3. document' \in [Entities -> DocumentRecord]
    <3>1. job[j].sources \subseteq Observations
      BY <1>0 DEF JobRecord
    <3>2. [version |-> version, sources |-> job[j].sources] \in DocumentRecord
      BY <1>3, <3>1 DEF DocumentRecord
    <3> QED BY <1>2, <1>3, <3>2 DEF Commit, e
  <2>4. run' \in [Jobs -> {"none", "working", "failed", "completed"}]
    BY <1>0 DEF Commit, TypeOK
  <2> QED BY <1>0, <1>7, <1>8, <2>1, <2>2, <2>3, <2>4 DEF TypeOK, Commit
<1>11. ASSUME NEW k \in Jobs \ {j}
       PROVE  /\ Held(k)' = Held(k)
              /\ Observing(k)' /\ AllAttached(k)' /\ HeldAreOwn(k)'
  <2>1. job'[k] = job[k]
    BY <1>7
  <2>2. \A o \in Observations : records'[o].candidates = records[o].candidates
    BY <1>4, <1>8
  <2>3. job[k].pc \in Active => List(k)' = List(k)
    <3>1. job[k].pc \in Active => job[k].obs \in Observations
      BY <1>0, MovieAssumption DEF Observing, Observations
    <3> QED BY <2>1, <2>2, <3>1 DEF List
  <2>4. Held(k)' = Held(k)
    <3>1. CASE job[k].pc \in InMerge
      <4>1. List(k)' = List(k)
        BY <2>3, <3>1 DEF Active, Locking
      <4> QED BY <2>1, <3>1, <4>1 DEF Held
    <3>2. CASE job[k].pc \notin InMerge
      BY <2>1, <3>2 DEF Held
    <3> QED BY <3>1, <3>2
  <2>5. Observing(k)'
    BY <1>0, <1>9, <2>1 DEF Observing
  <2>6. AllAttached(k)'
    BY <1>0, <2>1, <2>3 DEF AllAttached, Active, Locking, InMerge
  <2>7. ASSUME NEW c \in Held(k)
        PROVE  claims'[c] \in {None, job[k].entity}
    <3>1. c \notin Held(j)
      BY <1>0 DEF HeldAreDisjoint
    <3>2. c \in Claims
      <4>1. job[k].pc \in InMerge /\ job[k].obs \in Observations
        BY <1>0, MovieAssumption DEF Held, Observing, Active, Locking, Observations
      <4>2. List(k) \in Seq(Claims)
        BY <1>0, <4>1, CandidatesAreClaims DEF List
      <4>3. PICK i \in 1..(job[k].next - 1) : c = List(k)[i]
        BY <4>1 DEF Held
      <4>4. job[k].next \in Nat /\ Len(List(k)) \in Nat /\ job[k].next <= Len(List(k)) + 1
        BY <1>0, <4>1, <4>2 DEF JobRecord, AllAttached
      <4>5. i \in 1..Len(List(k))
        BY <4>4
      <4> QED BY <4>2, <4>3, <4>5
    <3> QED BY <1>0, <1>9, <3>1, <3>2 DEF HeldAreOwn
  <2>8. HeldAreOwn(k)'
    BY <2>1, <2>4, <2>7 DEF HeldAreOwn
  <2> QED BY <2>4, <2>5, <2>6, <2>8
<1>12. Held(j)' = {} /\ Observing(j)' /\ AllAttached(j)'
  BY <1>5, <1>7 DEF Held, Observing, AllAttached, Active, Locking, InMerge
<1>13. \A k \in Jobs : Observing(k)' /\ AllAttached(k)' /\ HeldAreOwn(k)'
  BY <1>11, <1>12 DEF HeldAreOwn
<1>14. HeldAreDisjoint'
  BY <1>0, <1>11, <1>12 DEF HeldAreDisjoint
<1>15. Recorded'
  BY <1>0, <1>1, <1>4, <1>8, <1>9 DEF Recorded
<1>16. EvidenceOwnsItsClaims'
  <2> SUFFICES ASSUME NEW o \in Observations, records'[o].entity # None,
                      NEW i \in DOMAIN records'[o].candidates
               PROVE  claims'[records'[o].candidates[i]] = records'[o].entity
    BY DEF EvidenceOwnsItsClaims
  <2> DEFINE c == records[o].candidates[i]
  <2>1. records'[o].candidates = records[o].candidates
    BY <1>4, <1>8
  <2>2. records[o].candidates \in Seq(Claims)
    BY <1>0, CandidatesAreClaims
  <2>3. c \in Claims
    BY <2>1, <2>2
  <2>4. CASE o = n
    <3>1. i \in 1..(job[j].next - 1)
      <4>1. job[j].next \in Nat /\ i \in 1..Len(records[n].candidates) /\ Len(records[n].candidates) \in Nat
        BY <1>0, <2>1, <2>2, <2>4 DEF JobRecord
      <4> QED BY <1>2, <4>1
    <3>2. c \in Held(j)
      BY <1>0, <1>2, <2>4, <3>1 DEF Held, InMerge
    <3>3. claims[c] \in {None, e}
      BY <1>0, <3>2 DEF HeldAreOwn, e
    <3> QED BY <1>4, <1>8, <1>9, <2>1, <2>3, <2>4, <3>2, <3>3
  <2>5. CASE o # n
    <3>1. records'[o] = records[o]
      BY <1>8, <2>5
    <3>2. claims[c] = records[o].entity /\ claims[c] # None
      BY <1>0, <3>1 DEF EvidenceOwnsItsClaims
    <3> QED BY <1>9, <2>1, <2>3, <3>1, <3>2
  <2> QED BY <2>4, <2>5
<1> QED BY <1>10, <1>13, <1>14, <1>15, <1>16 DEF IInv

-----------------------------------------------------------------------------
(* Readers *)

\* A GET under way is for a movie.
Reading == \A r \in Readers : reader[r].pc # "idle" => reader[r].entity \in Entities

\* Only the cache and the readers change.
LEMMA UntouchedStep ==
    ASSUME IInv, TypeOK', UNCHANGED <<clock, records, claims, job>>
    PROVE  IInv'
<1>1. ASSUME NEW j \in Jobs PROVE List(j)' = List(j) /\ Held(j)' = Held(j)
  BY DEF List, Held
<1>2. ASSUME NEW j \in Jobs PROVE Observing(j)' /\ AllAttached(j)' /\ HeldAreOwn(j)'
  <2>1. Observing(j) /\ AllAttached(j) /\ HeldAreOwn(j)
    BY DEF IInv
  <2> QED BY <1>1, <2>1 DEF Observing, AllAttached, HeldAreOwn
<1>3. HeldAreDisjoint'
  BY <1>1 DEF IInv, HeldAreDisjoint
<1>4. Recorded' /\ EvidenceOwnsItsClaims'
  BY DEF IInv, Recorded, EvidenceOwnsItsClaims
<1> QED BY <1>2, <1>3, <1>4 DEF IInv

LEMMA DetailStep ==
    ASSUME IInv, Reading, (\E r \in Readers : Detail(r)) \/ (\E e \in Entities : ExpireCache(e))
    PROVE  IInv' /\ Reading'
<1>0. /\ TypeOK /\ cache \in [Entities -> Nat] /\ reader \in [Readers -> ReaderRecord]
      /\ document \in [Entities -> DocumentRecord]
  BY DEF IInv, TypeOK
<1>1. UNCHANGED <<clock, committed, conflicts, run, job>>
  BY DEF Detail, Read, ReadDocument, FillCache, ExpireCache
<1>2. cache' \in [Entities -> Nat] /\ reader' \in [Readers -> ReaderRecord] /\ Reading'
  <2>1. ASSUME NEW r \in Readers, NEW e \in Entities, Read(r, e)
        PROVE  cache' \in [Entities -> Nat] /\ reader' \in [Readers -> ReaderRecord] /\ Reading'
    <3> DEFINE next == [IdleReader EXCEPT !.pc = "read", !.entity = e]
    <3>1. next \in ReaderRecord /\ next.entity = e
      BY DEF IdleReader, ReaderRecord
    <3>2. reader' = [reader EXCEPT ![r] = next] /\ cache' = cache
      BY <2>1 DEF Read
    <3> HIDE DEF next
    <3> QED BY <1>0, <3>1, <3>2 DEF Reading
  <2>2. ASSUME NEW r \in Readers, ReadDocument(r)
        PROVE  cache' \in [Entities -> Nat] /\ reader' \in [Readers -> ReaderRecord] /\ Reading'
    <3> DEFINE v == document[reader[r].entity].version
               next == [reader[r] EXCEPT !.pc = "fill", !.version = v]
    <3>1. reader[r].entity \in Entities
      BY <2>2 DEF Reading, ReadDocument
    <3>2. v \in Nat
      BY <1>0, <3>1 DEF DocumentRecord
    <3>3. reader' = [reader EXCEPT ![r] = next] /\ cache' = cache
      BY <1>0, <2>2 DEF ReadDocument
    <3> HIDE DEF v
    <3>4. next \in ReaderRecord /\ next.entity = reader[r].entity
      BY <1>0, <3>2 DEF ReaderRecord
    <3> HIDE DEF next
    <3> QED BY <1>0, <3>1, <3>3, <3>4 DEF Reading
  <2>3. ASSUME NEW r \in Readers, FillCache(r)
        PROVE  cache' \in [Entities -> Nat] /\ reader' \in [Readers -> ReaderRecord] /\ Reading'
    <3>1. reader[r].version \in Nat
      BY <1>0 DEF ReaderRecord
    <3>2. cache' \in [Entities -> Nat] /\ reader' = [reader EXCEPT ![r] = IdleReader]
      BY <1>0, <2>3, <3>1 DEF FillCache
    <3>3. IdleReader \in ReaderRecord /\ IdleReader.pc = "idle"
      BY DEF IdleReader, ReaderRecord
    <3> QED BY <1>0, <3>2, <3>3 DEF Reading
  <2>4. ASSUME NEW e \in Entities, ExpireCache(e)
        PROVE  cache' \in [Entities -> Nat] /\ reader' \in [Readers -> ReaderRecord] /\ Reading'
    BY <1>0, <2>4 DEF ExpireCache, Reading
  <2> QED BY <2>1, <2>2, <2>3, <2>4 DEF Detail
<1>3. TypeOK'
  BY <1>0, <1>1, <1>2 DEF TypeOK, committed
<1>4. IInv'
  BY <1>1, <1>3, UntouchedStep DEF committed
<1> QED BY <1>2, <1>4

-----------------------------------------------------------------------------
(* The theorems *)

LEMMA InductiveStep == IInv /\ Reading /\ [Next]_vars => (IInv /\ Reading)'
<1> SUFFICES ASSUME IInv, Reading, [Next]_vars PROVE IInv' /\ Reading'
  OBVIOUS
<1>1. ASSUME NEW j \in Jobs, Ingest(j) \/ CacheError(j) \/ Abort(j) \/ Crash(j)
      PROVE  IInv' /\ Reading'
  <2>1. reader' = reader
    BY <1>1 DEF Ingest, Merge, Start, Observe, Reuse, RecordNormalized, ResolveClaim, RecordConflict,
                ChooseEntity, CreateEntity, LockEntity, AttachClaim, ClaimsAttached, AttachRecord,
                LoadRecords, Commit, CacheDetail, CacheError, Abort, Crash
  <2>2. CASE Observe(j) \/ RecordNormalized(j)
    BY <2>1, <2>2, ObserveStep, RecordNormalizedStep DEF Reading
  <2>3. CASE Merge(j)
    BY <2>1, <2>3, ResolveStep, LockEntityStep, AttachClaimStep, AttachedStep, CommitStep DEF Merge, Reading
  <2>4. CASE Reuse(j)
    BY <2>1, <2>4, ResolveStep DEF Reading
  <2>5. CASE Start(j) \/ CacheDetail(j) \/ CacheError(j) \/ Abort(j) \/ Crash(j)
    BY <2>1, <2>5, EndStep DEF Reading
  <2> QED BY <1>1, <2>2, <2>3, <2>4, <2>5 DEF Ingest
<1>2. CASE UNCHANGED vars
  <2>1. TypeOK'
    BY <1>2 DEF IInv, TypeOK, vars, committed
  <2> QED BY <1>2, <2>1, UntouchedStep DEF vars, committed, Reading
<1> QED BY <1>1, <1>2, DetailStep DEF Next

LEMMA Invariance == Spec => [](IInv /\ Reading)
<1>1. Init => IInv /\ Reading
  BY InitIInv DEF Init, IdleReader, Reading
<1> QED BY <1>1, InductiveStep, PTL DEF Spec

\* Every variable has its type, for any number of ingestions, movies, titles and readers.
THEOREM TypeSafety == Spec => []TypeOK
<1>1. IInv => TypeOK
  BY DEF IInv
<1> QED BY <1>1, Invariance, PTL

\* Every claim in the evidence attached to a movie belongs to that movie, however many
\* ingestions resolve and attach claims at once and wherever they fail
\* (movies.Service.Ingest, internal/movies/service.go).
THEOREM EvidenceSafety == Spec => []EvidenceOwnsItsClaims
<1>1. IInv => EvidenceOwnsItsClaims
  BY DEF IInv
<1> QED BY <1>1, Invariance, PTL

-----------------------------------------------------------------------------
(* A published movie document combines exactly the newest evidence of its   *)
(* movie, for any number of ingestions. On top of the invariant above: only   *)
(* one merge at a time has a movie, so what it has read stays true until it  *)
(* commits; and a record never moves to another movie, since its claims do   *)
(* not.                                                                      *)

\* Only one merge at a time holds the lock of a movie.
LockIsExclusive ==
    \A j, k \in Jobs : j # k /\ job[j].pc \in InMerge /\ job[k].pc \in InMerge => job[j].entity # job[k].entity

\* What a merge has read of its movie is still what the tables say.
ReadIsCurrent(j) ==
    job[j].pc = "commit" => job[j].sources = Newest(RecordsOf(job[j].entity) \cup {job[j].obs})

\* Observations to come belong to no movie, and those made name an id.
Blank == \A o \in Observations : o \notin 1..clock => records[o].entity = None
Named == \A o \in Observations : o \in 1..clock => records[o].candidates # <<>>

DInv ==
    /\ LockIsExclusive
    /\ \A j \in Jobs : ReadIsCurrent(j)
    /\ Blank /\ Named
    /\ DocumentIsCurrent

-----------------------------------------------------------------------------
LEMMA InitDInv == Init => DInv
<1> SUFFICES ASSUME Init PROVE DInv
  OBVIOUS
<1>1. \A j \in Jobs : job[j].pc = "idle"
  BY DEF Init, Fresh
<1>2. \A o \in Observations : records[o].entity = None
  BY DEF Init, NoRecord
<1>3. ASSUME NEW e \in Entities PROVE document[e].sources = Newest(RecordsOf(e))
  <2>1. RecordsOf(e) = {}
    BY <1>2, MovieAssumption DEF RecordsOf
  <2>2. document[e].sources = {}
    BY DEF Init
  <2> QED BY <2>1, <2>2 DEF Newest
<1>4. 1..clock = {}
  BY DEF Init
<1> QED BY <1>1, <1>2, <1>3, <1>4 DEF DInv, LockIsExclusive, ReadIsCurrent, Blank, Named, DocumentIsCurrent, InMerge

\* The newest of a set of rows depends on their titles alone.
LEMMA SameNewest ==
    ASSUME NEW rows, \A o \in rows : records'[o].title = records[o].title
    PROVE  {o \in rows : \A p \in rows : records'[p].title = records'[o].title => p <= o} = Newest(rows)
BY DEF Newest

\* A step that publishes nothing: rows stay with their movies ...
RowsKept ==
    /\ document' = document /\ clock' \in Nat /\ clock <= clock'
    /\ \A o \in Observations : o \in 1..clock =>
          /\ records'[o].entity = records[o].entity /\ records'[o].title = records[o].title
          /\ records'[o].candidates = records[o].candidates
    /\ \A o \in Observations : o \notin 1..clock => records'[o].entity = None
    /\ Named'

\* ... and the one job that moves stays, in its merge, with its movie and what it has read.
JobKept(j) ==
    /\ \A k \in Jobs \ {j} : job'[k] = job[k]
    /\ job'[j].pc \in InMerge =>
          \A k \in Jobs \ {j} : job[k].pc \in InMerge => job[k].entity # job'[j].entity
    /\ job'[j].pc = "commit" =>
          /\ job'[j].obs \in 1..clock /\ job'[j].entity \in Entities
          /\ job'[j].sources = Newest(RecordsOf(job'[j].entity) \cup {job'[j].obs})

LEMMA KeepStep ==
    ASSUME IInv, DInv, NEW j \in Jobs, RowsKept, JobKept(j)
    PROVE  DInv'
<1> USE DEF RowsKept, JobKept
<1>0. /\ LockIsExclusive /\ Blank /\ DocumentIsCurrent /\ clock \in 0..MaxObservations
      /\ \A k \in Jobs : ReadIsCurrent(k) /\ Observing(k)
  BY DEF IInv, DInv, TypeOK
<1>1. \A o \in Observations : records'[o].entity = records[o].entity
  BY <1>0 DEF Blank
<1>2. ASSUME NEW e PROVE RecordsOf(e)' = RecordsOf(e)
  BY <1>1 DEF RecordsOf
<1>3. ASSUME NEW e \in Entities, NEW o \in RecordsOf(e) PROVE o \in Observations /\ o \in 1..clock
  BY <1>0, MovieAssumption DEF RecordsOf, Blank
<1>4. DocumentIsCurrent'
  <2> SUFFICES ASSUME NEW e \in Entities PROVE document'[e].sources = Newest(RecordsOf(e))'
    BY DEF DocumentIsCurrent
  <2> DEFINE rows == RecordsOf(e)
  <2>1. \A o \in rows : records'[o].title = records[o].title
    BY <1>3
  <2>2. rows' = rows
    BY <1>2
  <2> HIDE DEF rows
  <2>3. Newest(rows)' = Newest(rows)
    BY <2>1, <2>2, SameNewest DEF Newest
  <2> QED BY <1>0, <2>3 DEF DocumentIsCurrent, rows
<1>5. LockIsExclusive'
  <2> SUFFICES ASSUME NEW a \in Jobs, NEW b \in Jobs, a # b, job'[a].pc \in InMerge, job'[b].pc \in InMerge
               PROVE  job'[a].entity # job'[b].entity
    BY DEF LockIsExclusive
  <2>1. CASE a = j
    BY <2>1
  <2>2. CASE b = j
    BY <2>2
  <2>3. CASE a # j /\ b # j
    BY <1>0, <2>3 DEF LockIsExclusive
  <2> QED BY <2>1, <2>2, <2>3
<1>6. ASSUME NEW k \in Jobs PROVE ReadIsCurrent(k)'
  <2> SUFFICES ASSUME job'[k].pc = "commit"
               PROVE  job'[k].sources = Newest(RecordsOf(job[k].entity) \cup {job[k].obs})'
    BY DEF ReadIsCurrent
  <2> DEFINE rows == RecordsOf(job'[k].entity) \cup {job'[k].obs}
  <2>1. job'[k].obs \in 1..clock /\ job'[k].entity \in Entities /\ job'[k].sources = Newest(rows)
    <3>1. CASE k = j
      BY <3>1
    <3>2. CASE k # j
      BY <1>0, <3>2 DEF ReadIsCurrent, Observing, Active, Locking, InMerge
    <3> QED BY <3>1, <3>2
  <2>2. job'[k].obs \in Observations
    BY <1>0, <2>1, MovieAssumption DEF Observations
  <2>3. \A o \in rows : records'[o].title = records[o].title
    <3>1. \A o \in RecordsOf(job'[k].entity) : o \in Observations /\ o \in 1..clock
      BY <1>3, <2>1
    <3> QED BY <2>1, <2>2, <3>1
  <2>4. (RecordsOf(job[k].entity) \cup {job[k].obs})' = rows
    BY <1>2
  <2> QED BY <2>1, <2>3, <2>4, SameNewest DEF Newest
<1>7. Blank'
  BY <1>0, <1>1 DEF Blank
<1> QED BY <1>4, <1>5, <1>6, <1>7 DEF DInv

-----------------------------------------------------------------------------
(* Steps *)

\* A step that leaves the rows alone and does not bring its job to its commit.
LEMMA PlainStep ==
    ASSUME IInv, DInv, NEW j \in Jobs,
           \A k \in Jobs \ {j} : job'[k] = job[k],
           UNCHANGED <<clock, records, document>>,
           job'[j].pc \in InMerge => job[j].pc \in InMerge /\ job'[j].entity = job[j].entity,
           job'[j].pc # "commit"
    PROVE  DInv'
<1>1. clock \in Nat
  BY MovieAssumption DEF IInv, TypeOK
<1>2. LockIsExclusive /\ Blank /\ Named
  BY DEF DInv
<1>3. JobKept(j)
  BY <1>2 DEF LockIsExclusive, JobKept
<1>4. RowsKept
  BY <1>1, <1>2 DEF Named, Blank, RowsKept
<1> QED BY <1>3, <1>4, KeepStep

\* Where an attempt that starts or ends stands.
LEMMA FreshFields ==
    ASSUME NEW a, NEW pc
    PROVE  Fresh(a, pc).pc = pc
BY DEF Fresh

LEMMA OutsideSteps ==
    ASSUME IInv, DInv, NEW j \in Jobs,
           \/ Start(j) \/ Reuse(j) \/ CacheDetail(j) \/ CacheError(j) \/ Abort(j) \/ Crash(j)
           \/ ResolveClaim(j) \/ RecordConflict(j) \/ ChooseEntity(j) \/ CreateEntity(j)
    PROVE  DInv'
<1>0. job \in [Jobs -> JobRecord]
  BY DEF IInv, TypeOK
<1>1. /\ \A k \in Jobs \ {j} : job'[k] = job[k]
      /\ UNCHANGED <<clock, records, document>>
  BY <1>0 DEF Start, Reuse, CacheDetail, CacheError, Abort, Crash, ResolveClaim, RecordConflict,
              ChooseEntity, CreateEntity, To, committed
<1>2. job'[j].pc \notin InMerge
  <2>1. CASE Start(j) \/ CacheDetail(j) \/ CacheError(j) \/ Abort(j) \/ Crash(j)
    BY <1>0, <2>1, FreshFields DEF Start, CacheDetail, CacheError, Abort, Crash, InMerge
  <2>2. CASE Reuse(j) \/ RecordConflict(j) \/ ChooseEntity(j) \/ CreateEntity(j)
    <3>1. CASE Reuse(j)
      <4>1. PICK o : job' = [job EXCEPT ![j].pc = "record", ![j].obs = o]
        BY <3>1 DEF Reuse
      <4> QED BY <1>0, <4>1 DEF JobRecord, InMerge
    <3>2. CASE RecordConflict(j)
      BY <1>0, <3>2 DEF RecordConflict, To, JobRecord, InMerge
    <3>3. CASE ChooseEntity(j)
      BY <1>0, <3>3 DEF ChooseEntity, To, JobRecord, InMerge
    <3>4. CASE CreateEntity(j)
      <4>1. PICK e, slug : job' = [job EXCEPT ![j].pc = "lock", ![j].entity = e, ![j].slug = slug]
        BY <3>4 DEF CreateEntity
      <4> QED BY <1>0, <4>1 DEF JobRecord, InMerge
    <3> QED BY <2>2, <3>1, <3>2, <3>3, <3>4
  <2>3. CASE ResolveClaim(j)
    BY <1>0, <2>3 DEF ResolveClaim, JobRecord, InMerge
  <2> QED BY <2>1, <2>2, <2>3
<1> QED BY <1>1, <1>2, PlainStep DEF InMerge

LEMMA InsideSteps ==
    ASSUME IInv, DInv, NEW j \in Jobs, AttachClaim(j) \/ ClaimsAttached(j) \/ AttachRecord(j)
    PROVE  DInv'
<1>0. job \in [Jobs -> JobRecord] /\ job[j] \in JobRecord
  BY DEF IInv, TypeOK
<1>1. /\ \A k \in Jobs \ {j} : job'[k] = job[k]
      /\ UNCHANGED <<clock, records, document>>
  BY <1>0 DEF AttachClaim, ClaimsAttached, AttachRecord, To, committed
<1>2. /\ job'[j].pc \in InMerge => job[j].pc \in InMerge /\ job'[j].entity = job[j].entity
      /\ job'[j].pc # "commit"
  <2>1. CASE AttachClaim(j)
    BY <1>0, <2>1, FreshFields DEF AttachClaim, JobRecord, InMerge
  <2>2. CASE ClaimsAttached(j) \/ AttachRecord(j)
    BY <1>0, <2>2 DEF ClaimsAttached, AttachRecord, To, JobRecord, InMerge
  <2> QED BY <2>1, <2>2
<1> QED BY <1>1, <1>2, PlainStep

LEMMA LockEntityKeeps == ASSUME IInv, DInv, NEW j \in Jobs, LockEntity(j) PROVE DInv'
<1>0. job \in [Jobs -> JobRecord] /\ job[j] \in JobRecord /\ clock \in Nat /\ Blank /\ Named
  BY MovieAssumption DEF IInv, TypeOK, DInv
<1>1. /\ \A k \in Jobs \ {j} : job'[k] = job[k]
      /\ UNCHANGED <<clock, records, document>>
      /\ job'[j].pc = "claims" /\ job'[j].entity = job[j].entity
  BY <1>0 DEF LockEntity, committed, JobRecord
<1>2. \A k \in Jobs \ {j} : job[k].pc \in InMerge => job[k].entity # job'[j].entity
  BY <1>1 DEF LockEntity
<1>3. RowsKept
  BY <1>0, <1>1 DEF Named, Blank, RowsKept
<1>4. JobKept(j)
  BY <1>1, <1>2 DEF JobKept
<1> QED BY <1>3, <1>4, KeepStep

LEMMA LoadRecordsKeeps == ASSUME IInv, DInv, NEW j \in Jobs, LoadRecords(j) PROVE DInv'
<1>0. /\ job \in [Jobs -> JobRecord] /\ job[j] \in JobRecord /\ clock \in Nat /\ Blank /\ Named
      /\ LockIsExclusive /\ job[j].pc = "load" /\ Observing(j)
  BY MovieAssumption DEF IInv, TypeOK, DInv, LoadRecords
<1>1. /\ \A k \in Jobs \ {j} : job'[k] = job[k]
      /\ UNCHANGED <<clock, records, document>>
      /\ job'[j].obs = job[j].obs /\ job'[j].entity = job[j].entity
      /\ job'[j].sources = Newest(RecordsOf(job[j].entity) \cup {job[j].obs})
  BY <1>0 DEF LoadRecords, committed, JobRecord
<1>2. \A k \in Jobs \ {j} : job[k].pc \in InMerge => job[k].entity # job'[j].entity
  BY <1>0, <1>1 DEF LockIsExclusive, InMerge
<1>3. RowsKept
  BY <1>0, <1>1 DEF Named, Blank, RowsKept
<1>4. job'[j].obs \in 1..clock /\ job'[j].entity \in Entities
  BY <1>0, <1>1 DEF Observing, Active, Locking, InMerge
<1>5. JobKept(j)
  BY <1>1, <1>2, <1>4 DEF JobKept
<1> QED BY <1>3, <1>5, KeepStep

LEMMA ObserveKeeps == ASSUME IInv, DInv, NEW j \in Jobs, Observe(j) PROVE DInv'
<1>0. /\ job \in [Jobs -> JobRecord] /\ job[j] \in JobRecord /\ clock \in Nat /\ Blank /\ Named
      /\ records \in [Observations -> Record]
  BY MovieAssumption DEF IInv, TypeOK, DInv
<1>1. PICK list \in Evidence[TitleOf[j]] :
          records' = [records EXCEPT ![clock + 1] =
              [state |-> "observed", title |-> TitleOf[j], candidates |-> list, entity |-> None]]
  BY DEF Observe
<1>2. list # <<>>
  BY MovieAssumption, EvidenceAssumption
<1>3. /\ \A k \in Jobs \ {j} : job'[k] = job[k]
      /\ clock' = clock + 1 /\ document' = document /\ job'[j].pc = "record"
  BY <1>0 DEF Observe, JobRecord
<1>4. /\ \A o \in Observations : o # clock + 1 => records'[o] = records[o]
      /\ \A o \in Observations : o = clock + 1 => records'[o].entity = None /\ records'[o].candidates # <<>>
  BY <1>0, <1>1, <1>2
<1>5. Named' /\ \A o \in Observations : o \notin 1..clock => records'[o].entity = None
  <2>1. \A o \in Observations : o \in 1..(clock + 1) => o \in 1..clock \/ o = clock + 1
    BY <1>0
  <2> QED BY <1>0, <1>3, <1>4, <2>1 DEF Named, Blank
<1>6. \A o \in Observations : o \in 1..clock => records'[o] = records[o]
  BY <1>0, <1>4
<1>7. RowsKept
  BY <1>0, <1>3, <1>5, <1>6 DEF RowsKept
<1>8. JobKept(j)
  BY <1>3 DEF JobKept, InMerge
<1> QED BY <1>7, <1>8, KeepStep

LEMMA RecordNormalizedKeeps == ASSUME IInv, DInv, NEW j \in Jobs, RecordNormalized(j) PROVE DInv'
<1>0. /\ job \in [Jobs -> JobRecord] /\ job[j] \in JobRecord /\ clock \in Nat /\ Blank /\ Named
      /\ records \in [Observations -> Record]
  BY MovieAssumption DEF IInv, TypeOK, DInv
<1>1. /\ \A k \in Jobs \ {j} : job'[k] = job[k]
      /\ clock' = clock /\ document' = document /\ job'[j].pc = "resolve"
  BY <1>0 DEF RecordNormalized, To, JobRecord
<1>2. \A o \in Observations :
          /\ records'[o].entity = records[o].entity /\ records'[o].title = records[o].title
          /\ records'[o].candidates = records[o].candidates
  BY <1>0 DEF RecordNormalized, Record
<1>3. RowsKept
  BY <1>0, <1>1, <1>2 DEF Named, Blank, RowsKept
<1>4. JobKept(j)
  BY <1>1 DEF JobKept, InMerge
<1> QED BY <1>3, <1>4, KeepStep

\* The claims of a record are its movie's, so a merge of another movie cannot take it.
LEMMA RowIsFree ==
    ASSUME IInv, DInv, NEW j \in Jobs, job[j].pc = "commit", NEW f \in Entities, f # job[j].entity
    PROVE  job[j].obs \notin RecordsOf(f)
<1> DEFINE n == job[j].obs
           c == records[n].candidates[1]
<1> SUFFICES ASSUME n \in RecordsOf(f) PROVE FALSE
  OBVIOUS
<1>1. n \in Observations /\ records[n].entity = f /\ f # None
  BY MovieAssumption DEF RecordsOf
<1>2. /\ job \in [Jobs -> JobRecord] /\ job[j] \in JobRecord /\ TypeOK
      /\ n \in 1..clock /\ HeldAreOwn(j) /\ List(j) = records[n].candidates /\ job[j].next > Len(List(j))
  BY DEF IInv, TypeOK, Observing, AllAttached, Active, Locking, InMerge, List
<1>3. records[n].candidates \in Seq(Claims) /\ records[n].candidates # <<>>
  BY <1>1, <1>2, CandidatesAreClaims DEF DInv, Named
<1>4. 1 \in DOMAIN records[n].candidates /\ Len(List(j)) \in Nat /\ Len(List(j)) >= 1
  BY <1>2, <1>3
<1>5. c \in Held(j)
  <2>1. job[j].next \in Nat /\ 1 \in 1..(job[j].next - 1)
    BY <1>2, <1>4 DEF JobRecord
  <2> QED BY <1>2, <2>1 DEF Held, InMerge
<1>6. claims[c] \in {None, job[j].entity}
  BY <1>2, <1>5 DEF HeldAreOwn
<1>7. claims[c] = f
  BY <1>1, <1>4 DEF IInv, EvidenceOwnsItsClaims
<1> QED BY <1>1, <1>6, <1>7

LEMMA CommitKeeps == ASSUME IInv, DInv, NEW j \in Jobs, Commit(j) PROVE DInv'
<1>e. PICK e : e = job[j].entity
  OBVIOUS
<1>n. PICK n : n = job[j].obs
  OBVIOUS
<1> DEFINE version == document[e].version + 1
           row == [records[n] EXCEPT !.entity = e]
<1>0. /\ TypeOK /\ job \in [Jobs -> JobRecord] /\ job[j] \in JobRecord /\ job[j].pc = "commit"
      /\ records \in [Observations -> Record] /\ document \in [Entities -> DocumentRecord]
      /\ clock \in 0..MaxObservations
      /\ \A k \in Jobs : Observing(k) /\ ReadIsCurrent(k)
      /\ LockIsExclusive /\ Blank /\ Named /\ DocumentIsCurrent
  BY DEF IInv, TypeOK, DInv, Commit
<1>1. e \in Entities /\ n \in 1..clock /\ n \in Observations /\ e # None
  BY <1>e, <1>n, <1>0, MovieAssumption DEF Observing, Active, Locking, InMerge, Observations
<1>2. /\ records' = [records EXCEPT ![n] = row]
      /\ document' = [document EXCEPT ![e] = [version |-> version, sources |-> job[j].sources]]
      /\ clock' = clock
  BY <1>e, <1>n, <1>0, <1>1 DEF Commit
<1>3. /\ row.entity = e /\ row.title = records[n].title /\ row.candidates = records[n].candidates
  BY <1>0, <1>1 DEF Record
<1>4. /\ \A k \in Jobs \ {j} : job'[k] = job[k]
      /\ job'[j].pc = "cache"
  <2> DEFINE r == [Fresh(job[j].attempt, "cache") EXCEPT !.entity = e, !.version = version]
  <2>1. r.pc = "cache"
    BY DEF Fresh
  <2>2. job' = [job EXCEPT ![j] = r]
    BY <1>e DEF Commit
  <2> HIDE DEF r
  <2> QED BY <1>0, <2>1, <2>2
<1> HIDE DEF row
<1>5. /\ records'[n].entity = e
      /\ \A o \in Observations : records'[o].title = records[o].title /\ records'[o].candidates = records[o].candidates
      /\ \A o \in Observations \ {n} : records'[o] = records[o]
  BY <1>0, <1>1, <1>2, <1>3
<1>6. RecordsOf(e)' = RecordsOf(e) \cup {n}
  <2>1. \A o \in Observations : records'[o].entity = e <=> o = n \/ records[o].entity = e
    BY <1>5
  <2> QED BY <1>1, <2>1 DEF RecordsOf
<1>7. ASSUME NEW f \in Entities, f # e PROVE RecordsOf(f)' = RecordsOf(f)
  <2>1. n \notin RecordsOf(f)
    BY <1>e, <1>n, <1>0, <1>7, RowIsFree
  <2>2. \A o \in Observations : records'[o].entity = f <=> records[o].entity = f
    BY <1>1, <1>5, <1>7, <2>1 DEF RecordsOf
  <2> QED BY <2>2 DEF RecordsOf
<1>9. DocumentIsCurrent'
  <2> SUFFICES ASSUME NEW f \in Entities PROVE document'[f].sources = Newest(RecordsOf(f))'
    BY DEF DocumentIsCurrent
  <2> DEFINE rows == RecordsOf(e) \cup {n}
             old == RecordsOf(f)
  <2>1. rows \subseteq Observations /\ old \subseteq Observations
    BY <1>1 DEF RecordsOf
  <2>2. CASE f = e
    <3>1. document'[f].sources = Newest(rows)
      BY <1>e, <1>n, <1>0, <1>1, <1>2, <2>2 DEF ReadIsCurrent
    <3>2. RecordsOf(f)' = rows
      BY <1>6, <2>2
    <3>3. Newest(RecordsOf(f))' = Newest(rows)
      BY <1>5, <2>1, <3>2 DEF Newest
    <3> QED BY <3>1, <3>3
  <2>3. CASE f # e
    <3>1. document'[f].sources = Newest(old)
      BY <1>0, <1>2, <2>3 DEF DocumentIsCurrent
    <3>2. RecordsOf(f)' = old
      BY <1>7, <2>3
    <3>3. Newest(RecordsOf(f))' = Newest(old)
      BY <1>5, <2>1, <3>2 DEF Newest
    <3> QED BY <3>1, <3>3
  <2> QED BY <2>2, <2>3
<1>10. LockIsExclusive'
  BY <1>0, <1>4 DEF LockIsExclusive, InMerge
<1>11. ASSUME NEW k \in Jobs PROVE ReadIsCurrent(k)'
  <2>1. CASE k = j
    BY <1>4, <2>1 DEF ReadIsCurrent
  <2>2. CASE k # j
    <3> SUFFICES ASSUME job[k].pc = "commit"
                 PROVE  job'[k].sources = Newest(RecordsOf(job[k].entity) \cup {job[k].obs})'
      BY <1>4, <2>2 DEF ReadIsCurrent
    <3>1. PICK f \in Entities : f = job[k].entity
      BY <1>0 DEF Observing, Active, Locking, InMerge
    <3>2. f # e
      BY <1>e, <1>0, <2>2, <3>1 DEF LockIsExclusive, InMerge
    <3> DEFINE rows == RecordsOf(f) \cup {job[k].obs}
    <3>3. job[k].obs \in Observations
      BY <1>0, MovieAssumption DEF Observing, Active, Locking, InMerge, Observations
    <3>4. rows \subseteq Observations
      BY <3>3 DEF RecordsOf
    <3>5. (RecordsOf(job[k].entity) \cup {job[k].obs})' = rows
      <4>1. RecordsOf(job[k].entity)' = RecordsOf(f)'
        BY <1>4, <2>2, <3>1 DEF RecordsOf
      <4> QED BY <1>4, <1>7, <2>2, <3>2, <4>1
    <3>6. job'[k].sources = Newest(rows)
      BY <1>0, <1>4, <2>2, <3>1 DEF ReadIsCurrent
    <3> QED BY <1>5, <3>4, <3>5, <3>6 DEF Newest
  <2> QED BY <2>1, <2>2
<1>12. Blank' /\ Named'
  BY <1>0, <1>1, <1>2, <1>5 DEF Blank, Named
<1> QED BY <1>9, <1>10, <1>11, <1>12 DEF DInv

\* Readers and the cache leave everything else alone.
LEMMA UntouchedKeeps == ASSUME DInv, UNCHANGED <<clock, records, document, job>> PROVE DInv'
<1>1. ASSUME NEW e PROVE RecordsOf(e)' = RecordsOf(e)
  BY DEF RecordsOf
<1>2. DocumentIsCurrent'
  BY <1>1 DEF DInv, DocumentIsCurrent, Newest, RecordsOf
<1>3. \A j \in Jobs : ReadIsCurrent(j)'
  BY DEF DInv, ReadIsCurrent, Newest, RecordsOf
<1> QED BY <1>2, <1>3 DEF DInv, LockIsExclusive, Blank, Named

LEMMA DocumentStep == IInv /\ DInv /\ [Next]_vars => DInv'
<1> SUFFICES ASSUME IInv, DInv, [Next]_vars PROVE DInv'
  OBVIOUS
<1>1. ASSUME NEW j \in Jobs, Ingest(j) \/ CacheError(j) \/ Abort(j) \/ Crash(j) PROVE DInv'
  BY <1>1, OutsideSteps, InsideSteps, LockEntityKeeps, LoadRecordsKeeps, ObserveKeeps, RecordNormalizedKeeps,
     CommitKeeps DEF Ingest, Merge
<1>2. ASSUME (\E r \in Readers : Detail(r)) \/ (\E e \in Entities : ExpireCache(e)) PROVE DInv'
  BY <1>2, UntouchedKeeps DEF Detail, Read, ReadDocument, FillCache, ExpireCache, committed
<1>3. CASE UNCHANGED vars
  BY <1>3, UntouchedKeeps DEF vars, committed
<1> QED BY <1>1, <1>2, <1>3 DEF Next

-----------------------------------------------------------------------------
\* A published document combines exactly the newest record of every title attached to its
\* movie, however many ingestions run at once and in whichever order they end
\* (movies.Service.merge, internal/movies/service.go).
THEOREM DocumentSafety == Spec => []DocumentIsCurrent
<1>1. DInv => DocumentIsCurrent
  BY DEF DInv
<1>2. Init => DInv
  BY InitDInv
<1> QED BY <1>1, <1>2, DocumentStep, Invariance, PTL DEF Spec
=============================================================================
