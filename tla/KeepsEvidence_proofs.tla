-------------------------- MODULE KeepsEvidence_proofs --------------------------
(***************************************************************************)
(* Documents of shows and of artists keep the evidence that is attached to   *)
(* their entity, for any number of ingestions, ids, observations and         *)
(* failures.  Both merges read the records of an entity, write its document  *)
(* some statements later and publish both at once; the invariant says that   *)
(* what they read is still all there is when they do.                        *)
(***************************************************************************)
EXTENDS MCIdentity, MovieIngest_proofs, Redirects_proofs, TLAPS

-----------------------------------------------------------------------------
(* Shows *)

ShowJobRecord(F) ==
    [pc : {"idle", "root", "collect", "failed", "done"} \cup Persisting,
     attempt : Nat, root : ProviderIds \cup {NoShow}, records : Seq(Responses),
     source : Nat \ {0}, next : Nat \ {0}, found : SUBSET F, show : Shows \cup {NoShow}, stale : SUBSET Responses]

\* What a job has found is what claims name, of which nothing is needed here.
ShowTypes ==
    /\ responses \in [Responses -> Response] /\ showDocument \in [Shows -> ShowDocument]
    /\ \E F : ingestion \in [ShowJobs -> ShowJobRecord(F)]

\* The observations that have an answer; an answer stays.
Answered == {o \in Responses : responses[o].of # NoShow}

\* A job has a show while it writes it, and no two jobs have the same one.
ShowHeld(j) ==
    /\ ingestion[j].pc \in {"root", "collect"} => ingestion[j].root \in ProviderIds
    /\ ingestion[j].pc = "collect" => ingestion[j].records # <<>>
    /\ ingestion[j].pc \in {"write", "publish"} <=> ingestion[j].show # NoShow
    /\ \A k \in ShowJobs \ {j} : ingestion[k].show = ingestion[j].show => ingestion[j].show = NoShow

\* Jobs, documents and shows refer to answers.
RefersToAnswers ==
    /\ \A j \in ShowJobs : Collected(j) \cup ingestion[j].stale \subseteq Answered
    /\ \A e \in Shows : showDocument[e].fresh \cup showDocument[e].stale \subseteq Answered
    /\ \A o \in Responses : responses[o].show # NoShow => o \in Answered

\* An answer is kept by a document of fresh and stale answers.
KeptBy(o, fresh, stale) ==
    \/ SourceOf[responses[o].of] \in Sources(fresh)
    \/ \E s \in stale : s >= o /\ SourceOf[responses[s].of] = SourceOf[responses[o].of]

\* The document a job is about to publish keeps what its show has, and always has.
ReadyToPublish(j) ==
    ingestion[j].pc = "publish" =>
        \A o \in Responses : responses[o].show = ingestion[j].show
                                 => KeptBy(o, Collected(j), ingestion[j].stale)

ShowInv ==
    /\ ShowTypes /\ RefersToAnswers
    /\ \A j \in ShowJobs : ShowHeld(j) /\ ReadyToPublish(j)
    /\ DocumentKeepsEvidence

\* The property in the words of the proof.
LEMMA KeepsEvidenceIs ==
    DocumentKeepsEvidence <=>
        \A o \in Responses : responses[o].show # NoShow =>
            KeptBy(o, showDocument[responses[o].show].fresh, showDocument[responses[o].show].stale)
BY DEF DocumentKeepsEvidence, KeptBy

LEMMA KeepsEvidenceNext ==
    DocumentKeepsEvidence' <=>
        (\A o \in Responses : responses[o].show # NoShow =>
            KeptBy(o, showDocument[responses[o].show].fresh, showDocument[responses[o].show].stale))'
BY KeepsEvidenceIs, PTL

LEMMA ShowInit == EpisodicInit => ShowInv
<1> SUFFICES ASSUME EpisodicInit PROVE ShowInv
  OBVIOUS
<1>1. NotIngesting \in ShowJobRecord({}) /\ NotIngesting.records = <<>> /\ NotIngesting.stale = {}
      /\ NotIngesting.show = NoShow /\ NotIngesting.pc = "idle"
  BY EpisodicAssumption DEF NotIngesting, ShowJobRecord
<1>2. \A j \in ShowJobs : ingestion[j] = NotIngesting
  BY DEF EpisodicInit
<1>3. ShowTypes
  <2>1. ingestion \in [ShowJobs -> ShowJobRecord({})]
    BY <1>1 DEF EpisodicInit
  <2>2. responses \in [Responses -> Response]
    BY DEF EpisodicInit, Response
  <2>3. showDocument \in [Shows -> ShowDocument]
    BY DEF EpisodicInit, ShowDocument
  <2> QED BY <2>1, <2>2, <2>3 DEF ShowTypes
<1>4. \A o \in Responses : responses[o].show = NoShow
  BY DEF EpisodicInit
<1>5. RefersToAnswers
  <2>1. \A j \in ShowJobs : Collected(j) = {} /\ ingestion[j].stale = {}
    BY <1>1, <1>2 DEF Collected
  <2>2. \A e \in Shows : showDocument[e].fresh = {} /\ showDocument[e].stale = {}
    BY DEF EpisodicInit
  <2> QED BY <1>4, <2>1, <2>2 DEF RefersToAnswers
<1>6. \A j \in ShowJobs : ShowHeld(j) /\ ReadyToPublish(j)
  BY <1>1, <1>2 DEF ShowHeld, ReadyToPublish
<1> QED BY <1>3, <1>4, <1>5, <1>6 DEF ShowInv, DocumentKeepsEvidence

\* Answers that stay keep each other.
LEMMA StaysKept ==
    ASSUME NEW o \in Answered, NEW F, NEW S, F \cup S \subseteq Answered,
           \A p \in Answered : responses'[p].of = responses[p].of, KeptBy(o, F, S)
    PROVE  KeptBy(o, F, S)'
<1>1. CASE SourceOf[responses[o].of] \in Sources(F)
  <2>1. PICK f \in F : SourceOf[responses[o].of] = SourceOf[responses[f].of]
    BY <1>1 DEF Sources
  <2>2. SourceOf[responses'[o].of] = SourceOf[responses'[f].of]
    BY <2>1
  <2> QED BY <2>2 DEF KeptBy, Sources
<1>2. CASE \E s \in S : s >= o /\ SourceOf[responses[s].of] = SourceOf[responses[o].of]
  BY <1>2 DEF KeptBy
<1> QED BY <1>1, <1>2 DEF KeptBy

RecordsIn(r) == {r.records[i] : i \in DOMAIN r.records}

\* What a step may do to the answers: add some, and leave what is attached alone.
OnlyAnswers ==
    /\ responses' \in [Responses -> Response]
    /\ \A o \in Answered : responses'[o].of = responses[o].of
    /\ \A o \in Responses : responses'[o].show = responses[o].show

\* A step of one job that publishes nothing.
LEMMA LocalKeeps ==
    ASSUME ShowInv, OnlyAnswers, UNCHANGED showDocument,
           NEW j \in ShowJobs, NEW F, ingestion \in [ShowJobs -> ShowJobRecord(F)],
           NEW G, NEW r \in ShowJobRecord(G), ingestion' = [ingestion EXCEPT ![j] = r],
           RecordsIn(r) \cup r.stale \subseteq Answered',
           r.pc \in {"root", "collect"} => r.root \in ProviderIds, r.pc = "collect" => r.records # <<>>,
           r.pc \in {"write", "publish"} <=> r.show # NoShow,
           \A k \in ShowJobs \ {j} : ingestion[k].show = r.show => r.show = NoShow,
           r.pc = "publish" => /\ responses' = responses
                               /\ \A o \in Responses : responses[o].show = r.show
                                                          => KeptBy(o, RecordsIn(r), r.stale)
    PROVE  ShowInv'
<1>1. Answered \subseteq Answered'
  BY DEF OnlyAnswers, Answered
<1>2. ingestion'[j] = r /\ \A k \in ShowJobs \ {j} : ingestion'[k] = ingestion[k]
  OBVIOUS
<1>3. ShowTypes'
  <2>1. ShowJobRecord(F) \subseteq ShowJobRecord(F \cup G) /\ ShowJobRecord(G) \subseteq ShowJobRecord(F \cup G)
    BY DEF ShowJobRecord
  <2>2. ingestion' \in [ShowJobs -> ShowJobRecord(F \cup G)]
    BY <2>1
  <2>3. \E H : ingestion' \in [ShowJobs -> ShowJobRecord(H)]
    BY <2>2
  <2>4. ShowJobRecord(F)' = ShowJobRecord(F)
    BY DEF ShowJobRecord
  <2> QED BY <2>3 DEF ShowInv, ShowTypes, OnlyAnswers, ShowJobRecord
<1>4. RefersToAnswers'
  <2>1. ASSUME NEW k \in ShowJobs PROVE Collected(k)' \cup ingestion'[k].stale \subseteq Answered'
    <3>1. CASE k = j
      BY <1>2, <3>1 DEF Collected, RecordsIn
    <3>2. CASE k # j
      BY <1>1, <1>2, <3>2 DEF ShowInv, RefersToAnswers, Collected
    <3> QED BY <3>1, <3>2
  <2>2. \A e \in Shows : showDocument'[e].fresh \cup showDocument'[e].stale \subseteq Answered'
    BY <1>1 DEF ShowInv, RefersToAnswers
  <2>3. \A o \in Responses : responses'[o].show # NoShow => o \in Answered'
    BY <1>1 DEF ShowInv, RefersToAnswers, OnlyAnswers
  <2> QED BY <2>1, <2>2, <2>3 DEF RefersToAnswers
<1>5. \A k \in ShowJobs : ShowHeld(k)'
  BY <1>2 DEF ShowInv, ShowHeld
<1>6. ASSUME NEW k \in ShowJobs PROVE ReadyToPublish(k)'
  <2>1. CASE k = j
    <3>1. Collected(k)' = RecordsIn(r)
      BY <1>2, <2>1 DEF Collected, RecordsIn
    <3>2. ASSUME r.pc = "publish", NEW o \in Responses, responses[o].show = r.show
          PROVE  KeptBy(o, RecordsIn(r), r.stale)'
      BY <3>2 DEF KeptBy, Sources, RecordsIn
    <3> QED BY <1>2, <2>1, <3>1, <3>2 DEF ReadyToPublish, OnlyAnswers
  <2>2. CASE k # j
    <3> SUFFICES ASSUME ingestion[k].pc = "publish", NEW o \in Responses, responses[o].show = ingestion[k].show
                 PROVE  KeptBy(o, Collected(k), ingestion[k].stale)'
      BY <1>2, <2>2 DEF ReadyToPublish, OnlyAnswers
    <3>1. PICK fresh, stale : fresh = Collected(k) /\ stale = ingestion[k].stale
      OBVIOUS
    <3>2. Collected(k)' = fresh /\ ingestion'[k].stale = stale
      BY <1>2, <2>2, <3>1 DEF Collected
    <3>3. KeptBy(o, fresh, stale) /\ fresh \cup stale \subseteq Answered
      BY <3>1 DEF ShowInv, ReadyToPublish, RefersToAnswers
    <3>4. o \in Answered
      BY DEF ShowInv, ShowHeld, RefersToAnswers
    <3>5. KeptBy(o, fresh, stale)'
      BY <3>3, <3>4, StaysKept DEF OnlyAnswers
    <3> QED BY <3>2, <3>5
  <2> QED BY <2>1, <2>2
<1>7. DocumentKeepsEvidence'
  <2> SUFFICES ASSUME NEW o \in Responses, responses'[o].show # NoShow
               PROVE  KeptBy(o, showDocument[responses[o].show].fresh, showDocument[responses[o].show].stale)'
    BY KeepsEvidenceNext
  <2>1. PICK fresh, stale : fresh = showDocument[responses[o].show].fresh /\ stale = showDocument[responses[o].show].stale
    OBVIOUS
  <2>2. responses'[o].show = responses[o].show /\ responses[o].show \in Shows
    BY DEF OnlyAnswers, ShowInv, ShowTypes, Response
  <2>3. KeptBy(o, fresh, stale) /\ fresh \cup stale \subseteq Answered /\ o \in Answered
    BY <2>1, <2>2, KeepsEvidenceIs DEF ShowInv, RefersToAnswers
  <2>4. KeptBy(o, fresh, stale)'
    BY <2>3, StaysKept DEF OnlyAnswers
  <2> QED BY <2>1, <2>2, <2>4
<1> QED BY <1>3, <1>4, <1>5, <1>6, <1>7 DEF ShowInv

\* What a job collects are answers.
LEMMA AnswersAreAnswered ==
    ASSUME ShowInv, NEW id \in ProviderIds, NEW o \in Responses, Answers(id, o)
    PROVE  OnlyAnswers /\ o \in Answered'
<1>1. id # NoShow
  BY EpisodicAssumption
<1>2. responses \in [Responses -> Response]
  BY DEF ShowInv, ShowTypes
<1>3. CASE responses' = responses /\ responses[o].of = id
  BY <1>1, <1>2, <1>3 DEF OnlyAnswers, Answered
<1>4. ASSUME responses[o].of = NoShow, NEW lists \in Listings[id],
             responses' = [responses EXCEPT ![o].of = id, ![o].lists = lists]
      PROVE  OnlyAnswers /\ o \in Answered'
  <2>1. lists \in Seq(ProviderIds)
    BY EpisodicAssumption
  <2>2. PICK row : row = [responses[o] EXCEPT !.of = id, !.lists = lists]
    OBVIOUS
  <2>3. row \in Response /\ row.of = id /\ row.show = responses[o].show
    BY <1>2, <2>1, <2>2 DEF Response
  <2>4. responses' = [responses EXCEPT ![o] = row]
    BY <1>4, <2>2
  <2>5. responses' \in [Responses -> Response]
    BY <1>2, <2>3, <2>4
  <2>6. responses'[o] = row /\ \A p \in Responses \ {o} : responses'[p] = responses[p]
    BY <1>2, <2>4
  <2> QED BY <1>1, <1>4, <2>3, <2>5, <2>6 DEF OnlyAnswers, Answered
<1> QED BY <1>3, <1>4 DEF Answers

\* An attempt that ends otherwise, whatever it had collected.
LEMMA FailedIs ==
    ASSUME ShowInv, NEW j \in ShowJobs, NEW F, ingestion \in [ShowJobs -> ShowJobRecord(F)]
    PROVE  /\ Failed(j) \in ShowJobRecord({}) /\ Failed(j).pc = "failed" /\ Failed(j).show = NoShow
           /\ RecordsIn(Failed(j)) = {} /\ Failed(j).stale = {}
<1>1. ingestion[j].attempt \in Nat
  BY DEF ShowJobRecord
<1>2. PICK n \in Nat : n = ingestion[j].attempt
  BY <1>1
<1>3. PICK none : none = NotIngesting
  OBVIOUS
<1>4. /\ none \in ShowJobRecord({}) /\ none.show = NoShow /\ none.stale = {} /\ none.records = <<>>
  BY <1>3, EpisodicAssumption DEF NotIngesting, ShowJobRecord
<1>5. Failed(j) = [none EXCEPT !.pc = "failed", !.attempt = n]
  BY <1>2, <1>3 DEF Failed
<1>6. [none EXCEPT !.pc = "failed", !.attempt = n] \in ShowJobRecord({})
  BY <1>4 DEF ShowJobRecord
<1>7. Failed(j).pc = "failed" /\ Failed(j).show = NoShow /\ Failed(j).stale = {} /\ Failed(j).records = <<>>
  BY <1>4, <1>5 DEF ShowJobRecord
<1> QED BY <1>5, <1>6, <1>7 DEF RecordsIn

\* What the record of a root leads to are provider ids.
LEMMA FoundAreIds ==
    ASSUME ShowInv, NEW j \in ShowJobs, ingestion[j].records # <<>>
    PROVE  FoundBy(j) \subseteq ProviderIds
<1>1. PICK F : ingestion \in [ShowJobs -> ShowJobRecord(F)]
  BY DEF ShowInv, ShowTypes
<1>2. ingestion[j].records[1] \in Responses
  BY <1>1 DEF ShowJobRecord
<1>3. responses[ingestion[j].records[1]].lists \in Seq(ProviderIds)
  BY <1>2 DEF ShowInv, ShowTypes, Response
<1> QED BY <1>3 DEF FoundBy, ToSet

\* A step that changes what one job knows, and adds answers if anything.
LEMMA JobStepKeeps ==
    ASSUME ShowInv, NEW j \in ShowJobs,
           \/ StartShow(j) \/ CollectRoot(j) \/ PromoteRoot(j) \/ CollectSupplement(j)
           \/ NormalizeRecords(j) \/ ResolveId(j) \/ RefuseConflict(j) \/ CreateShow(j) \/ LockShow(j)
           \/ AbortShow(j) \/ CrashShow(j)
    PROVE  ShowInv'
<1>1. PICK F : ingestion \in [ShowJobs -> ShowJobRecord(F)]
  BY DEF ShowInv, ShowTypes
<1>2. PICK old \in ShowJobRecord(F) : old = ingestion[j]
  BY <1>1
<1>3. /\ RecordsIn(old) \cup old.stale \subseteq Answered /\ Collected(j) = RecordsIn(old)
      /\ old.pc \in {"root", "collect"} => old.root \in ProviderIds
      /\ old.pc = "collect" => old.records # <<>>
      /\ old.pc \in {"write", "publish"} <=> old.show # NoShow
  BY <1>2 DEF ShowInv, RefersToAnswers, ShowHeld, Collected, RecordsIn
<1>4. ASSUME UNCHANGED responses PROVE OnlyAnswers /\ Answered' = Answered
  BY <1>4 DEF ShowInv, ShowTypes, OnlyAnswers, Answered
<1>5. CASE StartShow(j)
  <2>0. PICK none : none = NotIngesting
    OBVIOUS
  <2>1. PICK n \in Nat, id \in ProviderIds : n = ingestion[j].attempt + 1 /\ id = RootOf[j]
    <3>1. old.attempt \in Nat
      BY DEF ShowJobRecord
    <3>2. ingestion[j].attempt + 1 \in Nat /\ RootOf[j] \in ProviderIds
      BY <1>2, <3>1, EpisodicAssumption
    <3> QED BY <3>2
  <2>2. none \in ShowJobRecord({}) /\ none.show = NoShow /\ none.stale = {} /\ none.records = <<>>
    BY <2>0, EpisodicAssumption DEF NotIngesting, ShowJobRecord
  <2>3. PICK r : r = [none EXCEPT !.pc = "root", !.attempt = n, !.root = id]
    OBVIOUS
  <2>4. r \in ShowJobRecord({})
    BY <2>2, <2>3 DEF ShowJobRecord
  <2>5. r.pc = "root" /\ r.root \in ProviderIds /\ r.show = NoShow /\ r.stale = {} /\ RecordsIn(r) = {}
    BY <2>2, <2>3 DEF ShowJobRecord, RecordsIn
  <2>6. ingestion' = [ingestion EXCEPT ![j] = r] /\ UNCHANGED <<responses, showDocument>>
    BY <1>5, <2>0, <2>1, <2>3 DEF StartShow, storedShows
  <2> QED BY <1>1, <1>4, <2>4, <2>5, <2>6, LocalKeeps
<1>6. CASE CollectRoot(j)
  <2>1. PICK o \in Responses :
          /\ Answers(old.root, o) /\ old.pc = "root" /\ UNCHANGED showDocument
          /\ ingestion' = [ingestion EXCEPT ![j].pc = "collect", ![j].records = <<o>>]
    BY <1>2, <1>6 DEF CollectRoot, At
  <2>2. PICK rs \in Seq(Responses) : rs = <<o>>
    <3>1. <<o>> \in Seq(Responses)
      OBVIOUS
    <3> QED BY <3>1
  <2>3. PICK r : r = [old EXCEPT !.pc = "collect", !.records = rs]
    OBVIOUS
  <2>4. r \in ShowJobRecord(F)
    BY <2>3 DEF ShowJobRecord
  <2>5. r.pc = "collect" /\ r.records = <<o>> /\ r.root = old.root /\ r.show = old.show /\ r.stale = old.stale
    BY <2>3, <2>2 DEF ShowJobRecord
  <2>6. RecordsIn(r) = {o} /\ r.records # <<>>
    BY <2>5 DEF RecordsIn
  <2>7. OnlyAnswers /\ o \in Answered' /\ Answered \subseteq Answered'
    BY <1>3, <2>1, AnswersAreAnswered DEF OnlyAnswers, Answered
  <2>8. ingestion' = [ingestion EXCEPT ![j] = r]
    BY <1>2, <2>1, <2>3, <2>2
  <2>9. RecordsIn(r) \cup r.stale \subseteq Answered'
    BY <1>3, <2>5, <2>6, <2>7
  <2>10. r.show = NoShow
    BY <1>3, <2>1, <2>5
  <2> QED BY <1>1, <1>3, <2>1, <2>4, <2>5, <2>6, <2>7, <2>8, <2>9, <2>10, LocalKeeps
<1>7. CASE PromoteRoot(j)
  <2>1. PICK t \in FoundBy(j) :
          /\ old.pc = "collect" /\ UNCHANGED <<responses, showDocument>>
          /\ ingestion' = [ingestion EXCEPT ![j].pc = "root", ![j].root = t, ![j].records = <<>>]
    BY <1>2, <1>7 DEF PromoteRoot, At, storedShows
  <2>2. t \in ProviderIds
    BY <1>2, <1>3, <2>1, FoundAreIds
  <2>3. PICK rs \in Seq(Responses) : rs = <<>>
    <3>1. <<>> \in Seq(Responses)
      OBVIOUS
    <3> QED BY <3>1
  <2>4. PICK r : r = [old EXCEPT !.pc = "root", !.root = t, !.records = rs]
    OBVIOUS
  <2>5. r \in ShowJobRecord(F)
    BY <2>2, <2>4 DEF ShowJobRecord
  <2>6. r.pc = "root" /\ r.records = <<>> /\ r.root = t /\ r.show = old.show /\ r.stale = old.stale
    BY <2>4, <2>3 DEF ShowJobRecord
  <2>7. RecordsIn(r) = {}
    BY <2>6 DEF RecordsIn
  <2>8. ingestion' = [ingestion EXCEPT ![j] = r]
    BY <1>2, <2>1, <2>4, <2>3
  <2>9. r.show = NoShow
    BY <1>3, <2>1, <2>6
  <2> QED BY <1>1, <1>3, <1>4, <2>1, <2>2, <2>5, <2>6, <2>7, <2>8, <2>9, LocalKeeps
<1>8. CASE CollectSupplement(j)
  <2>1. PICK id \in FoundBy(j), o \in Responses :
          /\ Answers(id, o) /\ old.pc = "collect" /\ UNCHANGED showDocument
          /\ ingestion' = [ingestion EXCEPT ![j].records = Append(@, o)]
    BY <1>2, <1>8 DEF CollectSupplement, At
  <2>2. id \in ProviderIds
    BY <1>2, <1>3, <2>1, FoundAreIds
  <2>3. PICK rs \in Seq(Responses) : rs = Append(old.records, o)
    <3>1. old.records \in Seq(Responses)
      BY DEF ShowJobRecord
    <3>2. Append(old.records, o) \in Seq(Responses)
      BY <3>1
    <3> QED BY <3>2
  <2>4. rs # <<>> /\ {rs[i] : i \in DOMAIN rs} = RecordsIn(old) \cup {o}
    <3>1. old.records \in Seq(Responses)
      BY DEF ShowJobRecord
    <3> QED BY <2>3, <3>1 DEF RecordsIn
  <2>5. PICK r : r = [old EXCEPT !.records = rs]
    OBVIOUS
  <2>6. r \in ShowJobRecord(F)
    BY <2>5 DEF ShowJobRecord
  <2>7. r.pc = "collect" /\ r.records = rs /\ r.root = old.root /\ r.show = old.show /\ r.stale = old.stale
    BY <2>1, <2>5 DEF ShowJobRecord
  <2>8. OnlyAnswers /\ o \in Answered' /\ Answered \subseteq Answered'
    BY <2>1, <2>2, AnswersAreAnswered DEF OnlyAnswers, Answered
  <2>9. RecordsIn(r) \cup r.stale \subseteq Answered'
    BY <1>3, <2>4, <2>7, <2>8 DEF RecordsIn
  <2>10. ingestion' = [ingestion EXCEPT ![j] = r]
    BY <1>2, <2>1, <2>3, <2>5
  <2>11. r.show = NoShow
    BY <1>3, <2>1, <2>7
  <2> QED BY <1>1, <1>3, <2>1, <2>4, <2>6, <2>7, <2>8, <2>9, <2>10, <2>11, LocalKeeps
<1>9. CASE NormalizeRecords(j)
  <2>1. PICK r : r = [old EXCEPT !.pc = "resolve"]
    OBVIOUS
  <2>2. r \in ShowJobRecord(F)
    BY <2>1 DEF ShowJobRecord, Persisting
  <2>3. r.pc = "resolve" /\ r.records = old.records /\ r.show = old.show /\ r.stale = old.stale
    BY <2>1 DEF ShowJobRecord
  <2>4. old.pc = "collect" /\ ingestion' = [ingestion EXCEPT ![j] = r] /\ UNCHANGED <<responses, showDocument>>
    BY <1>2, <1>9, <2>1 DEF NormalizeRecords, At, storedShows
  <2>5. r.show = NoShow /\ RecordsIn(r) \cup r.stale \subseteq Answered
    BY <1>3, <2>3, <2>4 DEF RecordsIn
  <2> QED BY <1>1, <1>4, <2>2, <2>3, <2>4, <2>5, LocalKeeps
<1>10. CASE ResolveId(j)
  <2>1. PICK n, i, more :
          /\ n \in Nat \ {0} /\ i \in Nat \ {0} /\ old.pc = "resolve" /\ UNCHANGED <<responses, showDocument>>
          /\ ingestion' = [ingestion EXCEPT ![j].found = @ \cup more, ![j].source = i, ![j].next = n]
    <3>1. PICK ids, listed : ids = ListedBy(old.records[old.source]) /\ listed = claimRow[ids[old.next]]
      OBVIOUS
    <3>2. PICK more : more = IF listed.accepted THEN {listed.show} ELSE {}
      OBVIOUS
    <3>3. PICK i, n : /\ i = (IF old.next = Len(ids) THEN old.source + 1 ELSE old.source)
                      /\ n = (IF old.next = Len(ids) THEN 1 ELSE old.next + 1)
      OBVIOUS
    <3>4. old.source \in Nat \ {0} /\ old.next \in Nat \ {0}
      BY DEF ShowJobRecord
    <3>5. i \in Nat \ {0} /\ n \in Nat \ {0}
      BY <3>3, <3>4
    <3>6. /\ old.pc = "resolve" /\ UNCHANGED <<responses, showDocument>>
          /\ ingestion' = [ingestion EXCEPT ![j].found = @ \cup more, ![j].source = i, ![j].next = n]
      BY <1>1, <1>2, <1>10, <3>1, <3>2, <3>3 DEF ResolveId, At, storedShows
    <3> QED BY <3>5, <3>6
  <2>2. PICK r : r = [old EXCEPT !.found = old.found \cup more, !.source = i, !.next = n]
    OBVIOUS
  <2>3. r \in ShowJobRecord(F \cup more)
    BY <2>1, <2>2 DEF ShowJobRecord
  <2>4. r.pc = "resolve" /\ r.records = old.records /\ r.show = old.show /\ r.stale = old.stale
    BY <2>1, <2>2 DEF ShowJobRecord
  <2>5. ingestion' = [ingestion EXCEPT ![j] = r]
    BY <1>2, <2>1, <2>2
  <2>6. r.show = NoShow /\ RecordsIn(r) \cup r.stale \subseteq Answered
    BY <1>3, <2>1, <2>4 DEF RecordsIn
  <2> QED BY <1>1, <1>4, <2>1, <2>3, <2>4, <2>5, <2>6, LocalKeeps
<1>11. CASE CreateShow(j) \/ LockShow(j)
  <2>1. PICK e \in Shows :
          /\ old.pc = "resolve" /\ \A k \in ShowJobs : ingestion[k].show # e
          /\ ingestion' = [ingestion EXCEPT ![j].pc = "write", ![j].show = e]
          /\ UNCHANGED <<responses, showDocument>>
    BY <1>2, <1>11 DEF CreateShow, LockShow, Settled, At, storedShows
  <2>2. PICK r : r = [old EXCEPT !.pc = "write", !.show = e]
    OBVIOUS
  <2>3. r \in ShowJobRecord(F)
    BY <2>2 DEF ShowJobRecord, Persisting
  <2>4. r.pc = "write" /\ r.records = old.records /\ r.show = e /\ r.stale = old.stale
    BY <2>2 DEF ShowJobRecord
  <2>5. ingestion' = [ingestion EXCEPT ![j] = r]
    BY <1>2, <2>1, <2>2
  <2>6. e # NoShow /\ RecordsIn(r) \cup r.stale \subseteq Answered
    BY <1>3, <2>4, EpisodicAssumption DEF RecordsIn
  <2> QED BY <1>1, <1>4, <2>1, <2>3, <2>4, <2>5, <2>6, LocalKeeps
<1>12. CASE RefuseConflict(j) \/ AbortShow(j) \/ CrashShow(j)
  <2>1. ingestion' = [ingestion EXCEPT ![j] = Failed(j)] /\ UNCHANGED <<responses, showDocument>>
    BY <1>12 DEF RefuseConflict, AbortShow, CrashShow, storedShows
  <2>2. PICK r : r = Failed(j)
    OBVIOUS
  <2>3. r \in ShowJobRecord({}) /\ r.pc = "failed" /\ r.show = NoShow /\ RecordsIn(r) = {} /\ r.stale = {}
    BY <1>1, <2>2, FailedIs
  <2> QED BY <1>1, <1>4, <2>1, <2>2, <2>3, LocalKeeps
<1> QED BY <1>5, <1>6, <1>7, <1>8, <1>9, <1>10, <1>11, <1>12

\* The fallbacks complete what was collected: of every provider that did not answer the
\* newest record of the show.
LEMMA FallbacksKeep ==
    ASSUME ShowInv, NEW j \in ShowJobs, LoadFallbacks(j)
    PROVE  ShowInv'
<1>1. PICK F : ingestion \in [ShowJobs -> ShowJobRecord(F)]
  BY DEF ShowInv, ShowTypes
<1>2. PICK old \in ShowJobRecord(F) : old = ingestion[j]
  BY <1>1
<1>3. PICK others, fallbacks :
        /\ others = {o \in Responses : /\ responses[o].show = old.show
                                       /\ SourceOf[responses[o].of] \notin Sources(RecordsIn(old))}
        /\ fallbacks = {o \in others : \A p \in others : SourceOf[responses[p].of] = SourceOf[responses[o].of] => p <= o}
  OBVIOUS
<1>4. PICK r : r = [old EXCEPT !.pc = "publish", !.stale = fallbacks]
  OBVIOUS
<1>5. /\ old.pc = "write" /\ UNCHANGED <<responses, showDocument>>
      /\ ingestion' = [ingestion EXCEPT ![j] = r]
  <2>1. Collected(j) = RecordsIn(old)
    BY <1>2 DEF Collected, RecordsIn
  <2>2. PICK read : read = {o \in Responses : /\ responses[o].show = ingestion[j].show
                                             /\ SourceOf[responses[o].of] \notin Sources(Collected(j))}
    OBVIOUS
  <2>3. read = others
    BY <1>2, <1>3, <2>1, <2>2
  <2>4. /\ old.pc = "write" /\ UNCHANGED <<responses, showDocument>>
        /\ ingestion' = [ingestion EXCEPT ![j].pc = "publish", ![j].stale = {o \in read :
               \A p \in read : SourceOf[responses[p].of] = SourceOf[responses[o].of] => p <= o}]
    BY <1>2, <2>2 DEF LoadFallbacks, At, storedShows
  <2>5. ingestion' = [ingestion EXCEPT ![j].pc = "publish", ![j].stale = fallbacks]
    BY <1>3, <2>3, <2>4
  <2> QED BY <1>2, <1>4, <2>4, <2>5
<1>6. r \in ShowJobRecord(F)
  BY <1>3, <1>4 DEF ShowJobRecord, Persisting
<1>7. r.pc = "publish" /\ r.records = old.records /\ r.show = old.show /\ r.stale = fallbacks
  BY <1>4 DEF ShowJobRecord
<1>8. old.show # NoShow /\ RecordsIn(r) = RecordsIn(old) /\ RecordsIn(old) \subseteq Answered
  BY <1>2, <1>5, <1>7 DEF ShowInv, ShowHeld, RefersToAnswers, Collected, RecordsIn
<1>9. fallbacks \subseteq Answered
  BY <1>3, <1>8 DEF ShowInv, RefersToAnswers
<1>10. ASSUME NEW o \in Responses, responses[o].show = r.show
       PROVE  KeptBy(o, RecordsIn(r), r.stale)
  <2>1. CASE o \notin others
    BY <1>3, <1>7, <1>8, <1>10, <2>1 DEF KeptBy
  <2>2. CASE o \in others
    <3> DEFINE same == {p \in others : SourceOf[responses[p].of] = SourceOf[responses[o].of]}
    <3>1. same \subseteq 1 .. MaxResponses /\ same # {}
      BY <1>3, <2>2 DEF Responses
    <3>2. PICK m \in same : \A p \in same : p <= m
      <4> HIDE DEF same
      <4> QED BY <3>1, LargestExists, EpisodicAssumption
    <3>3. m \in fallbacks /\ m >= o
      BY <1>3, <2>2, <3>2 DEF Responses
    <3> QED BY <1>7, <3>2, <3>3 DEF KeptBy
  <2> QED BY <2>1, <2>2
<1>11. OnlyAnswers /\ Answered' = Answered
  BY <1>5 DEF ShowInv, ShowTypes, OnlyAnswers, Answered
<1>12. \A k \in ShowJobs \ {j} : ingestion[k].show = r.show => r.show = NoShow
  BY <1>2, <1>7 DEF ShowInv, ShowHeld
<1> QED BY <1>1, <1>5, <1>6, <1>7, <1>8, <1>9, <1>10, <1>11, <1>12, LocalKeeps

\* What a job publishes keeps what its show has got by then, and takes from others.
LEMMA PublishKeeps ==
    ASSUME ShowInv, NEW j \in ShowJobs, PublishShow(j)
    PROVE  ShowInv'
<1>1. PICK F : ingestion \in [ShowJobs -> ShowJobRecord(F)]
  BY DEF ShowInv, ShowTypes
<1>2. PICK e, fresh, stale : e = ingestion[j].show /\ fresh = Collected(j) /\ stale = ingestion[j].stale
  OBVIOUS
<1>3. PICK r : r = [Failed(j) EXCEPT !.pc = "done"]
  OBVIOUS
<1>4. /\ ingestion[j].pc = "publish" /\ ingestion' = [ingestion EXCEPT ![j] = r]
      /\ responses' = [o \in Responses |-> IF o \in fresh THEN [responses[o] EXCEPT !.show = e] ELSE responses[o]]
      /\ showDocument' = [showDocument EXCEPT ![e] = [fresh |-> fresh, stale |-> stale]]
  BY <1>2, <1>3 DEF PublishShow, At
<1>5. r \in ShowJobRecord({}) /\ r.pc = "done" /\ r.show = NoShow /\ RecordsIn(r) = {} /\ r.stale = {}
  <2>1. PICK f : f = Failed(j)
    OBVIOUS
  <2>2. f \in ShowJobRecord({}) /\ f.show = NoShow /\ RecordsIn(f) = {} /\ f.stale = {}
    BY <1>1, <2>1, FailedIs
  <2>3. r = [f EXCEPT !.pc = "done"]
    BY <1>3, <2>1
  <2>4. r \in ShowJobRecord({})
    BY <2>2, <2>3 DEF ShowJobRecord
  <2>5. r.pc = "done" /\ r.show = f.show /\ r.records = f.records /\ r.stale = f.stale
    BY <2>2, <2>3 DEF ShowJobRecord
  <2> QED BY <2>2, <2>4, <2>5 DEF RecordsIn
<1>6. e \in Shows /\ fresh \cup stale \subseteq Answered /\ fresh \cup stale \subseteq Responses
  <2>1. e # NoShow /\ fresh \cup stale \subseteq Answered
    BY <1>2, <1>4 DEF ShowInv, ShowHeld, RefersToAnswers
  <2>2. e \in Shows \cup {NoShow}
    BY <1>1, <1>2 DEF ShowJobRecord
  <2> QED BY <2>1, <2>2 DEF Answered
<1>7. \A o \in Responses : responses'[o].of = responses[o].of
                            /\ responses'[o].show = IF o \in fresh THEN e ELSE responses[o].show
  BY <1>4 DEF ShowInv, ShowTypes, Response
<1>8. Answered' = Answered
  BY <1>7 DEF Answered
<1>9. ingestion'[j] = r /\ \A k \in ShowJobs \ {j} : ingestion'[k] = ingestion[k]
  BY <1>1, <1>4
<1>10. showDocument'[e] = [fresh |-> fresh, stale |-> stale] /\ \A x \in Shows \ {e} : showDocument'[x] = showDocument[x]
  BY <1>4, <1>6 DEF ShowInv, ShowTypes
<1>11. ShowTypes'
  <2>1. responses' \in [Responses -> Response]
    BY <1>4, <1>6 DEF ShowInv, ShowTypes, Response
  <2>2. showDocument' \in [Shows -> ShowDocument]
    <3>1. [fresh |-> fresh, stale |-> stale] \in ShowDocument
      BY <1>6 DEF ShowDocument
    <3> QED BY <1>4, <3>1 DEF ShowInv, ShowTypes
  <2>3. ShowJobRecord({}) \subseteq ShowJobRecord(F)
    BY DEF ShowJobRecord
  <2>4. ingestion' \in [ShowJobs -> ShowJobRecord(F)]
    BY <1>1, <1>4, <1>5, <2>3
  <2> QED BY <2>1, <2>2, <2>4 DEF ShowTypes, ShowJobRecord
<1>12. RefersToAnswers'
  <2>1. ASSUME NEW k \in ShowJobs PROVE Collected(k)' \cup ingestion'[k].stale \subseteq Answered
    <3>1. CASE k = j
      BY <1>5, <1>9, <3>1 DEF Collected, RecordsIn
    <3>2. CASE k # j
      BY <1>9, <3>2 DEF ShowInv, RefersToAnswers, Collected
    <3> QED BY <3>1, <3>2
  <2>2. \A x \in Shows : showDocument'[x].fresh \cup showDocument'[x].stale \subseteq Answered
    BY <1>6, <1>10 DEF ShowInv, RefersToAnswers
  <2>3. \A o \in Responses : responses'[o].show # NoShow => o \in Answered
    BY <1>6, <1>7 DEF ShowInv, RefersToAnswers
  <2> QED BY <1>8, <2>1, <2>2, <2>3 DEF RefersToAnswers
<1>13. \A k \in ShowJobs : ShowHeld(k)'
  BY <1>5, <1>9 DEF ShowInv, ShowHeld
<1>14. ASSUME NEW k \in ShowJobs PROVE ReadyToPublish(k)'
  <2>1. CASE k = j
    BY <1>5, <1>9, <2>1 DEF ReadyToPublish
  <2>2. CASE k # j
    <3> SUFFICES ASSUME ingestion[k].pc = "publish", NEW o \in Responses, responses'[o].show = ingestion[k].show
                 PROVE  KeptBy(o, Collected(k), ingestion[k].stale)'
      BY <1>9, <2>2 DEF ReadyToPublish
    <3>1. PICK f, s : f = Collected(k) /\ s = ingestion[k].stale
      OBVIOUS
    <3>2. Collected(k)' = f /\ ingestion'[k].stale = s
      BY <1>9, <2>2, <3>1 DEF Collected
    <3>3. ingestion[k].show # e /\ ingestion[k].show # NoShow
      BY <1>2, <1>6, <2>2, EpisodicAssumption DEF ShowInv, ShowHeld
    <3>4. responses[o].show = ingestion[k].show
      BY <1>7, <3>3
    <3>5. KeptBy(o, f, s) /\ f \cup s \subseteq Answered /\ o \in Answered
      BY <3>1, <3>3, <3>4 DEF ShowInv, ReadyToPublish, RefersToAnswers
    <3>6. KeptBy(o, f, s)'
      BY <1>7, <3>5, StaysKept DEF Answered
    <3> QED BY <3>2, <3>6
  <2> QED BY <2>1, <2>2
<1>15. DocumentKeepsEvidence'
  <2> SUFFICES ASSUME NEW o \in Responses, responses'[o].show # NoShow
               PROVE  KeptBy(o, showDocument[responses[o].show].fresh, showDocument[responses[o].show].stale)'
    BY KeepsEvidenceNext
  <2>1. CASE responses'[o].show = e
    <3>1. KeptBy(o, fresh, stale)
      <4>1. CASE o \in fresh
        BY <4>1 DEF KeptBy, Sources
      <4>2. CASE o \notin fresh
        BY <1>2, <1>4, <1>7, <2>1, <4>2 DEF ShowInv, ReadyToPublish
      <4> QED BY <4>1, <4>2
    <3>2. o \in Answered
      BY <1>6, <1>7 DEF ShowInv, RefersToAnswers
    <3>3. KeptBy(o, fresh, stale)'
      BY <1>6, <1>7, <3>1, <3>2, StaysKept DEF Answered
    <3> QED BY <1>10, <2>1, <3>3
  <2>2. CASE responses'[o].show # e
    <3>1. PICK x : x = responses[o].show
      OBVIOUS
    <3>2. responses'[o].show = x /\ x \in Shows \ {e}
      BY <1>7, <2>2, <3>1 DEF ShowInv, ShowTypes, Response
    <3>3. PICK f, s : f = showDocument[x].fresh /\ s = showDocument[x].stale
      OBVIOUS
    <3>4. KeptBy(o, f, s) /\ f \cup s \subseteq Answered /\ o \in Answered
      BY <3>1, <3>2, <3>3, KeepsEvidenceIs, EpisodicAssumption DEF ShowInv, RefersToAnswers
    <3>5. KeptBy(o, f, s)'
      BY <1>7, <3>4, StaysKept DEF Answered
    <3> QED BY <1>10, <3>2, <3>3, <3>5
  <2> QED BY <2>1, <2>2
<1> QED BY <1>11, <1>12, <1>13, <1>14, <1>15 DEF ShowInv

LEMMA ShowStep == ShowInv /\ [EpisodicNext]_episodicVars => ShowInv'
<1> SUFFICES ASSUME ShowInv, [EpisodicNext]_episodicVars PROVE ShowInv'
  OBVIOUS
<1>1. CASE EpisodicNext
  <2>1. PICK j \in ShowJobs :
          \/ StartShow(j) \/ CollectRoot(j) \/ PromoteRoot(j) \/ CollectSupplement(j)
          \/ NormalizeRecords(j) \/ ResolveId(j) \/ RefuseConflict(j) \/ CreateShow(j) \/ LockShow(j)
          \/ LoadFallbacks(j) \/ PublishShow(j) \/ AbortShow(j) \/ CrashShow(j)
    BY <1>1 DEF EpisodicNext
  <2> QED BY <2>1, JobStepKeeps, FallbacksKeep, PublishKeeps
<1>2. CASE UNCHANGED episodicVars
  BY <1>2 DEF episodicVars, storedShows, ShowInv, ShowTypes, RefersToAnswers, Answered, ShowHeld, ReadyToPublish,
              KeptBy, Sources, Collected, DocumentKeepsEvidence
<1> QED BY <1>1, <1>2

\* The evidence of a show is never lost from its document, for any number of ingestions that
\* overlap, fail and die, whatever providers list and however the cache answers for them
\* (storedProviderFallbacks).
THEOREM ShowEvidenceSafety == EpisodicSpec => []DocumentKeepsEvidence
<1>1. ShowInv => DocumentKeepsEvidence
  BY DEF ShowInv
<1> QED BY <1>1, ShowInit, ShowStep, PTL DEF EpisodicSpec

\* Where a job is in the loops over its records and their ids, and what an accepted claim names.
AtClaim(m) ==
    /\ m.pc \in {"root", "collect"} => m.source = 1 /\ m.next = 1
    /\ m.pc = "resolve" /\ m.source <= Len(m.records) => m.next <= Len(ListedBy(m.records[m.source]))

AttemptsBounded(m) == m.attempt <= ShowAttempts /\ (m.pc = "idle" => m.attempt = 0)

ClaimsTyped ==
    /\ shows \subseteq Shows /\ claimRow \in [ProviderIds -> ClaimRow]
    /\ \A c \in ProviderIds : claimRow[c].accepted => claimRow[c].show # NoShow
    /\ showRun \in [ShowJobs -> {"none", "working", "failed", "completed"}]

ShowTInv ==
    /\ ingestion \in [ShowJobs -> ShowJobRecord(Shows)] /\ ClaimsTyped
    /\ \A j \in ShowJobs : AttemptsBounded(ingestion[j]) /\ AtClaim(ingestion[j])

LEMMA ShowTInit == EpisodicInit => ShowTInv
<1> SUFFICES ASSUME EpisodicInit PROVE ShowTInv
  OBVIOUS
<1>1. PICK none : none = NotIngesting
  OBVIOUS
<1>2. none \in ShowJobRecord(Shows) /\ none.pc = "idle" /\ none.attempt = 0
  BY <1>1, EpisodicAssumption DEF NotIngesting, ShowJobRecord
<1>3. \A j \in ShowJobs : ingestion[j] = none
  BY <1>1 DEF EpisodicInit
<1>4. AttemptsBounded(none) /\ AtClaim(none)
  BY <1>2, EpisodicAssumption DEF AttemptsBounded, AtClaim
<1>5. ingestion \in [ShowJobs -> ShowJobRecord(Shows)]
  BY <1>1, <1>2 DEF EpisodicInit
<1>6. ClaimsTyped
  BY DEF EpisodicInit, ClaimsTyped, ClaimRow
<1> QED BY <1>3, <1>4, <1>5, <1>6 DEF ShowTInv

\* The ids of an answer.
LEMMA ListedTyped ==
    ASSUME ShowInv, NEW o \in Answered
    PROVE  ListedBy(o) \in Seq(ProviderIds) /\ Len(ListedBy(o)) \in Nat \ {0}
<1>1. responses[o] \in Response /\ responses[o].of # NoShow
  BY DEF ShowInv, ShowTypes, Answered
<1>2. PICK lists, id : lists = responses[o].lists /\ id = responses[o].of
  OBVIOUS
<1>3. lists \in Seq(ProviderIds) /\ id \in ProviderIds
  BY <1>1, <1>2 DEF Response
<1>4. Append(lists, id) \in Seq(ProviderIds) /\ Len(Append(lists, id)) \in Nat \ {0}
  BY <1>3
<1> QED BY <1>2, <1>4 DEF ListedBy

\* What an answer says stays.
AnswersStay == \A o \in Answered : responses'[o].of = responses[o].of /\ responses'[o].lists = responses[o].lists

LEMMA ListedStay == ASSUME AnswersStay, NEW o \in Answered PROVE ListedBy(o)' = ListedBy(o)
BY DEF AnswersStay, ListedBy

LEMMA AnswersStayAnswers ==
    ASSUME ShowInv, NEW id \in ProviderIds, NEW o \in Responses, Answers(id, o)
    PROVE  AnswersStay
<1>1. responses \in [Responses -> Response]
  BY DEF ShowInv, ShowTypes
<1>2. ASSUME NEW p \in Answered PROVE responses'[p].of = responses[p].of /\ responses'[p].lists = responses[p].lists
  BY <1>1, <1>2 DEF Answers, Answered
<1> QED BY <1>2 DEF AnswersStay

\* A step of one job.
LEMMA ShowJobTyped ==
    ASSUME ShowInv, ShowTInv, AnswersStay, NEW j \in ShowJobs, NEW m \in ShowJobRecord(Shows),
           ingestion' = [ingestion EXCEPT ![j] = m], AttemptsBounded(m), AtClaim(m)', ClaimsTyped'
    PROVE  ShowTInv'
<1>1. ingestion' \in [ShowJobs -> ShowJobRecord(Shows)] /\ ingestion'[j] = m
      /\ \A k \in ShowJobs \ {j} : ingestion'[k] = ingestion[k]
  BY DEF ShowTInv
<1>2. \A k \in ShowJobs : AttemptsBounded(ingestion'[k])
  BY <1>1 DEF ShowTInv
<1>3. ASSUME NEW k \in ShowJobs PROVE AtClaim(ingestion[k])'
  <2>1. CASE k = j
    BY <1>1, <2>1 DEF AtClaim, ListedBy
  <2>2. CASE k # j
    <3>1. PICK old \in ShowJobRecord(Shows) : old = ingestion[k] /\ AtClaim(old)
      BY DEF ShowTInv
    <3>2. ASSUME old.pc = "resolve", old.source <= Len(old.records) PROVE old.records[old.source] \in Answered
      <4>1. old.source \in DOMAIN old.records
        BY <3>2 DEF ShowJobRecord
      <4>2. Collected(k) \subseteq Answered
        BY DEF ShowInv, RefersToAnswers
      <4> QED BY <3>1, <4>1, <4>2 DEF Collected
    <3>3. AtClaim(old)'
      BY <3>1, <3>2, ListedStay DEF AtClaim
    <3> QED BY <1>1, <2>2, <3>1, <3>3 DEF AtClaim, ListedBy
  <2> QED BY <2>1, <2>2
<1>4. ShowJobRecord(Shows)' = ShowJobRecord(Shows)
  BY DEF ShowJobRecord
<1> QED BY <1>1, <1>2, <1>3, <1>4 DEF ShowTInv, AttemptsBounded

LEMMA IdleTyped == NotIngesting \in ShowJobRecord(Shows) /\ NotIngesting.source = 1 /\ NotIngesting.next = 1
BY DEF NotIngesting, ShowJobRecord

LEMMA FailedTyped ==
    ASSUME ShowTInv, NEW j \in ShowJobs, NEW pc \in {"failed", "done"}
    PROVE  /\ [Failed(j) EXCEPT !.pc = pc] \in ShowJobRecord(Shows)
           /\ AttemptsBounded([Failed(j) EXCEPT !.pc = pc]) /\ [Failed(j) EXCEPT !.pc = pc].pc = pc
<1>1. PICK n \in Nat : n = ingestion[j].attempt /\ n <= ShowAttempts
  BY DEF ShowTInv, ShowJobRecord, AttemptsBounded
<1>2. PICK none \in ShowJobRecord(Shows) : none = NotIngesting
  BY IdleTyped
<1>3. PICK ended : ended = [none EXCEPT !.pc = "failed", !.attempt = n]
  OBVIOUS
<1>4. ended \in ShowJobRecord(Shows) /\ ended.attempt = n
  BY <1>1, <1>3 DEF ShowJobRecord
<1>5. ended = Failed(j)
  BY <1>1, <1>2, <1>3 DEF Failed
<1>6. [ended EXCEPT !.pc = pc] \in ShowJobRecord(Shows) /\ [ended EXCEPT !.pc = pc].attempt = n /\ [ended EXCEPT !.pc = pc].pc = pc
  BY <1>4 DEF ShowJobRecord
<1> QED BY <1>1, <1>5, <1>6 DEF AttemptsBounded

\* The claims as a transaction writes them: an accepted one names a show.
LEMMA ClaimedTyped ==
    ASSUME ShowInv, ShowTInv, NEW j \in ShowJobs, ingestion[j].show \in Shows
    PROVE  /\ Claimed(j) \in [ProviderIds -> ClaimRow]
           /\ \A c \in ProviderIds : Claimed(j)[c].accepted => Claimed(j)[c].show # NoShow
<1>1. PICK rs \in Seq(Responses), e \in Shows : rs = ingestion[j].records /\ e = ingestion[j].show
  BY DEF ShowTInv, ShowJobRecord
<1> DEFINE last(c) == SelectLastInSeq(ingestion[j].records, LAMBDA o : c \in ToSet(ListedBy(o)))
           row(c) == IF last(c) > 0 /\ claimRow[c].show \in {NoShow, e}
                     THEN [show |-> e, accepted |-> TRUE, source |-> rs[last(c)]]
                     ELSE [claimRow[c] EXCEPT !.accepted =
                             @ /\ ~ (claimRow[c].show = e /\ SourceOf[responses[claimRow[c].source].of] \in Sources(Collected(j)))]
<1>2. Claimed(j) = [c \in ProviderIds |-> row(c)]
  BY <1>1 DEF Claimed
<1>3. ASSUME NEW c \in ProviderIds PROVE row(c) \in ClaimRow /\ (row(c).accepted => row(c).show # NoShow)
  <2>1. ASSUME last(c) > 0 PROVE rs[last(c)] \in Responses
    <3> DEFINE found == {i \in 1..Len(rs) : c \in ToSet(ListedBy(rs[i]))}
    <3>1. last(c) = IF found # {} THEN Max(found) ELSE 0
      BY <1>1 DEF SelectLastInSeq
    <3>2. found # {}
      BY <2>1, <3>1
    <3>3. Len(rs) \in Nat /\ found \subseteq 1..Len(rs)
      BY <1>1
    <3>4. PICK m \in found : \A i \in found : i <= m
      <4> HIDE DEF found
      <4> QED BY <3>2, <3>3, LargestExists
    <3>5. Max(found) \in found
      <4>1. \A i \in found : m >= i
        BY <3>3, <3>4
      <4> HIDE DEF found
      <4> QED BY <3>4, <4>1 DEF Max
    <3>6. PICK k \in 1..Len(rs) : k = last(c)
      BY <3>1, <3>2, <3>3, <3>5
    <3>7. rs[k] \in Responses
      BY <1>1, <3>6
    <3> QED BY <3>6, <3>7
  <2>2. PICK old \in ClaimRow : old = claimRow[c] /\ (old.accepted => old.show # NoShow)
    BY DEF ShowTInv, ClaimsTyped
  <2> HIDE DEF last
  <2>3. CASE last(c) > 0 /\ old.show \in {NoShow, e}
    <3>1. row(c) = [show |-> e, accepted |-> TRUE, source |-> rs[last(c)]]
      BY <2>2, <2>3
    <3>2. e # NoShow
      BY EpisodicAssumption
    <3> HIDE DEF row
    <3> QED BY <2>1, <2>3, <3>1, <3>2 DEF ClaimRow
  <2>4. CASE ~(last(c) > 0 /\ old.show \in {NoShow, e})
    <3>1. PICK accepted \in BOOLEAN :
            accepted = (old.accepted /\ ~ (old.show = e /\ SourceOf[responses[old.source].of] \in Sources(Collected(j))))
      OBVIOUS
    <3>2. row(c) = [old EXCEPT !.accepted = accepted]
      BY <2>2, <2>4, <3>1
    <3>3. accepted => old.accepted
      BY <3>1
    <3> HIDE DEF row
    <3> QED BY <2>2, <3>2, <3>3 DEF ClaimRow
  <2> QED BY <2>3, <2>4
<1> HIDE DEF row
<1> QED BY <1>2, <1>3

LEMMA ShowTStep == ASSUME ShowInv, ShowTInv, [EpisodicNext]_episodicVars PROVE ShowTInv'
<1>1. ASSUME NEW j \in ShowJobs, NEW m \in ShowJobRecord(Shows), ingestion' = [ingestion EXCEPT ![j] = m],
             AttemptsBounded(m), UNCHANGED <<responses, shows, claimRow>>, AtClaim(m),
             showRun' \in [ShowJobs -> {"none", "working", "failed", "completed"}]
      PROVE  ShowTInv'
  <2>1. AnswersStay /\ AtClaim(m)' /\ ClaimsTyped'
    BY <1>1 DEF AnswersStay, AtClaim, ListedBy, ShowTInv, ClaimsTyped
  <2> QED BY <1>1, <2>1, ShowJobTyped
<1>2. ASSUME NEW j \in ShowJobs, StartShow(j) PROVE ShowTInv'
  <2>1. PICK n \in Nat, id \in ProviderIds : n = ingestion[j].attempt + 1 /\ n <= ShowAttempts /\ id = RootOf[j]
    <3>1. PICK old \in ShowJobRecord(Shows) : old = ingestion[j] /\ AttemptsBounded(old)
      BY DEF ShowTInv
    <3>2. old.attempt \in Nat /\ (old.attempt = 0 \/ old.attempt < ShowAttempts)
      BY <1>2, <3>1 DEF ShowJobRecord, AttemptsBounded, StartShow, At
    <3>3. old.attempt + 1 \in Nat /\ old.attempt + 1 <= ShowAttempts /\ RootOf[j] \in ProviderIds
      BY <3>2, EpisodicAssumption
    <3> QED BY <3>1, <3>3
  <2>2. PICK none \in ShowJobRecord(Shows) : none = NotIngesting /\ none.source = 1 /\ none.next = 1
    BY IdleTyped
  <2>3. PICK m : m = [none EXCEPT !.pc = "root", !.attempt = n, !.root = id]
    OBVIOUS
  <2>4. ingestion' = [ingestion EXCEPT ![j] = m]
    BY <1>2, <2>1, <2>2, <2>3 DEF StartShow
  <2>5. m \in ShowJobRecord(Shows) /\ m.pc = "root" /\ m.attempt = n /\ m.source = 1 /\ m.next = 1
    BY <2>1, <2>2, <2>3 DEF ShowJobRecord
  <2>6. AttemptsBounded(m) /\ AtClaim(m)
    BY <2>1, <2>5 DEF AttemptsBounded, AtClaim
  <2> QED BY <1>1, <1>2, <2>4, <2>5, <2>6 DEF StartShow, storedShows, ShowTInv, ClaimsTyped
<1>3. ASSUME NEW j \in ShowJobs, RefuseConflict(j) \/ AbortShow(j) \/ CrashShow(j) PROVE ShowTInv'
  <2>1. PICK m : m = [Failed(j) EXCEPT !.pc = "failed"]
    OBVIOUS
  <2>2. m = Failed(j)
    BY <2>1 DEF Failed, NotIngesting
  <2>3. m \in ShowJobRecord(Shows) /\ AttemptsBounded(m) /\ m.pc = "failed"
    BY <2>1, FailedTyped
  <2>4. AtClaim(m)
    BY <2>3 DEF AtClaim
  <2> QED BY <1>1, <1>3, <2>2, <2>3, <2>4 DEF RefuseConflict, AbortShow, CrashShow, storedShows, ShowTInv, ClaimsTyped
<1>4. ASSUME NEW j \in ShowJobs, CollectRoot(j) PROVE ShowTInv'
  <2>1. PICK old \in ShowJobRecord(Shows) : old = ingestion[j] /\ AttemptsBounded(old) /\ AtClaim(old)
    BY DEF ShowTInv
  <2>2. PICK o \in Responses : Answers(old.root, o) /\ ingestion' = [ingestion EXCEPT ![j].pc = "collect", ![j].records = <<o>>]
    BY <1>4, <2>1 DEF CollectRoot
  <2>3. old.pc = "root" /\ old.root \in ProviderIds
    BY <1>4, <2>1 DEF CollectRoot, At, ShowInv, ShowHeld
  <2>4. PICK rs \in Seq(Responses) : rs = <<o>>
    <3>1. <<o>> \in Seq(Responses)
      OBVIOUS
    <3> QED BY <3>1
  <2>5. PICK m : m = [old EXCEPT !.pc = "collect", !.records = rs]
    OBVIOUS
  <2>6. m \in ShowJobRecord(Shows) /\ m.pc = "collect" /\ m.attempt = old.attempt /\ m.source = old.source /\ m.next = old.next
    BY <2>5 DEF ShowJobRecord
  <2>7. AttemptsBounded(m) /\ AtClaim(m)'
    BY <2>1, <2>3, <2>6 DEF AttemptsBounded, AtClaim
  <2>8. AnswersStay
    BY <2>2, <2>3, AnswersStayAnswers
  <2>9. ingestion' = [ingestion EXCEPT ![j] = m]
    BY <2>1, <2>2, <2>4, <2>5
  <2> QED BY <1>4, <2>6, <2>7, <2>8, <2>9, ShowJobTyped DEF CollectRoot, ShowTInv, ClaimsTyped
<1>5. ASSUME NEW j \in ShowJobs, PromoteRoot(j) PROVE ShowTInv'
  <2>1. PICK old \in ShowJobRecord(Shows) : old = ingestion[j] /\ AttemptsBounded(old) /\ AtClaim(old)
    BY DEF ShowTInv
  <2>2. PICK t \in FoundBy(j) : ingestion' = [ingestion EXCEPT ![j].pc = "root", ![j].root = t, ![j].records = <<>>]
    BY <1>5, <2>1 DEF PromoteRoot
  <2>3. old.pc = "collect" /\ t \in ProviderIds
    <3>1. ingestion[j].records # <<>> /\ old.pc = "collect"
      BY <1>5, <2>1 DEF PromoteRoot, At, ShowInv, ShowHeld
    <3> QED BY <2>2, <3>1, FoundAreIds
  <2>4. PICK rs \in Seq(Responses) : rs = <<>>
    <3>1. <<>> \in Seq(Responses)
      OBVIOUS
    <3> QED BY <3>1
  <2>5. PICK m : m = [old EXCEPT !.pc = "root", !.root = t, !.records = rs]
    OBVIOUS
  <2>6. m \in ShowJobRecord(Shows) /\ m.pc = "root" /\ m.attempt = old.attempt /\ m.source = old.source /\ m.next = old.next
    BY <2>3, <2>5 DEF ShowJobRecord
  <2>7. AttemptsBounded(m) /\ AtClaim(m)
    BY <2>1, <2>3, <2>6 DEF AttemptsBounded, AtClaim
  <2>8. ingestion' = [ingestion EXCEPT ![j] = m]
    BY <2>1, <2>2, <2>4, <2>5
  <2> QED BY <1>1, <1>5, <2>6, <2>7, <2>8 DEF PromoteRoot, storedShows, ShowTInv, ClaimsTyped
<1>6. ASSUME NEW j \in ShowJobs, CollectSupplement(j) PROVE ShowTInv'
  <2>1. PICK old \in ShowJobRecord(Shows) : old = ingestion[j] /\ AttemptsBounded(old) /\ AtClaim(old)
    BY DEF ShowTInv
  <2>2. PICK id \in FoundBy(j), o \in Responses :
          Answers(id, o) /\ ingestion' = [ingestion EXCEPT ![j].records = Append(@, o)]
    BY <1>6, <2>1 DEF CollectSupplement
  <2>3. old.pc = "collect" /\ id \in ProviderIds
    <3>1. ingestion[j].records # <<>> /\ old.pc = "collect"
      BY <1>6, <2>1 DEF CollectSupplement, At, ShowInv, ShowHeld
    <3> QED BY <2>2, <3>1, FoundAreIds
  <2>4. PICK rs \in Seq(Responses) : rs = Append(old.records, o)
    <3>1. old.records \in Seq(Responses)
      BY DEF ShowJobRecord
    <3>2. Append(old.records, o) \in Seq(Responses)
      BY <3>1
    <3> QED BY <3>2
  <2>5. PICK m : m = [old EXCEPT !.records = rs]
    OBVIOUS
  <2>6. m \in ShowJobRecord(Shows) /\ m.pc = "collect" /\ m.attempt = old.attempt /\ m.source = old.source /\ m.next = old.next
    BY <2>3, <2>5 DEF ShowJobRecord
  <2>7. AttemptsBounded(m) /\ AtClaim(m)'
    BY <2>1, <2>3, <2>6 DEF AttemptsBounded, AtClaim
  <2>8. AnswersStay
    BY <2>2, <2>3, AnswersStayAnswers
  <2>9. ingestion' = [ingestion EXCEPT ![j] = m]
    BY <2>1, <2>2, <2>4, <2>5
  <2> QED BY <1>6, <2>6, <2>7, <2>8, <2>9, ShowJobTyped DEF CollectSupplement, ShowTInv, ClaimsTyped
<1>7. ASSUME NEW j \in ShowJobs, NormalizeRecords(j) PROVE ShowTInv'
  <2>1. PICK old \in ShowJobRecord(Shows) : old = ingestion[j] /\ AttemptsBounded(old) /\ AtClaim(old)
    BY DEF ShowTInv
  <2>2. old.pc = "collect" /\ Collected(j) \subseteq Answered /\ old.source = 1 /\ old.next = 1
    BY <1>7, <2>1 DEF NormalizeRecords, At, ShowInv, RefersToAnswers, AtClaim
  <2>3. PICK m : m = [old EXCEPT !.pc = "resolve"]
    OBVIOUS
  <2>4. m \in ShowJobRecord(Shows) /\ m.pc = "resolve" /\ m.attempt = old.attempt /\ m.source = 1 /\ m.next = 1 /\ m.records = old.records
    BY <2>2, <2>3 DEF ShowJobRecord, Persisting
  <2>5. ASSUME 1 <= Len(m.records) PROVE 1 <= Len(ListedBy(m.records[1]))
    <3>1. 1 \in DOMAIN old.records
      BY <2>4, <2>5 DEF ShowJobRecord
    <3>2. old.records[1] \in Answered
      BY <2>1, <2>2, <3>1 DEF Collected
    <3>3. Len(ListedBy(old.records[1])) \in Nat \ {0}
      BY <3>2, ListedTyped
    <3> QED BY <2>4, <3>3
  <2>6. AttemptsBounded(m) /\ AtClaim(m)
    BY <2>1, <2>4, <2>5 DEF AttemptsBounded, AtClaim
  <2>7. ingestion' = [ingestion EXCEPT ![j] = m]
    BY <1>7, <2>1, <2>3 DEF NormalizeRecords
  <2> QED BY <1>1, <1>7, <2>4, <2>6, <2>7 DEF NormalizeRecords, storedShows, ShowTInv, ClaimsTyped
<1>8. ASSUME NEW j \in ShowJobs, ResolveId(j) PROVE ShowTInv'
  <2>1. PICK old \in ShowJobRecord(Shows) : old = ingestion[j] /\ AttemptsBounded(old) /\ AtClaim(old)
    BY DEF ShowTInv
  <2>2. /\ old.pc = "resolve" /\ old.source \in Nat \ {0} /\ old.next \in Nat \ {0} /\ old.records \in Seq(Responses)
        /\ old.source <= Len(old.records) /\ Collected(j) \subseteq Answered
    BY <1>8, <2>1 DEF ResolveId, At, ShowJobRecord, ShowInv, RefersToAnswers
  <2>3. ASSUME NEW i \in Nat \ {0}, i <= Len(old.records) PROVE old.records[i] \in Answered
    <3>1. i \in DOMAIN old.records
      BY <2>2, <2>3
    <3> QED BY <2>1, <2>2, <3>1 DEF Collected
  <2>4. PICK ids : ids = ListedBy(old.records[old.source])
    OBVIOUS
  <2>5. ids \in Seq(ProviderIds) /\ Len(ids) \in Nat /\ old.next <= Len(ids)
    BY <2>1, <2>2, <2>3, <2>4, ListedTyped DEF AtClaim
  <2>6. PICK listed \in ClaimRow : listed = claimRow[ids[old.next]] /\ (listed.accepted => listed.show # NoShow)
    <3>1. ids[old.next] \in ProviderIds
      BY <2>2, <2>5
    <3> QED BY <3>1 DEF ShowTInv, ClaimsTyped
  <2>7. PICK more : more = IF listed.accepted THEN {listed.show} ELSE {}
    OBVIOUS
  <2>8. more \subseteq Shows
    BY <2>6, <2>7 DEF ClaimRow
  <2>9. PICK i, n : /\ i = (IF old.next = Len(ids) THEN old.source + 1 ELSE old.source)
                    /\ n = (IF old.next = Len(ids) THEN 1 ELSE old.next + 1)
    OBVIOUS
  <2>10. i \in Nat \ {0} /\ n \in Nat \ {0}
    BY <2>2, <2>9
  <2>11. PICK m : m = [old EXCEPT !.found = old.found \cup more, !.source = i, !.next = n]
    OBVIOUS
  <2>12. /\ m \in ShowJobRecord(Shows) /\ m.pc = "resolve" /\ m.attempt = old.attempt /\ m.source = i /\ m.next = n
         /\ m.records = old.records
    BY <2>2, <2>8, <2>10, <2>11 DEF ShowJobRecord
  <2>13. ASSUME i <= Len(old.records) PROVE n <= Len(ListedBy(old.records[i]))
    <3>1. CASE old.next = Len(ids)
      <4>1. Len(ListedBy(old.records[i])) \in Nat \ {0}
        BY <2>3, <2>10, <2>13, ListedTyped
      <4> QED BY <2>9, <3>1, <4>1
    <3>2. CASE old.next # Len(ids)
      <4>1. old.next + 1 <= Len(ids)
        BY <2>2, <2>5, <3>2
      <4> QED BY <2>4, <2>9, <3>2, <4>1
    <3> QED BY <3>1, <3>2
  <2>14. AttemptsBounded(m) /\ AtClaim(m)
    BY <2>1, <2>2, <2>12, <2>13 DEF AttemptsBounded, AtClaim
  <2>15. ingestion' = [ingestion EXCEPT ![j] = m]
    BY <1>8, <2>1, <2>4, <2>6, <2>7, <2>9, <2>11 DEF ResolveId
  <2> QED BY <1>1, <1>8, <2>12, <2>14, <2>15 DEF ResolveId, storedShows, ShowTInv, ClaimsTyped
<1>9. ASSUME NEW j \in ShowJobs, CreateShow(j) \/ LockShow(j) PROVE ShowTInv'
  <2>1. PICK old \in ShowJobRecord(Shows) : old = ingestion[j] /\ AttemptsBounded(old)
    BY DEF ShowTInv
  <2>2. PICK e \in Shows : ingestion' = [ingestion EXCEPT ![j].pc = "write", ![j].show = e]
    BY <1>9 DEF CreateShow, LockShow
  <2>3. old.pc = "resolve"
    BY <1>9, <2>1 DEF CreateShow, LockShow, Settled, At
  <2>4. PICK m : m = [old EXCEPT !.pc = "write", !.show = e]
    OBVIOUS
  <2>5. m \in ShowJobRecord(Shows) /\ m.pc = "write" /\ m.attempt = old.attempt
    BY <2>4 DEF ShowJobRecord, Persisting
  <2>6. AttemptsBounded(m) /\ AtClaim(m)
    BY <2>1, <2>5 DEF AttemptsBounded, AtClaim
  <2>7. ingestion' = [ingestion EXCEPT ![j] = m]
    BY <2>1, <2>2, <2>4
  <2> QED BY <1>1, <1>9, <2>5, <2>6, <2>7 DEF CreateShow, LockShow, storedShows, ShowTInv, ClaimsTyped
<1>10. ASSUME NEW j \in ShowJobs, LoadFallbacks(j) PROVE ShowTInv'
  <2>1. PICK old \in ShowJobRecord(Shows) : old = ingestion[j] /\ AttemptsBounded(old)
    BY DEF ShowTInv
  <2>2. PICK stale \in SUBSET Responses : ingestion' = [ingestion EXCEPT ![j].pc = "publish", ![j].stale = stale]
    BY <1>10 DEF LoadFallbacks
  <2>3. PICK m : m = [old EXCEPT !.pc = "publish", !.stale = stale]
    OBVIOUS
  <2>4. m \in ShowJobRecord(Shows) /\ m.pc = "publish" /\ m.attempt = old.attempt
    BY <2>3 DEF ShowJobRecord, Persisting
  <2>5. AttemptsBounded(m) /\ AtClaim(m)
    BY <2>1, <2>4 DEF AttemptsBounded, AtClaim
  <2>6. ingestion' = [ingestion EXCEPT ![j] = m]
    BY <2>1, <2>2, <2>3
  <2> QED BY <1>1, <1>10, <2>4, <2>5, <2>6 DEF LoadFallbacks, storedShows, ShowTInv, ClaimsTyped
<1>11. ASSUME NEW j \in ShowJobs, PublishShow(j) PROVE ShowTInv'
  <2>1. PICK e : e = ingestion[j].show
    OBVIOUS
  <2>2. e \in Shows
    BY <1>11, <2>1 DEF PublishShow, At, ShowInv, ShowHeld, ShowTInv, ShowJobRecord
  <2>3. PICK m : m = [Failed(j) EXCEPT !.pc = "done"]
    OBVIOUS
  <2>4. m \in ShowJobRecord(Shows) /\ AttemptsBounded(m) /\ m.pc = "done"
    BY <2>3, FailedTyped
  <2>5. AtClaim(m)'
    BY <2>4 DEF AtClaim
  <2>6. ingestion' = [ingestion EXCEPT ![j] = m]
    BY <1>11, <2>3 DEF PublishShow
  <2>7. AnswersStay
    <3>1. responses \in [Responses -> Response]
      BY DEF ShowInv, ShowTypes
    <3>2. responses' = [o \in Responses |-> IF o \in Collected(j) THEN [responses[o] EXCEPT !.show = e] ELSE responses[o]]
      BY <1>11, <2>1 DEF PublishShow
    <3> QED BY <3>1, <3>2 DEF AnswersStay, Answered, Response
  <2>8. ClaimsTyped'
    <3>1. shows' = shows \cup {e} /\ claimRow' = Claimed(j) /\ showRun' = [showRun EXCEPT ![j] = "completed"]
      BY <1>11, <2>1 DEF PublishShow
    <3> QED BY <2>1, <2>2, <3>1, ClaimedTyped DEF ClaimsTyped, ShowTInv
  <2> QED BY <2>4, <2>5, <2>6, <2>7, <2>8, ShowJobTyped
<1>12. CASE UNCHANGED episodicVars
  BY <1>12 DEF episodicVars, storedShows, ShowTInv, ClaimsTyped, ShowJobRecord, AttemptsBounded, AtClaim, ListedBy
<1> QED
  BY <1>2, <1>3, <1>4, <1>5, <1>6, <1>7, <1>8, <1>9, <1>10, <1>11, <1>12 DEF EpisodicNext

\* Every variable of shows has its type: ids resolve to shows, and attempts stay within their
\* bound (episodic/store.go PersistMany).
THEOREM EpisodicTypeSafety == EpisodicSpec => []EpisodicTypeOK
<1>1. ShowInv /\ ShowTInv => EpisodicTypeOK
  <2> SUFFICES ASSUME ShowInv, ShowTInv PROVE EpisodicTypeOK
    OBVIOUS
  <2>1. PICK Typed : Typed = [pc : {"idle", "root", "collect", "failed", "done"} \cup Persisting,
           attempt : 0..ShowAttempts, root : ProviderIds \cup {NoShow}, records : Seq(Responses),
           source : Nat \ {0}, next : Nat \ {0}, found : SUBSET Shows, show : Shows \cup {NoShow},
           stale : SUBSET Responses]
    OBVIOUS
  <2>2. ASSUME NEW m \in ShowJobRecord(Shows), AttemptsBounded(m) PROVE m \in Typed
    BY <2>1, <2>2, EpisodicAssumption DEF ShowJobRecord, AttemptsBounded
  <2>3. ingestion \in [ShowJobs -> Typed]
    BY <2>2 DEF ShowTInv
  <2> QED BY <2>1, <2>3 DEF ShowInv, ShowTypes, ShowTInv, ClaimsTyped, EpisodicTypeOK
<1>2. ShowInv /\ ShowTInv /\ [EpisodicNext]_episodicVars => ShowInv' /\ ShowTInv'
  BY ShowStep, ShowTStep
<1> QED BY <1>1, <1>2, ShowInit, ShowTInit, PTL DEF EpisodicSpec

-----------------------------------------------------------------------------
(* Artists *)

\* What a transaction has staged of a table.
Staged(rows, values) == UNION {[d -> values] : d \in SUBSET rows}

\* A claim that is accepted or disputed is somebody's.
OwnedClaim == {c \in ArtistClaim : c.state # "none" => c.artist # NoArtist}

MergingRecord ==
    [pc : {"idle", "collect", "resolve", "claim", "attach", "commit"}, ids : Seq(ArtistIds),
     records : SUBSET Copies, preferred : AnyArtist, next : Nat \ {0}, found : SUBSET Artists,
     artist : AnyArtist, retired : SUBSET Artists, claims : Staged(ArtistIds, OwnedClaim),
     rows : Staged(Copies, AnyArtist), document : SUBSET Copies]

RunRecord == [number : Nat, state : {"none", "working", "failed", "completed"}, artist : AnyArtist]

ArtistTypes ==
    /\ copies \in [ArtistIds -> 0..MaxCopies] /\ attached \in [Copies -> AnyArtist]
    /\ artistClaim \in [ArtistIds -> OwnedClaim] /\ artists \subseteq Artists
    /\ redirect \in [Artists -> AnyArtist] /\ artistDocument \in [Artists -> SUBSET Copies]
    /\ artistRun \in [ArtistRoots -> RunRecord] /\ merging \in [ArtistRoots -> MergingRecord]

Writing == {"claim", "attach", "commit"}

\* A merge has an artist while it writes, and moves records to it or to nobody.
Holds(m) ==
    /\ m.pc \in Writing => m.artist \in Artists
    /\ m.pc \notin Writing => m.artist = NoArtist /\ m.retired = {} /\ DOMAIN m.rows = {}
    /\ m.artist \notin m.retired /\ \A o \in DOMAIN m.rows : m.rows[o] \in {m.artist, NoArtist}

\* It moves every record of the artists it retires.
Takes(m) == \A o \in Copies : attached[o] \in m.retired => o \in DOMAIN m.rows

\* A document has the newest record of every id among some.
HasNewest(combined, rows, e) ==
    \A o \in Copies : rows[o] = e => \E n \in o[2]..MaxCopies : <<o[1], n>> \in combined

\* The document a merge is about to publish keeps what its artist will have.
Completes(m) == m.pc = "commit" => HasNewest(m.document, Overlay(m.rows, attached), m.artist)

\* No two merges hold the same artist, the ones they retire included.
Apart(m, n) == ({m.artist} \cup m.retired) \cap ({n.artist} \cup n.retired) \subseteq {NoArtist}

ArtistInv ==
    /\ ArtistTypes
    /\ \A r \in ArtistRoots : Holds(merging[r]) /\ Takes(merging[r]) /\ Completes(merging[r])
    /\ \A r, k \in ArtistRoots : r # k => Apart(merging[r], merging[k])
    /\ ArtistKeepsEvidence

LEMMA ArtistEvidenceIs ==
    ASSUME ArtistTypes
    PROVE  ArtistKeepsEvidence <=> \A e \in Artists : HasNewest(artistDocument[e], attached, e)
<1>1. \A o \in Copies : attached[o] # NoArtist => attached[o] \in Artists
  BY DEF ArtistTypes, AnyArtist
<1>2. NoArtist \notin Artists
  BY ArtistAssumption
<1> QED BY <1>1, <1>2 DEF ArtistKeepsEvidence, HasNewest

LEMMA ArtistEvidenceNext ==
    (ArtistTypes => (ArtistKeepsEvidence <=> \A e \in Artists : HasNewest(artistDocument[e], attached, e)))'
BY ArtistEvidenceIs, PTL

LEMMA IdleMerge ==
    NotMerging \in MergingRecord /\ Holds(NotMerging) /\ NotMerging.pc = "idle" /\ NotMerging.retired = {}
    /\ NotMerging.artist = NoArtist
<1>1. PICK none : none = Nowhere
  OBVIOUS
<1>2. DOMAIN none = {} /\ none \in Staged(ArtistIds, OwnedClaim) /\ none \in Staged(Copies, AnyArtist)
  <2>1. none \in [{} -> OwnedClaim] /\ none \in [{} -> AnyArtist] /\ DOMAIN none = {}
    BY <1>1 DEF Nowhere
  <2> QED BY <2>1 DEF Staged
<1>3. PICK ids \in Seq(ArtistIds) : ids = <<>>
  <2>1. <<>> \in Seq(ArtistIds)
    OBVIOUS
  <2> QED BY <2>1
<1>4. NotMerging = [pc |-> "idle", ids |-> ids, records |-> {}, preferred |-> NoArtist, next |-> 1,
                    found |-> {}, artist |-> NoArtist, retired |-> {}, claims |-> none,
                    rows |-> none, document |-> {}]
  BY <1>1, <1>3 DEF NotMerging
<1>5. NotMerging \in MergingRecord
  BY <1>2, <1>4 DEF MergingRecord, AnyArtist
<1> QED BY <1>2, <1>4, <1>5 DEF Holds, Writing

LEMMA ArtistStart == ArtistInit => ArtistInv
<1> SUFFICES ASSUME ArtistInit PROVE ArtistInv
  OBVIOUS
<1>1. ArtistTypes
  <2>1. copies \in [ArtistIds -> 0..MaxCopies] /\ attached \in [Copies -> AnyArtist]
    BY ArtistAssumption DEF ArtistInit, AnyArtist
  <2>2. artistClaim \in [ArtistIds -> OwnedClaim]
    BY DEF ArtistInit, OwnedClaim, ArtistClaim, AnyArtist, ClaimStates
  <2>3. artists \subseteq Artists /\ redirect \in [Artists -> AnyArtist] /\ artistDocument \in [Artists -> SUBSET Copies]
    BY DEF ArtistInit, AnyArtist
  <2>4. artistRun \in [ArtistRoots -> RunRecord]
    BY DEF ArtistInit, RunRecord, AnyArtist
  <2>5. merging \in [ArtistRoots -> MergingRecord]
    BY IdleMerge DEF ArtistInit
  <2> QED BY <2>1, <2>2, <2>3, <2>4, <2>5 DEF ArtistTypes
<1>2. \A r \in ArtistRoots : merging[r] = NotMerging
  BY DEF ArtistInit
<1>3. \A r \in ArtistRoots : Holds(merging[r]) /\ Takes(merging[r]) /\ Completes(merging[r])
  BY <1>2, IdleMerge DEF Takes, Completes
<1>4. \A r, k \in ArtistRoots : r # k => Apart(merging[r], merging[k])
  BY <1>2, IdleMerge DEF Apart
<1>5. ArtistKeepsEvidence
  BY DEF ArtistInit, ArtistKeepsEvidence
<1> QED BY <1>1, <1>3, <1>4, <1>5 DEF ArtistInv

\* A step of one merge that publishes nothing.
LEMMA MergeStepKeeps ==
    ASSUME ArtistInv, NEW r \in ArtistRoots, NEW m \in MergingRecord, merging' = [merging EXCEPT ![r] = m],
           UNCHANGED storedArtists, copies' \in [ArtistIds -> 0..MaxCopies], artistRun' \in [ArtistRoots -> RunRecord],
           Holds(m), Takes(m), Completes(m), \A k \in ArtistRoots \ {r} : Apart(m, merging[k])
    PROVE  ArtistInv'
<1>1. merging'[r] = m /\ \A k \in ArtistRoots \ {r} : merging'[k] = merging[k]
  BY DEF ArtistInv, ArtistTypes
<1>2. ArtistTypes'
  BY DEF ArtistInv, ArtistTypes, storedArtists
<1>3. ASSUME NEW k \in ArtistRoots
      PROVE  Holds(merging'[k]) /\ Takes(merging[k])' /\ Completes(merging[k])'
  <2>1. PICK n : n = merging'[k]
    OBVIOUS
  <2>2. Holds(n) /\ Takes(n) /\ Completes(n)
    BY <1>1, <2>1 DEF ArtistInv
  <2>3. Takes(n)' /\ Completes(n)'
    BY <2>2 DEF Takes, Completes, HasNewest, Overlay, storedArtists
  <2> QED BY <2>1, <2>2, <2>3
<1>4. ASSUME NEW i \in ArtistRoots, NEW k \in ArtistRoots, i # k PROVE Apart(merging'[i], merging'[k])
  <2>1. CASE i = r
    BY <1>1, <1>4, <2>1
  <2>2. CASE k = r
    BY <1>1, <1>4, <2>2 DEF Apart
  <2>3. CASE i # r /\ k # r
    BY <1>1, <1>4, <2>3 DEF ArtistInv
  <2> QED BY <2>1, <2>2, <2>3
<1>5. ArtistKeepsEvidence'
  BY DEF ArtistInv, ArtistKeepsEvidence, storedArtists
<1>6. \A k \in ArtistRoots : Holds(merging[k])'
  BY <1>3 DEF Holds
<1>7. \A i, k \in ArtistRoots : i # k => Apart(merging[i], merging[k])'
  BY <1>4 DEF Apart
<1> QED BY <1>2, <1>3, <1>5, <1>6, <1>7 DEF ArtistInv

LEMMA EndKeeps ==
    ASSUME ArtistInv, NEW r \in ArtistRoots, NEW state \in {"failed", "working"}, Ends(r, state)
    PROVE  ArtistInv'
<1>1. PICK m : m = NotMerging
  OBVIOUS
<1>2. m \in MergingRecord /\ Holds(m) /\ m.pc = "idle" /\ m.retired = {} /\ m.artist = NoArtist
  BY <1>1, IdleMerge
<1>3. merging' = [merging EXCEPT ![r] = m] /\ UNCHANGED storedArtists /\ copies' \in [ArtistIds -> 0..MaxCopies]
  BY <1>1 DEF Ends, ArtistInv, ArtistTypes
<1>4. artistRun' \in [ArtistRoots -> RunRecord]
  <2>1. PICK row \in RunRecord : row = artistRun[r]
    BY DEF ArtistInv, ArtistTypes
  <2>2. [row EXCEPT !.state = state] \in RunRecord
    BY DEF RunRecord
  <2>3. artistRun' = [artistRun EXCEPT ![r] = [row EXCEPT !.state = state]]
    BY <2>1 DEF Ends
  <2> QED BY <2>2, <2>3 DEF ArtistInv, ArtistTypes
<1>5. Takes(m) /\ Completes(m) /\ \A k \in ArtistRoots \ {r} : Apart(m, merging[k])
  BY <1>2 DEF Takes, Completes, Apart
<1> QED BY <1>2, <1>3, <1>4, <1>5, MergeStepKeeps

\* The local state of a merge, as the steps below use it.
LEMMA MergeIs ==
    ASSUME ArtistInv, NEW r \in ArtistRoots
    PROVE  /\ merging[r] \in MergingRecord /\ Holds(merging[r]) /\ Takes(merging[r]) /\ Completes(merging[r])
           /\ \A k \in ArtistRoots \ {r} : Apart(merging[r], merging[k])
           /\ merging[r].pc \notin Writing => merging[r].retired = {} /\ merging[r].artist = NoArtist
BY DEF ArtistInv, ArtistTypes, Holds

\* A merge that holds no artist yet disturbs nobody.
LEMMA ReadingKeeps ==
    ASSUME ArtistInv, NEW r \in ArtistRoots, NEW m \in MergingRecord, merging' = [merging EXCEPT ![r] = m],
           UNCHANGED storedArtists, copies' \in [ArtistIds -> 0..MaxCopies], artistRun' \in [ArtistRoots -> RunRecord],
           m.pc \notin Writing, merging[r].pc \notin Writing, m.artist = merging[r].artist,
           m.retired = merging[r].retired, m.rows = merging[r].rows
    PROVE  ArtistInv'
<1>1. Holds(m) /\ m.retired = {} /\ m.artist = NoArtist
  BY DEF ArtistInv, Holds
<1>2. Takes(m) /\ Completes(m) /\ \A k \in ArtistRoots \ {r} : Apart(m, merging[k])
  BY <1>1 DEF Takes, Completes, Apart, Writing
<1> QED BY <1>1, <1>2, MergeStepKeeps

LEMMA ReadStepKeeps ==
    ASSUME ArtistInv, NEW r \in ArtistRoots,
           StartArtist(r) \/ CollectArtist(r) \/ ResolveArtistId(r) \/ ResolvePreferred(r)
    PROVE  ArtistInv'
<1>1. PICK old \in MergingRecord : old = merging[r]
  BY MergeIs
<1>2. ArtistTypes
  BY DEF ArtistInv
<1>3. CASE StartArtist(r)
  <2>1. PICK m : m = [old EXCEPT !.pc = "collect"]
    OBVIOUS
  <2>2. m \in MergingRecord
    BY <2>1 DEF MergingRecord
  <2>3. m.pc = "collect" /\ m.artist = old.artist /\ m.retired = old.retired /\ m.rows = old.rows
    BY <2>1 DEF MergingRecord
  <2>4. merging' = [merging EXCEPT ![r] = m] /\ UNCHANGED <<copies, storedArtists>> /\ old.pc = "idle"
    BY <1>1, <1>3, <2>1 DEF StartArtist, Doing
  <2>5. artistRun' \in [ArtistRoots -> RunRecord]
    <3>1. PICK n \in Nat : n = artistRun[r].number + 1
      <4>1. artistRun[r].number \in Nat
        BY <1>2 DEF ArtistTypes, RunRecord
      <4>2. artistRun[r].number + 1 \in Nat
        BY <4>1
      <4> QED BY <4>2
    <3>2. [number |-> n, state |-> "working", artist |-> NoArtist] \in RunRecord
      BY DEF RunRecord, AnyArtist
    <3>3. artistRun' = [artistRun EXCEPT ![r] = [number |-> n, state |-> "working", artist |-> NoArtist]]
      BY <1>3, <3>1 DEF StartArtist
    <3> QED BY <1>2, <3>2, <3>3 DEF ArtistTypes
  <2>6. copies' \in [ArtistIds -> 0..MaxCopies]
    BY <1>2, <2>4 DEF ArtistTypes
  <2> QED BY <1>1, <2>2, <2>3, <2>4, <2>5, <2>6, ReadingKeeps DEF Writing
<1>4. CASE CollectArtist(r)
  <2>1. PICK links \in LinksOfRoot[r], fresh \in SUBSET ArtistIds,
             preferred \in {NoArtist} \cup (IF CatalogMatches /\ ~MusicBrainz(r) THEN Live ELSE {}) :
          \E answering \in (IF MusicBrainz(r) THEN SUBSET ToSet(links) ELSE {ToSet(links)}) :
             LET collected == {r} \cup answering
             IN  /\ fresh \subseteq collected
                 /\ \A c \in collected : IF c \in fresh THEN copies[c] < MaxCopies ELSE copies[c] > 0
                 /\ copies' = [c \in ArtistIds |-> copies[c] + IF c \in fresh THEN 1 ELSE 0]
                 /\ merging' = [merging EXCEPT ![r].pc = "resolve", ![r].ids = <<r>> \o links,
                        ![r].records = {<<c, copies'[c]>> : c \in collected}, ![r].preferred = preferred]
    BY <1>4 DEF CollectArtist
  <2>2. links \in Seq(ArtistIds) /\ r \in ArtistIds
    BY ArtistAssumption
  <2>3. preferred \in AnyArtist
    BY <1>2, <2>1 DEF Live, AnyArtist, ArtistTypes
  <2>4. PICK answering :
          /\ answering \subseteq ToSet(links) /\ fresh \subseteq {r} \cup answering
          /\ \A c \in {r} \cup answering : IF c \in fresh THEN copies[c] < MaxCopies ELSE copies[c] > 0
          /\ copies' = [c \in ArtistIds |-> copies[c] + IF c \in fresh THEN 1 ELSE 0]
          /\ merging' = [merging EXCEPT ![r].pc = "resolve", ![r].ids = <<r>> \o links,
                 ![r].records = {<<c, copies'[c]>> : c \in {r} \cup answering}, ![r].preferred = preferred]
    <3>1. PICK answering \in (IF MusicBrainz(r) THEN SUBSET ToSet(links) ELSE {ToSet(links)}) :
             /\ fresh \subseteq {r} \cup answering
             /\ \A c \in {r} \cup answering : IF c \in fresh THEN copies[c] < MaxCopies ELSE copies[c] > 0
             /\ copies' = [c \in ArtistIds |-> copies[c] + IF c \in fresh THEN 1 ELSE 0]
             /\ merging' = [merging EXCEPT ![r].pc = "resolve", ![r].ids = <<r>> \o links,
                    ![r].records = {<<c, copies'[c]>> : c \in {r} \cup answering}, ![r].preferred = preferred]
      BY <2>1
    <3>2. answering \subseteq ToSet(links)
      BY <3>1
    <3> QED BY <3>1, <3>2
  <2>5. {r} \cup answering \subseteq ArtistIds
    <3>1. ToSet(links) \subseteq ArtistIds
      BY <2>2 DEF ToSet
    <3>2. answering \subseteq ToSet(links)
      BY <2>4
    <3> QED BY <2>2, <3>1, <3>2
  <2>6. \A c \in ArtistIds : copies'[c] \in 0..MaxCopies /\ (c \in {r} \cup answering => copies'[c] \in 1..MaxCopies)
    <3> SUFFICES ASSUME NEW c \in ArtistIds
                 PROVE  copies'[c] \in 0..MaxCopies /\ (c \in {r} \cup answering => copies'[c] \in 1..MaxCopies)
      OBVIOUS
    <3>1. copies[c] \in 0..MaxCopies /\ MaxCopies \in Nat
      BY <1>2, ArtistAssumption DEF ArtistTypes
    <3>2. /\ copies'[c] = copies[c] + IF c \in fresh THEN 1 ELSE 0
          /\ c \in {r} \cup answering => IF c \in fresh THEN copies[c] < MaxCopies ELSE copies[c] > 0
          /\ c \in fresh => c \in {r} \cup answering
      BY <2>4
    <3>3. CASE c \in fresh
      BY <3>1, <3>2, <3>3
    <3>4. CASE c \notin fresh
      BY <3>1, <3>2, <3>4
    <3> QED BY <3>3, <3>4
  <2>7. copies' \in [ArtistIds -> 0..MaxCopies]
    BY <2>4, <2>6
  <2>8. PICK gathered : gathered = {<<c, copies'[c]>> : c \in {r} \cup answering}
    OBVIOUS
  <2>9. gathered \subseteq Copies
    BY <2>5, <2>6, <2>8 DEF Copies
  <2>10. PICK ids \in Seq(ArtistIds) : ids = <<r>> \o links
    <3>1. <<r>> \o links \in Seq(ArtistIds)
      BY <2>2
    <3> QED BY <3>1
  <2>11. PICK m : m = [old EXCEPT !.pc = "resolve", !.ids = ids, !.records = gathered, !.preferred = preferred]
    OBVIOUS
  <2>12. m \in MergingRecord
    BY <2>3, <2>9, <2>11 DEF MergingRecord
  <2>13. m.pc = "resolve" /\ m.artist = old.artist /\ m.retired = old.retired /\ m.rows = old.rows
    BY <2>11 DEF MergingRecord
  <2>14. merging' = [merging EXCEPT ![r] = m]
    BY <1>1, <2>4, <2>8, <2>10, <2>11
  <2>15. UNCHANGED <<storedArtists, artistRun>> /\ old.pc = "collect"
    BY <1>1, <1>4 DEF CollectArtist, Doing
  <2>16. artistRun' \in [ArtistRoots -> RunRecord]
    BY <1>2, <2>15 DEF ArtistTypes
  <2> QED BY <1>1, <2>7, <2>12, <2>13, <2>14, <2>15, <2>16, ReadingKeeps DEF Writing
<1>5. CASE ResolveArtistId(r)
  <2>1. PICK row : row = artistClaim[old.ids[old.next]]
    OBVIOUS
  <2>2. PICK more : more = {e \in {row.artist} : row.state = "accepted" /\ Accepts(e, r)}
    OBVIOUS
  <2>3. /\ old.pc = "resolve" /\ old.next <= Len(old.ids) /\ UNCHANGED <<copies, storedArtists, artistRun>>
        /\ merging' = [merging EXCEPT ![r].next = @ + 1, ![r].found = @ \cup more]
    BY <1>1, <1>5, <2>1, <2>2 DEF ResolveArtistId, Doing
  <2>4. old.ids \in Seq(ArtistIds) /\ old.next \in Nat \ {0} /\ old.found \subseteq Artists
    BY DEF MergingRecord
  <2>5. old.ids[old.next] \in ArtistIds
    BY <2>3, <2>4
  <2>6. row \in OwnedClaim
    BY <1>2, <2>1, <2>5 DEF ArtistTypes
  <2>7. more \subseteq Artists
    BY <2>2, <2>6 DEF OwnedClaim, ArtistClaim, AnyArtist
  <2>8. PICK n \in Nat \ {0} : n = old.next + 1
    <3>1. old.next + 1 \in Nat \ {0}
      BY <2>4
    <3> QED BY <3>1
  <2>9. PICK found \in SUBSET Artists : found = old.found \cup more
    <3>1. old.found \cup more \in SUBSET Artists
      BY <2>4, <2>7
    <3> QED BY <3>1
  <2>10. PICK m : m = [old EXCEPT !.next = n, !.found = found]
    OBVIOUS
  <2>11. m \in MergingRecord
    BY <2>10 DEF MergingRecord
  <2>12. m.pc = old.pc /\ m.artist = old.artist /\ m.retired = old.retired /\ m.rows = old.rows
    BY <2>10 DEF MergingRecord
  <2>13. merging' = [merging EXCEPT ![r] = m]
    BY <1>1, <2>3, <2>8, <2>9, <2>10
  <2>14. copies' \in [ArtistIds -> 0..MaxCopies] /\ artistRun' \in [ArtistRoots -> RunRecord]
    BY <1>2, <2>3 DEF ArtistTypes
  <2> QED BY <1>1, <2>3, <2>11, <2>12, <2>13, <2>14, ReadingKeeps DEF Writing
<1>6. CASE ResolvePreferred(r)
  <2>1. CASE merging[r].preferred \in Live
    <3>1. PICK more : more = {x \in {old.preferred} : Accepts(x, r)}
      OBVIOUS
    <3>2. /\ old.pc = "resolve" /\ UNCHANGED <<copies, storedArtists, artistRun>>
          /\ merging' = [merging EXCEPT ![r].preferred = NoArtist, ![r].found = @ \cup more]
      BY <1>1, <1>6, <2>1, <3>1 DEF ResolvePreferred, Doing
    <3>3. old.found \subseteq Artists /\ more \subseteq Artists
      BY <1>1, <1>2, <2>1, <3>1 DEF MergingRecord, Live, ArtistTypes
    <3>4. PICK found \in SUBSET Artists : found = old.found \cup more
      <4>1. old.found \cup more \in SUBSET Artists
        BY <3>3
      <4> QED BY <4>1
    <3>5. PICK m : m = [old EXCEPT !.preferred = NoArtist, !.found = found]
      OBVIOUS
    <3>6. m \in MergingRecord
      BY <3>5 DEF MergingRecord, AnyArtist
    <3>7. m.pc = old.pc /\ m.artist = old.artist /\ m.retired = old.retired /\ m.rows = old.rows
      BY <3>5 DEF MergingRecord
    <3>8. merging' = [merging EXCEPT ![r] = m]
      BY <1>1, <3>2, <3>4, <3>5
    <3>9. copies' \in [ArtistIds -> 0..MaxCopies] /\ artistRun' \in [ArtistRoots -> RunRecord]
      BY <1>2, <3>2 DEF ArtistTypes
    <3> QED BY <1>1, <3>2, <3>6, <3>7, <3>8, <3>9, ReadingKeeps DEF Writing
  <2>2. CASE merging[r].preferred \notin Live
    <3>1. Ends(r, "failed")
      BY <1>6, <2>2 DEF ResolvePreferred
    <3> QED BY <3>1, EndKeeps
  <2> QED BY <2>1, <2>2
<1> QED BY <1>3, <1>4, <1>5, <1>6

\* A merge takes its artist when nobody else holds it.
LEMMA TakeArtistKeeps ==
    ASSUME ArtistInv, NEW r \in ArtistRoots, CreateArtist(r) \/ LockArtist(r)
    PROVE  ArtistInv'
<1>1. PICK old \in MergingRecord : old = merging[r]
  BY MergeIs
<1>2. PICK e \in Artists :
        /\ old.pc = "resolve" /\ ~LockedElsewhere(r, {e}) /\ UNCHANGED <<copies, storedArtists, artistRun>>
        /\ merging' = [merging EXCEPT ![r].pc = "claim", ![r].artist = e]
  BY <1>1 DEF CreateArtist, LockArtist, Decided, Doing
<1>3. PICK m : m = [old EXCEPT !.pc = "claim", !.artist = e]
  OBVIOUS
<1>4. m \in MergingRecord
  BY <1>3 DEF MergingRecord, AnyArtist
<1>5. m.pc = "claim" /\ m.artist = e /\ m.retired = old.retired /\ m.rows = old.rows
  BY <1>3 DEF MergingRecord
<1>6. old.retired = {} /\ DOMAIN old.rows = {}
  BY <1>1, <1>2 DEF ArtistInv, Holds, Writing
<1>7. Holds(m) /\ Takes(m) /\ Completes(m)
  BY <1>5, <1>6 DEF Holds, Takes, Completes, Writing
<1>8. \A k \in ArtistRoots \ {r} : Apart(m, merging[k])
  BY <1>2, <1>5, <1>6 DEF LockedElsewhere, HeldArtists, Apart
<1>9. merging' = [merging EXCEPT ![r] = m]
  BY <1>1, <1>2, <1>3
<1>10. copies' \in [ArtistIds -> 0..MaxCopies] /\ artistRun' \in [ArtistRoots -> RunRecord]
  BY <1>2 DEF ArtistInv, ArtistTypes
<1> QED BY <1>2, <1>4, <1>7, <1>8, <1>9, <1>10, MergeStepKeeps

\* A consolidation stages every record of the artists it retires for the survivor.
LEMMA ConsolidateKeeps ==
    ASSUME ArtistInv, NEW r \in ArtistRoots, Consolidate(r)
    PROVE  ArtistInv'
<1>1. PICK old \in MergingRecord : old = merging[r]
  BY MergeIs
<1>2. PICK found \in SUBSET Artists : found = old.found
  BY DEF MergingRecord
<1>3. PICK own \in SUBSET found : own = {e \in found : artistClaim[r] = [artist |-> e, state |-> "accepted"]}
  OBVIOUS
<1>4. PICK survivor \in IF own # {} THEN own ELSE found :
         merging' = [merging EXCEPT
            ![r].pc = "claim", ![r].artist = survivor, ![r].retired = found \ {survivor},
            ![r].claims = [c \in {x \in ArtistIds : artistClaim[x].artist \in found \ {survivor}} |->
                              [artistClaim[c] EXCEPT !.artist = survivor]],
            ![r].rows = [o \in {x \in Copies : attached[x] \in found \ {survivor}} |-> survivor]]
  <2>1. PICK x \in IF {e \in merging[r].found : artistClaim[r] = [artist |-> e, state |-> "accepted"]} # {}
                   THEN {e \in merging[r].found : artistClaim[r] = [artist |-> e, state |-> "accepted"]}
                   ELSE merging[r].found :
           LET retired == merging[r].found \ {x}
               moved == {c \in ArtistIds : artistClaim[c].artist \in retired}
               rows == {o \in Copies : attached[o] \in retired}
           IN  /\ FreeClaims(r, moved) /\ FreeRows(r, rows)
               /\ merging' = [merging EXCEPT
                      ![r].pc = "claim", ![r].artist = x, ![r].retired = retired,
                      ![r].claims = [c \in moved |-> [artistClaim[c] EXCEPT !.artist = x]],
                      ![r].rows = [o \in rows |-> x]]
    BY Zenon DEF Consolidate
  <2>2. found = merging[r].found
    BY <1>1, <1>2
  <2>3. x \in IF own # {} THEN own ELSE found
    BY <1>3, <2>1, <2>2
  <2>4. merging' = [merging EXCEPT
            ![r].pc = "claim", ![r].artist = x, ![r].retired = found \ {x},
            ![r].claims = [c \in {y \in ArtistIds : artistClaim[y].artist \in found \ {x}} |->
                              [artistClaim[c] EXCEPT !.artist = x]],
            ![r].rows = [o \in {y \in Copies : attached[y] \in found \ {x}} |-> x]]
    BY <2>1, <2>2
  <2> QED BY <2>3, <2>4
<1>5. PICK retired : retired = found \ {survivor}
  OBVIOUS
<1>6. PICK moved : moved = {c \in ArtistIds : artistClaim[c].artist \in retired}
  OBVIOUS
<1>7. PICK rows : rows = {o \in Copies : attached[o] \in retired}
  OBVIOUS
<1>8. /\ survivor \in found /\ survivor \in Artists
      /\ retired = found \ {survivor} /\ moved = {c \in ArtistIds : artistClaim[c].artist \in retired}
      /\ rows = {o \in Copies : attached[o] \in retired}
      /\ merging' = [merging EXCEPT
             ![r].pc = "claim", ![r].artist = survivor, ![r].retired = retired,
             ![r].claims = [c \in moved |-> [artistClaim[c] EXCEPT !.artist = survivor]],
             ![r].rows = [o \in rows |-> survivor]]
  BY <1>4, <1>5, <1>6, <1>7
<1>9. ~LockedElsewhere(r, found) /\ UNCHANGED <<copies, storedArtists, artistRun>>
  BY <1>1, <1>2 DEF Consolidate
<1>10. PICK claimed : claimed = [c \in moved |-> [artistClaim[c] EXCEPT !.artist = survivor]]
  OBVIOUS
<1>11. claimed \in Staged(ArtistIds, OwnedClaim)
  <2>1. ASSUME NEW c \in moved PROVE [artistClaim[c] EXCEPT !.artist = survivor] \in OwnedClaim
    <3>1. artistClaim[c] \in OwnedClaim
      BY <1>8 DEF ArtistInv, ArtistTypes
    <3>2. survivor \in AnyArtist /\ survivor # NoArtist
      BY <1>8, ArtistAssumption DEF AnyArtist
    <3> QED BY <3>1, <3>2 DEF OwnedClaim, ArtistClaim
  <2>2. claimed \in [moved -> OwnedClaim] /\ moved \subseteq ArtistIds
    BY <1>8, <1>10, <2>1
  <2> QED BY <2>2 DEF Staged
<1>12. PICK staged : staged = [o \in rows |-> survivor]
  OBVIOUS
<1>13. staged \in Staged(Copies, AnyArtist) /\ DOMAIN staged = rows /\ \A o \in rows : staged[o] = survivor
  <2>1. staged \in [rows -> AnyArtist] /\ rows \subseteq Copies
    BY <1>8, <1>12 DEF AnyArtist
  <2> QED BY <1>12, <2>1 DEF Staged
<1>14. PICK m : m = [old EXCEPT !.pc = "claim", !.artist = survivor, !.retired = retired, !.claims = claimed, !.rows = staged]
  OBVIOUS
<1>15. m \in MergingRecord
  <2>1. survivor \in AnyArtist /\ retired \subseteq Artists
    BY <1>8 DEF AnyArtist
  <2> QED BY <1>11, <1>13, <1>14, <2>1 DEF MergingRecord
<1>16. m.pc = "claim" /\ m.artist = survivor /\ m.retired = retired /\ m.rows = staged
  BY <1>14 DEF MergingRecord
<1>17. Holds(m)
  BY <1>8, <1>13, <1>16 DEF Holds, Writing
<1>18. Takes(m) /\ Completes(m)
  BY <1>8, <1>13, <1>16 DEF Takes, Completes
<1>19. \A k \in ArtistRoots \ {r} : Apart(m, merging[k])
  BY <1>8, <1>9, <1>16 DEF LockedElsewhere, HeldArtists, Apart
<1>20. merging' = [merging EXCEPT ![r] = m]
  BY <1>1, <1>8, <1>10, <1>12, <1>14
<1>21. copies' \in [ArtistIds -> 0..MaxCopies] /\ artistRun' \in [ArtistRoots -> RunRecord]
  BY <1>9 DEF ArtistInv, ArtistTypes
<1> QED BY <1>9, <1>15, <1>17, <1>18, <1>19, <1>20, <1>21, MergeStepKeeps

\* What a transaction sees of a table is the table with other values.
LEMMA SeenTypes ==
    ASSUME ArtistInv, NEW r \in ArtistRoots
    PROVE  ClaimsSeen(r) \in [ArtistIds -> OwnedClaim] /\ RowsSeen(r) \in [Copies -> AnyArtist]
<1>1. PICK claimed, rows : claimed = merging[r].claims /\ rows = merging[r].rows
  OBVIOUS
<1>2. claimed \in Staged(ArtistIds, OwnedClaim) /\ rows \in Staged(Copies, AnyArtist)
  BY <1>1 DEF ArtistInv, ArtistTypes, MergingRecord
<1>3. /\ \A c \in DOMAIN claimed : claimed[c] \in OwnedClaim
      /\ \A o \in DOMAIN rows : rows[o] \in AnyArtist
  BY <1>2 DEF Staged
<1>4. artistClaim \in [ArtistIds -> OwnedClaim] /\ attached \in [Copies -> AnyArtist]
  BY DEF ArtistInv, ArtistTypes
<1>5. Overlay(claimed, artistClaim) \in [ArtistIds -> OwnedClaim]
  BY <1>3, <1>4 DEF Overlay
<1>6. Overlay(rows, attached) \in [Copies -> AnyArtist]
  BY <1>3, <1>4 DEF Overlay
<1> QED BY <1>1, <1>5, <1>6 DEF ClaimsSeen, RowsSeen

LEMMA JudgedIsOwned ==
    ASSUME ArtistInv, NEW r \in ArtistRoots, merging[r].artist \in Artists, NEW c \in ArtistIds
    PROVE  Judged(r, c) \in OwnedClaim
<1>0. PICK row : row = ClaimsSeen(r)[c]
  OBVIOUS
<1>1. PICK e \in Artists : e = merging[r].artist
  OBVIOUS
<1>2. row \in OwnedClaim
  BY <1>0, SeenTypes
<1>3. e # NoArtist /\ e \in AnyArtist
  BY ArtistAssumption DEF AnyArtist
<1>4. [artist |-> e, state |-> "accepted"] \in OwnedClaim
  BY <1>3 DEF OwnedClaim, ArtistClaim, ClaimStates
<1>5. ASSUME row.state = "accepted" PROVE [row EXCEPT !.state = "disputed"] \in OwnedClaim
  BY <1>2, <1>5 DEF OwnedClaim, ArtistClaim, ClaimStates
<1>6. Judged(r, c) = IF row.artist = e \/ row.state # "accepted" THEN [artist |-> e, state |-> "accepted"]
                     ELSE IF DirectlyObserved(r, c, row.artist) THEN row ELSE [row EXCEPT !.state = "disputed"]
  BY <1>0, <1>1 DEF Judged
<1> QED BY <1>2, <1>4, <1>5, <1>6

LEMMA ClaimKeeps ==
    ASSUME ArtistInv, NEW r \in ArtistRoots, ClaimArtistIds(r)
    PROVE  ArtistInv'
<1>1. PICK old \in MergingRecord : old = merging[r]
  BY MergeIs
<1>2. old.pc = "claim" /\ old.artist \in Artists /\ UNCHANGED <<copies, storedArtists, artistRun>>
  BY <1>1 DEF ClaimArtistIds, Doing, ArtistInv, Holds, Writing
<1>3. PICK candidates : candidates = ToSet(merging[r].ids)
  OBVIOUS
<1>4. PICK doubtful : doubtful = {c \in ArtistIds \ candidates :
                                     /\ ClaimsSeen(r)[c] = [artist |-> merging[r].artist, state |-> "accepted"]
                                     /\ ~DirectlyObserved(r, c, merging[r].artist)}
  OBVIOUS
<1>5. PICK written : written = [c \in candidates \cup doubtful |->
                                   IF c \in candidates THEN Judged(r, c) ELSE [artist |-> merging[r].artist, state |-> "disputed"]]
  OBVIOUS
<1>6. merging' = [merging EXCEPT ![r].pc = "attach", ![r].claims =
                     [c \in DOMAIN @ \cup DOMAIN written |-> IF c \in DOMAIN written THEN written[c] ELSE @[c]]]
  BY <1>3, <1>4, <1>5 DEF ClaimArtistIds
<1>7. candidates \cup doubtful \subseteq ArtistIds
  <2>1. merging[r].ids \in Seq(ArtistIds)
    BY <1>1 DEF MergingRecord
  <2>2. candidates \subseteq ArtistIds
    BY <1>3, <2>1 DEF ToSet
  <2> QED BY <1>4, <2>2
<1>8. DOMAIN written \subseteq ArtistIds /\ \A c \in DOMAIN written : written[c] \in OwnedClaim
  <2>1. \A c \in ArtistIds : Judged(r, c) \in OwnedClaim
    BY <1>1, <1>2, JudgedIsOwned
  <2>2. [artist |-> merging[r].artist, state |-> "disputed"] \in OwnedClaim
    BY <1>1, <1>2, ArtistAssumption DEF OwnedClaim, ArtistClaim, AnyArtist, ClaimStates
  <2>3. DOMAIN written = candidates \cup doubtful
    BY <1>5
  <2>4. ASSUME NEW c \in DOMAIN written PROVE written[c] \in OwnedClaim
    <3>1. CASE c \in candidates
      BY <1>5, <1>7, <2>1, <2>3, <3>1
    <3>2. CASE c \notin candidates
      BY <1>5, <2>2, <2>3, <3>2
    <3> QED BY <3>1, <3>2
  <2> QED BY <1>7, <2>3, <2>4
<1>9. PICK before : before = old.claims
  OBVIOUS
<1>10. DOMAIN before \subseteq ArtistIds /\ \A c \in DOMAIN before : before[c] \in OwnedClaim
  BY <1>9 DEF MergingRecord, Staged
<1>11. PICK claimed : claimed = [c \in DOMAIN before \cup DOMAIN written |->
                                  IF c \in DOMAIN written THEN written[c] ELSE before[c]]
  OBVIOUS
<1>12. claimed \in Staged(ArtistIds, OwnedClaim)
  <2>1. PICK d : d = DOMAIN before \cup DOMAIN written
    OBVIOUS
  <2>2. claimed \in [d -> OwnedClaim] /\ d \subseteq ArtistIds
    BY <1>8, <1>10, <1>11, <2>1
  <2> QED BY <2>2 DEF Staged
<1>13. PICK m : m = [old EXCEPT !.pc = "attach", !.claims = claimed]
  OBVIOUS
<1>14. m \in MergingRecord
  BY <1>12, <1>13 DEF MergingRecord
<1>15. m.pc = "attach" /\ m.artist = old.artist /\ m.retired = old.retired /\ m.rows = old.rows
  BY <1>13 DEF MergingRecord
<1>16. merging' = [merging EXCEPT ![r] = m]
  BY <1>1, <1>6, <1>9, <1>11, <1>13
<1>17. Holds(m) /\ Takes(m) /\ Completes(m) /\ \A k \in ArtistRoots \ {r} : Apart(m, merging[k])
  <2>1. Holds(old) /\ Takes(old) /\ \A k \in ArtistRoots \ {r} : Apart(old, merging[k])
    BY <1>1, MergeIs
  <2>2. Holds(m)
    BY <1>2, <1>15, <2>1 DEF Holds, Writing
  <2> QED BY <1>15, <2>1, <2>2 DEF Takes, Completes, Apart
<1>18. copies' \in [ArtistIds -> 0..MaxCopies] /\ artistRun' \in [ArtistRoots -> RunRecord]
  BY <1>2 DEF ArtistInv, ArtistTypes
<1> QED BY <1>2, <1>14, <1>16, <1>17, <1>18, MergeStepKeeps

\* The document is read from the records as the transaction has just written them.
LEMMA AttachKeeps ==
    ASSUME ArtistInv, NEW r \in ArtistRoots, AttachArtistRecords(r)
    PROVE  ArtistInv'
<1>1. PICK old \in MergingRecord : old = merging[r]
  BY MergeIs
<1>2. PICK e : e = merging[r].artist
  OBVIOUS
<1>3. old.pc = "attach" /\ e \in Artists /\ UNCHANGED <<copies, storedArtists, artistRun>>
  BY <1>1, <1>2 DEF AttachArtistRecords, Doing, ArtistInv, Holds, Writing
<1>4. PICK quarantined : quarantined = {o \in Copies : RowsSeen(r)[o] = e /\ Foreign(r, o[1])}
  OBVIOUS
<1>5. PICK written : written = [o \in merging[r].records \cup quarantined |-> IF Foreign(r, o[1]) THEN NoArtist ELSE e]
  OBVIOUS
<1>6. PICK rows : rows = Overlay(written, RowsSeen(r))
  OBVIOUS
<1>7. PICK combined : combined = {o \in Copies : /\ rows[o] = e
                                                /\ \A n \in (o[2] + 1)..MaxCopies : rows[<<o[1], n>>] # e}
  OBVIOUS
<1>8. merging' = [merging EXCEPT ![r].pc = "commit",
                     ![r].rows = [o \in DOMAIN @ \cup DOMAIN written |-> rows[o]], ![r].document = combined]
  <2>1. LET gathered == merging[r].records
            moved == {o \in Copies : RowsSeen(r)[o] = merging[r].artist /\ Foreign(r, o[1])}
            new == [o \in gathered \cup moved |-> IF Foreign(r, o[1]) THEN NoArtist ELSE merging[r].artist]
            seen == Overlay(new, RowsSeen(r))
        IN  merging' = [merging EXCEPT ![r].pc = "commit",
               ![r].rows = [o \in DOMAIN @ \cup DOMAIN new |-> seen[o]],
               ![r].document = {o \in Copies : /\ seen[o] = merging[r].artist
                                               /\ \A n \in (o[2] + 1)..MaxCopies : seen[<<o[1], n>>] # merging[r].artist}]
    BY Zenon DEF AttachArtistRecords
  <2>2. quarantined = {o \in Copies : RowsSeen(r)[o] = merging[r].artist /\ Foreign(r, o[1])}
    BY <1>2, <1>4
  <2>3. written = [o \in merging[r].records \cup quarantined |-> IF Foreign(r, o[1]) THEN NoArtist ELSE merging[r].artist]
    BY <1>2, <1>5
  <2>4. merging' = [merging EXCEPT ![r].pc = "commit",
               ![r].rows = [o \in DOMAIN @ \cup DOMAIN written |-> rows[o]],
               ![r].document = {o \in Copies : /\ rows[o] = merging[r].artist
                                               /\ \A n \in (o[2] + 1)..MaxCopies : rows[<<o[1], n>>] # merging[r].artist}]
    BY <1>6, <2>1, <2>2, <2>3, Zenon
  <2>5. combined = {o \in Copies : /\ rows[o] = merging[r].artist
                                   /\ \A n \in (o[2] + 1)..MaxCopies : rows[<<o[1], n>>] # merging[r].artist}
    BY <1>2, <1>7
  <2> QED BY <2>4, <2>5, Zenon
<1>9. PICK before : before = old.rows
  OBVIOUS
<1>10. DOMAIN before \subseteq Copies /\ \A o \in DOMAIN before : before[o] \in {e, NoArtist}
  <2>1. DOMAIN before \subseteq Copies
    BY <1>9 DEF MergingRecord, Staged
  <2>2. \A o \in DOMAIN before : before[o] \in {e, NoArtist}
    BY <1>1, <1>2, <1>9 DEF ArtistInv, Holds
  <2> QED BY <2>1, <2>2
<1>11. DOMAIN written \subseteq Copies /\ \A o \in DOMAIN written : written[o] \in {e, NoArtist}
  <2>1. merging[r].records \subseteq Copies
    BY <1>1 DEF MergingRecord
  <2>2. quarantined \subseteq Copies
    BY <1>4
  <2> QED BY <1>5, <2>1, <2>2
<1>12. RowsSeen(r) = [o \in Copies |-> IF o \in DOMAIN before THEN before[o] ELSE attached[o]]
  BY <1>1, <1>9 DEF RowsSeen, Overlay, ArtistInv, ArtistTypes
<1>13. rows = [o \in Copies |-> IF o \in DOMAIN written THEN written[o]
                               ELSE IF o \in DOMAIN before THEN before[o] ELSE attached[o]]
  BY <1>6, <1>12 DEF Overlay
<1>14. PICK staged : staged = [o \in DOMAIN before \cup DOMAIN written |-> rows[o]]
  OBVIOUS
<1>15. DOMAIN staged = DOMAIN before \cup DOMAIN written /\ \A o \in DOMAIN staged : staged[o] \in {e, NoArtist}
  BY <1>10, <1>11, <1>13, <1>14
<1>16. staged \in Staged(Copies, AnyArtist)
  <2>1. PICK d : d = DOMAIN staged
    OBVIOUS
  <2>2. staged \in [d -> AnyArtist] /\ d \subseteq Copies
    BY <1>3, <1>10, <1>11, <1>14, <1>15, <2>1 DEF AnyArtist
  <2> QED BY <2>2 DEF Staged
<1>17. PICK m : m = [old EXCEPT !.pc = "commit", !.rows = staged, !.document = combined]
  OBVIOUS
<1>18. m \in MergingRecord
  BY <1>7, <1>16, <1>17 DEF MergingRecord
<1>19. m.pc = "commit" /\ m.artist = e /\ m.retired = old.retired /\ m.rows = staged /\ m.document = combined
  BY <1>1, <1>2, <1>17 DEF MergingRecord
<1>20. merging' = [merging EXCEPT ![r] = m]
  BY <1>1, <1>8, <1>9, <1>14, <1>17
<1>21. Holds(old) /\ Takes(old) /\ \A k \in ArtistRoots \ {r} : Apart(old, merging[k])
  BY <1>1, MergeIs
<1>22. Holds(m) /\ Takes(m) /\ \A k \in ArtistRoots \ {r} : Apart(m, merging[k])
  <2>1. Holds(m)
    BY <1>1, <1>2, <1>3, <1>15, <1>19, <1>21 DEF Holds, Writing
  <2>2. Takes(m)
    BY <1>9, <1>15, <1>19, <1>21 DEF Takes
  <2> QED BY <1>1, <1>2, <1>19, <1>21, <2>1, <2>2 DEF Apart
<1>23. Completes(m)
  <2>1. Overlay(m.rows, attached) = rows
    BY <1>13, <1>14, <1>15, <1>19 DEF Overlay, ArtistInv, ArtistTypes
  <2>2. ASSUME NEW o \in Copies, rows[o] = e PROVE \E n \in o[2]..MaxCopies : <<o[1], n>> \in combined
    <3>1. PICK c \in ArtistIds, i \in 1..MaxCopies : o = <<c, i>>
      BY DEF Copies
    <3> DEFINE attachedToo == {n \in 1..MaxCopies : n >= i /\ rows[<<c, n>>] = e}
    <3>2. attachedToo \subseteq 1 .. MaxCopies /\ i \in attachedToo
      BY <2>2, <3>1
    <3>3. PICK n \in attachedToo : \A x \in attachedToo : x <= n
      <4>1. MaxCopies \in Nat /\ attachedToo # {}
        BY <3>2, ArtistAssumption
      <4> HIDE DEF attachedToo
      <4> QED BY <3>2, <4>1, LargestExists
    <3>4. n \in i..MaxCopies /\ rows[<<c, n>>] = e /\ <<c, n>> \in Copies
      BY <3>3 DEF Copies
    <3>5. \A x \in (n + 1)..MaxCopies : rows[<<c, x>>] # e
      <4> SUFFICES ASSUME NEW x \in (n + 1)..MaxCopies, rows[<<c, x>>] = e PROVE FALSE
        OBVIOUS
      <4>1. x \in 1..MaxCopies /\ x >= i /\ x > n /\ n \in Nat
        BY <3>4, ArtistAssumption
      <4> QED BY <3>3, <4>1
    <3>6. <<c, n>> \in combined
      BY <1>7, <3>4, <3>5
    <3> QED BY <3>1, <3>4, <3>6
  <2> QED BY <1>19, <2>1, <2>2 DEF Completes, HasNewest
<1>24. copies' \in [ArtistIds -> 0..MaxCopies] /\ artistRun' \in [ArtistRoots -> RunRecord]
  BY <1>3 DEF ArtistInv, ArtistTypes
<1> QED BY <1>3, <1>18, <1>20, <1>22, <1>23, <1>24, MergeStepKeeps

\* A commit moves records to its artist only, and retires none that keeps any.
LEMMA ArtistCommitKeeps ==
    ASSUME ArtistInv, NEW r \in ArtistRoots, CommitArtist(r)
    PROVE  ArtistInv'
<1>1. PICK m \in MergingRecord : m = merging[r]
  BY MergeIs
<1>2. PICK none : none = NotMerging
  OBVIOUS
<1>3. none \in MergingRecord /\ Holds(none) /\ none.pc = "idle" /\ none.retired = {} /\ none.artist = NoArtist
  BY <1>2, IdleMerge
<1>4. PICK e : e = m.artist
  OBVIOUS
<1>5. PICK retired : retired = m.retired
  OBVIOUS
<1>6. /\ m.pc = "commit" /\ attached' = Overlay(m.rows, attached) /\ artistClaim' = ClaimsSeen(r)
      /\ artists' = artists \cup {e} /\ redirect' = [x \in Artists |-> IF x \in retired THEN e ELSE redirect[x]]
      /\ artistDocument' = [x \in Artists |-> IF x \in retired THEN {}
                                              ELSE IF x = e THEN m.document ELSE artistDocument[x]]
      /\ merging' = [merging EXCEPT ![r] = none] /\ UNCHANGED copies
  BY <1>1, <1>2, <1>4, <1>5 DEF CommitArtist, Doing, RowsSeen
<1>7. Holds(m) /\ Takes(m) /\ Completes(m) /\ \A k \in ArtistRoots \ {r} : Apart(m, merging[k])
  BY <1>1, MergeIs
<1>8. /\ e \in Artists /\ e # NoArtist /\ e \notin retired /\ retired \subseteq Artists
      /\ \A o \in DOMAIN m.rows : m.rows[o] \in {e, NoArtist}
  BY <1>4, <1>5, <1>6, <1>7, ArtistAssumption DEF Holds, Writing, MergingRecord
<1>9. merging'[r] = none /\ \A k \in ArtistRoots \ {r} : merging'[k] = merging[k]
  BY <1>6 DEF ArtistInv, ArtistTypes
<1>10. /\ attached \in [Copies -> AnyArtist]
       /\ \A o \in Copies : attached'[o] = IF o \in DOMAIN m.rows THEN m.rows[o] ELSE attached[o]
  BY <1>6 DEF Overlay, ArtistInv, ArtistTypes
<1>11. \A o \in Copies : attached'[o] = attached[o] \/ attached'[o] \in {e, NoArtist}
  BY <1>8, <1>10
<1>12. ArtistTypes'
  <2>1. attached' \in [Copies -> AnyArtist] /\ artistClaim' \in [ArtistIds -> OwnedClaim]
    BY <1>1, <1>6, SeenTypes DEF RowsSeen
  <2>2. artists' \subseteq Artists /\ redirect' \in [Artists -> AnyArtist]
    BY <1>6, <1>8 DEF ArtistInv, ArtistTypes, AnyArtist
  <2>3. artistDocument' \in [Artists -> SUBSET Copies]
    <3>1. m.document \subseteq Copies
      BY DEF MergingRecord
    <3> QED BY <1>6, <3>1 DEF ArtistInv, ArtistTypes
  <2>4. merging' \in [ArtistRoots -> MergingRecord]
    BY <1>3, <1>6 DEF ArtistInv, ArtistTypes
  <2>5. artistRun' \in [ArtistRoots -> RunRecord]
    <3>1. PICK runs \in [ArtistRoots -> RunRecord] : runs = artistRun
      BY DEF ArtistInv, ArtistTypes
    <3>2. \A k \in ArtistRoots : [runs[k] EXCEPT !.artist = e] \in RunRecord
      BY <1>8 DEF RunRecord, AnyArtist
    <3>3. [runs[r] EXCEPT !.state = "completed", !.artist = e] \in RunRecord
      BY <1>8 DEF RunRecord, AnyArtist
    <3>4. artistRun' = [k \in ArtistRoots |->
               IF k = r THEN [runs[r] EXCEPT !.state = "completed", !.artist = e]
               ELSE IF runs[k].artist \in retired THEN [runs[k] EXCEPT !.artist = e] ELSE runs[k]]
      BY <1>1, <1>4, <1>5, <3>1 DEF CommitArtist
    <3> QED BY <3>2, <3>3, <3>4
  <2>6. copies' \in [ArtistIds -> 0..MaxCopies]
    BY <1>6 DEF ArtistInv, ArtistTypes
  <2> QED BY <2>1, <2>2, <2>3, <2>4, <2>5, <2>6 DEF ArtistTypes
<1>13. ASSUME NEW k \in ArtistRoots PROVE Holds(merging'[k]) /\ Takes(merging[k])' /\ Completes(merging[k])'
  <2>1. PICK n : n = merging'[k]
    OBVIOUS
  <2>2. CASE k = r
    <3>1. n = none
      BY <1>9, <2>1, <2>2
    <3>2. Holds(n) /\ Takes(n)' /\ Completes(n)'
      BY <1>3, <3>1 DEF Takes, Completes
    <3> QED BY <2>1, <3>2
  <2>3. CASE k # r
    <3>1. n = merging[k] /\ n \in MergingRecord /\ Holds(n) /\ Takes(n) /\ Completes(n) /\ Apart(m, n)
      BY <1>7, <1>9, <2>1, <2>3, MergeIs
    <3>2. n.retired \subseteq Artists /\ NoArtist \notin n.retired /\ e \notin n.retired /\ e # n.artist
      BY <1>4, <1>8, <3>1, ArtistAssumption DEF MergingRecord, Apart
    <3>3. Takes(n)'
      BY <1>11, <3>1, <3>2 DEF Takes
    <3>4. Completes(n)'
      <4> SUFFICES ASSUME n.pc = "commit" PROVE HasNewest(n.document, Overlay(n.rows, attached'), n.artist)
        BY DEF Completes
      <4>1. n.artist # NoArtist
        BY <3>1, ArtistAssumption DEF Holds, Writing
      <4>2. DOMAIN attached = Copies /\ DOMAIN attached' = Copies
        BY <1>6, <1>10 DEF Overlay
      <4>3. \A o \in Copies : Overlay(n.rows, attached')[o] = n.artist => Overlay(n.rows, attached)[o] = n.artist
        BY <1>11, <3>2, <4>1, <4>2 DEF Overlay
      <4>4. HasNewest(n.document, Overlay(n.rows, attached), n.artist)
        BY <3>1 DEF Completes
      <4> QED BY <4>3, <4>4 DEF HasNewest
    <3> QED BY <2>1, <3>1, <3>3, <3>4
  <2> QED BY <2>2, <2>3
<1>14. ASSUME NEW i \in ArtistRoots, NEW k \in ArtistRoots, i # k PROVE Apart(merging'[i], merging'[k])
  <2>1. CASE i = r \/ k = r
    BY <1>3, <1>9, <2>1 DEF Apart
  <2>2. CASE i # r /\ k # r
    BY <1>9, <1>14, <2>2 DEF ArtistInv
  <2> QED BY <2>1, <2>2
<1>15. ASSUME NEW x \in Artists PROVE HasNewest(artistDocument'[x], attached', x)
  <2>1. x # NoArtist /\ DOMAIN attached = Copies
    BY <1>10, ArtistAssumption
  <2>2. CASE x \in retired
    <3>1. \A o \in Copies : attached'[o] # x
      BY <1>5, <1>7, <1>8, <1>10, <2>1, <2>2 DEF Takes
    <3> QED BY <3>1 DEF HasNewest
  <2>3. CASE x = e
    <3>1. artistDocument'[x] = m.document
      BY <1>6, <1>8, <2>3
    <3>2. HasNewest(m.document, Overlay(m.rows, attached), e)
      BY <1>4, <1>6, <1>7 DEF Completes
    <3> QED BY <1>6, <2>3, <3>1, <3>2
  <2>4. CASE x # e /\ x \notin retired
    <3>1. artistDocument'[x] = artistDocument[x]
      BY <1>6, <2>4
    <3>2. \A o \in Copies : attached'[o] = x => attached[o] = x
      BY <1>11, <2>1, <2>4
    <3>3. HasNewest(artistDocument[x], attached, x)
      BY ArtistEvidenceIs DEF ArtistInv
    <3> QED BY <3>1, <3>2, <3>3 DEF HasNewest
  <2> QED BY <2>2, <2>3, <2>4
<1>16. ArtistKeepsEvidence'
  BY <1>12, <1>15, ArtistEvidenceNext
<1>17. \A k \in ArtistRoots : Holds(merging[k])'
  BY <1>13 DEF Holds
<1>18. \A i, k \in ArtistRoots : i # k => Apart(merging[i], merging[k])'
  BY <1>14 DEF Apart
<1> QED BY <1>12, <1>13, <1>16, <1>17, <1>18 DEF ArtistInv

LEMMA ArtistStep == ArtistInv /\ [ArtistNext]_artistVars => ArtistInv'
<1> SUFFICES ASSUME ArtistInv, [ArtistNext]_artistVars PROVE ArtistInv'
  OBVIOUS
<1>1. CASE ArtistNext
  <2>1. PICK r \in ArtistRoots :
          \/ StartArtist(r) \/ CollectArtist(r) \/ ResolveArtistId(r) \/ ResolvePreferred(r)
          \/ ConflictingArtists(r) \/ CreateArtist(r) \/ LockArtist(r) \/ Consolidate(r)
          \/ RefuseForeignRoot(r) \/ ClaimArtistIds(r) \/ AttachArtistRecords(r)
          \/ RejectForeignRecords(r) \/ CommitArtist(r) \/ AbortArtist(r) \/ CrashArtist(r)
    BY <1>1 DEF ArtistNext
  <2>2. ASSUME ConflictingArtists(r) \/ RefuseForeignRoot(r) \/ RejectForeignRecords(r) \/ AbortArtist(r) \/ CrashArtist(r)
        PROVE  Ends(r, "failed") \/ Ends(r, "working")
    BY <2>2 DEF ConflictingArtists, RefuseForeignRoot, RejectForeignRecords, AbortArtist, CrashArtist
  <2> QED BY <2>1, <2>2, ReadStepKeeps, TakeArtistKeeps, ConsolidateKeeps, ClaimKeeps, AttachKeeps, ArtistCommitKeeps, EndKeeps
<1>2. CASE UNCHANGED artistVars
  <2>1. ArtistTypes'
    BY <1>2 DEF artistVars, storedArtists, ArtistInv, ArtistTypes
  <2>2. UNCHANGED <<merging, attached, artistDocument>>
    BY <1>2 DEF artistVars, storedArtists
  <2>3. \A r \in ArtistRoots : Holds(merging[r])' /\ Takes(merging[r])' /\ Completes(merging[r])'
    BY <2>2 DEF ArtistInv, Holds, Takes, Completes, HasNewest, Overlay
  <2>4. \A r, k \in ArtistRoots : r # k => Apart(merging[r], merging[k])'
    BY <2>2 DEF ArtistInv, Apart
  <2>5. ArtistKeepsEvidence'
    BY <2>2 DEF ArtistInv, ArtistKeepsEvidence
  <2> QED BY <2>1, <2>3, <2>4, <2>5 DEF ArtistInv
<1> QED BY <1>1, <1>2

THEOREM ArtistInvariance == ArtistSpec => []ArtistInv
BY ArtistStart, ArtistStep, PTL DEF ArtistSpec

\* The newest attached record of every id is in the document of its artist, for any number of
\* merges and consolidations, whoever takes ids and records from whom (mergeWithPreferred,
\* consolidateMusicBrainzArtistRoots).
THEOREM ArtistEvidenceSafety == ArtistSpec => []ArtistKeepsEvidence
<1>1. ArtistInv => ArtistKeepsEvidence
  BY DEF ArtistInv
<1> QED BY <1>1, ArtistInvariance, PTL

\* Every variable of the artist merges has its type.
THEOREM ArtistTypeSafety == ArtistSpec => []ArtistTypeOK
<1>1. ArtistInv => ArtistTypeOK
  <2> SUFFICES ASSUME ArtistInv PROVE ArtistTypeOK
    OBVIOUS
  <2>1. artistClaim \in [ArtistIds -> ArtistClaim]
    BY DEF ArtistInv, ArtistTypes, OwnedClaim
  <2>2. ASSUME NEW r \in ArtistRoots
        PROVE  LET m == merging[r]
               IN  /\ m.pc \in {"idle", "collect", "resolve", "claim", "attach", "commit"}
                   /\ m.ids \in Seq(ArtistIds) /\ m.records \subseteq Copies /\ m.preferred \in AnyArtist
                   /\ m.next \in Nat \ {0} /\ m.found \subseteq Artists /\ m.artist \in AnyArtist
                   /\ m.retired \subseteq Artists /\ m.document \subseteq Copies
                   /\ DOMAIN m.claims \subseteq ArtistIds /\ \A c \in DOMAIN m.claims : m.claims[c] \in ArtistClaim
                   /\ DOMAIN m.rows \subseteq Copies /\ \A o \in DOMAIN m.rows : m.rows[o] \in AnyArtist
    <3>1. PICK m \in MergingRecord : m = merging[r]
      BY MergeIs
    <3>2. m.claims \in Staged(ArtistIds, OwnedClaim) /\ m.rows \in Staged(Copies, AnyArtist)
      BY DEF MergingRecord
    <3>3. DOMAIN m.claims \subseteq ArtistIds /\ \A c \in DOMAIN m.claims : m.claims[c] \in ArtistClaim
      BY <3>2 DEF Staged, OwnedClaim
    <3>4. DOMAIN m.rows \subseteq Copies /\ \A o \in DOMAIN m.rows : m.rows[o] \in AnyArtist
      BY <3>2 DEF Staged
    <3> QED BY <3>1, <3>3, <3>4 DEF MergingRecord
  <2> QED BY <2>1, <2>2 DEF ArtistTypeOK, ArtistInv, ArtistTypes, RunRecord
<1> QED BY <1>1, ArtistInvariance, PTL

-----------------------------------------------------------------------------
(* Redirects of artists *)

\* The artists a consolidation is about stay live until it commits: it holds their rows.
Unites(m) == m.retired # {} => {m.artist} \cup m.retired \subseteq Live

ChainInv ==
    /\ IsFiniteSet(artists) /\ Descends(redirect, NoArtist)
    /\ \A e \in Artists : redirect[e] # NoArtist => e \in artists /\ redirect[e] \in artists
    /\ \A r \in ArtistRoots : Unites(merging[r])

LEMMA ChainStart == ArtistInit => ChainInv
<1> SUFFICES ASSUME ArtistInit PROVE ChainInv
  OBVIOUS
<1>1. redirect = [e \in Artists |-> NoArtist] /\ artists = {} /\ \A r \in ArtistRoots : merging[r] = NotMerging
  BY DEF ArtistInit
<1>2. IsFiniteSet(artists)
  BY <1>1, FS_EmptySet
<1>3. Descends(redirect, NoArtist)
  <2>1. Gone(redirect, NoArtist) = {}
    BY <1>1 DEF Gone
  <2> QED BY <2>1, DescendsFrom
<1>4. \A r \in ArtistRoots : Unites(merging[r])
  BY <1>1, IdleMerge DEF Unites
<1> QED BY <1>1, <1>2, <1>3, <1>4 DEF ChainInv

\* A step that publishes nothing, and after which the merge retires nobody, the same artists
\* as before, or live ones.
LEMMA ChainStays ==
    ASSUME ArtistInv, ChainInv, NEW r \in ArtistRoots, UNCHANGED <<artists, redirect>>,
           \A k \in ArtistRoots \ {r} : merging'[k] = merging[k],
           merging'[r].retired # {} =>
              \/ merging'[r].retired = merging[r].retired /\ merging'[r].artist = merging[r].artist
              \/ {merging'[r].artist} \cup merging'[r].retired \subseteq Live
    PROVE  ChainInv'
<1>1. Live' = Live
  BY DEF Live
<1>2. \A k \in ArtistRoots : Unites(merging[k])'
  BY <1>1 DEF ChainInv, Unites
<1> QED BY <1>2 DEF ChainInv

\* What a merge retires changes when it consolidates and when it ends.
LEMMA RetiredStays ==
    ASSUME ArtistInv, NEW r \in ArtistRoots,
           \/ StartArtist(r) \/ CollectArtist(r) \/ ResolveArtistId(r) \/ ResolvePreferred(r)
           \/ ConflictingArtists(r) \/ CreateArtist(r) \/ LockArtist(r)
           \/ RefuseForeignRoot(r) \/ ClaimArtistIds(r) \/ AttachArtistRecords(r)
           \/ RejectForeignRecords(r) \/ AbortArtist(r) \/ CrashArtist(r)
    PROVE  /\ UNCHANGED <<artists, redirect>> /\ \A k \in ArtistRoots \ {r} : merging'[k] = merging[k]
           /\ merging'[r].retired # {} =>
                 merging'[r].retired = merging[r].retired /\ merging'[r].artist = merging[r].artist
<1>1. PICK old \in MergingRecord : old = merging[r]
  BY MergeIs
<1>2. old.pc \notin Writing => old.retired = {}
  BY <1>1, MergeIs
<1>3. merging \in [ArtistRoots -> MergingRecord]
  BY DEF ArtistInv, ArtistTypes
<1>4. ASSUME Ends(r, "failed") \/ Ends(r, "working")
      PROVE  /\ UNCHANGED <<artists, redirect>> /\ \A k \in ArtistRoots \ {r} : merging'[k] = merging[k]
             /\ merging'[r].retired = {}
  <2>1. PICK none : none = NotMerging
    OBVIOUS
  <2>2. merging' = [merging EXCEPT ![r] = none] /\ UNCHANGED <<artists, redirect>> /\ none.retired = {}
    BY <1>4, <2>1, IdleMerge DEF Ends, storedArtists
  <2> QED BY <1>3, <2>2
<1>5. ASSUME \/ StartArtist(r) \/ CollectArtist(r) \/ ResolveArtistId(r) \/ CreateArtist(r) \/ LockArtist(r)
             \/ (ResolvePreferred(r) /\ old.preferred \in Live)
      PROVE  /\ UNCHANGED <<artists, redirect>> /\ \A k \in ArtistRoots \ {r} : merging'[k] = merging[k]
             /\ merging'[r].retired = old.retired /\ old.retired = {}
  <2>1. old.pc \in {"idle", "collect", "resolve"} /\ UNCHANGED <<artists, redirect>>
    BY <1>1, <1>5 DEF StartArtist, CollectArtist, ResolveArtistId, CreateArtist, LockArtist, ResolvePreferred,
                      Doing, Decided, storedArtists
  <2>2. \E m : merging' = [merging EXCEPT ![r] = m] /\ m.retired = old.retired
    <3>1. CASE StartArtist(r)
      <4>1. PICK m : m = [old EXCEPT !.pc = "collect"]
        OBVIOUS
      <4>2. merging' = [merging EXCEPT ![r] = m]
        BY <1>1, <3>1, <4>1 DEF StartArtist
      <4>3. m.retired = old.retired
        BY <4>1 DEF MergingRecord
      <4> QED BY <4>2, <4>3
    <3>2. CASE CollectArtist(r)
      <4>1. \E ids, gathered, preferred :
               merging' = [merging EXCEPT ![r].pc = "resolve", ![r].ids = ids, ![r].records = gathered,
                                          ![r].preferred = preferred]
        BY <3>2, Zenon DEF CollectArtist
      <4>2. PICK ids, gathered, preferred :
               merging' = [merging EXCEPT ![r].pc = "resolve", ![r].ids = ids, ![r].records = gathered,
                                          ![r].preferred = preferred]
        BY <4>1
      <4>3. PICK m : m = [old EXCEPT !.pc = "resolve", !.ids = ids, !.records = gathered,
                                                          !.preferred = preferred]
        OBVIOUS
      <4>4. merging' = [merging EXCEPT ![r] = m]
        BY <1>1, <4>3, <4>2
      <4>5. m.retired = old.retired
        BY <4>3 DEF MergingRecord
      <4> QED BY <4>4, <4>5
    <3>3. CASE ResolveArtistId(r)
      <4>1. \E next, found : merging' = [merging EXCEPT ![r].next = next, ![r].found = found]
        BY <3>3 DEF ResolveArtistId
      <4>2. PICK next, found : merging' = [merging EXCEPT ![r].next = next, ![r].found = found]
        BY <4>1
      <4>3. PICK m : m = [old EXCEPT !.next = next, !.found = found]
        OBVIOUS
      <4>4. merging' = [merging EXCEPT ![r] = m]
        BY <1>1, <4>3, <4>2
      <4>5. m.retired = old.retired
        BY <4>3 DEF MergingRecord
      <4> QED BY <4>4, <4>5
    <3>4. CASE CreateArtist(r) \/ LockArtist(r)
      <4>1. PICK e : merging' = [merging EXCEPT ![r].pc = "claim", ![r].artist = e]
        BY <3>4 DEF CreateArtist, LockArtist
      <4>2. PICK m : m = [old EXCEPT !.pc = "claim", !.artist = e]
        OBVIOUS
      <4>3. merging' = [merging EXCEPT ![r] = m]
        BY <1>1, <4>2, <4>1
      <4>4. m.retired = old.retired
        BY <4>2 DEF MergingRecord
      <4> QED BY <4>3, <4>4
    <3>5. CASE ResolvePreferred(r) /\ old.preferred \in Live
      <4>1. \E found : merging' = [merging EXCEPT ![r].preferred = NoArtist, ![r].found = found]
        BY <1>1, <3>5 DEF ResolvePreferred
      <4>2. PICK found : merging' = [merging EXCEPT ![r].preferred = NoArtist, ![r].found = found]
        BY <4>1
      <4>3. PICK m : m = [old EXCEPT !.preferred = NoArtist, !.found = found]
        OBVIOUS
      <4>4. merging' = [merging EXCEPT ![r] = m]
        BY <1>1, <4>3, <4>2
      <4>5. m.retired = old.retired
        BY <4>3 DEF MergingRecord
      <4> QED BY <4>4, <4>5
    <3> QED BY <1>5, <3>1, <3>2, <3>3, <3>4, <3>5
  <2>3. PICK m : merging' = [merging EXCEPT ![r] = m] /\ m.retired = old.retired
    BY <2>2
  <2> QED BY <1>2, <1>3, <2>1, <2>3 DEF Writing
<1>6. ASSUME ClaimArtistIds(r) \/ AttachArtistRecords(r)
      PROVE  /\ UNCHANGED <<artists, redirect>> /\ \A k \in ArtistRoots \ {r} : merging'[k] = merging[k]
             /\ merging'[r].retired = old.retired /\ merging'[r].artist = old.artist
  <2>1. CASE ClaimArtistIds(r)
    <3>1. \E claimed : merging' = [merging EXCEPT ![r].pc = "attach", ![r].claims = claimed]
      BY <2>1, Zenon DEF ClaimArtistIds
    <3>2. PICK claimed : merging' = [merging EXCEPT ![r].pc = "attach", ![r].claims = claimed]
      BY <3>1
    <3>3. merging' = [merging EXCEPT ![r] = [old EXCEPT !.pc = "attach", !.claims = claimed]]
      BY <1>1, <3>2
    <3>4. UNCHANGED <<artists, redirect>>
      BY <2>1 DEF ClaimArtistIds, storedArtists
    <3> QED BY <1>3, <3>3, <3>4 DEF MergingRecord
  <2>2. CASE AttachArtistRecords(r)
    <3>1. \E rows, combined : merging' = [merging EXCEPT ![r].pc = "commit", ![r].rows = rows, ![r].document = combined]
      BY <2>2, Zenon DEF AttachArtistRecords
    <3>2. PICK rows, combined : merging' = [merging EXCEPT ![r].pc = "commit", ![r].rows = rows, ![r].document = combined]
      BY <3>1
    <3>3. merging' = [merging EXCEPT ![r] = [old EXCEPT !.pc = "commit", !.rows = rows, !.document = combined]]
      BY <1>1, <3>2
    <3>4. UNCHANGED <<artists, redirect>>
      BY <2>2 DEF AttachArtistRecords, storedArtists
    <3> QED BY <1>3, <3>3, <3>4 DEF MergingRecord
  <2> QED BY <1>6, <2>1, <2>2
<1>7. ASSUME \/ ConflictingArtists(r) \/ RefuseForeignRoot(r) \/ RejectForeignRecords(r)
             \/ AbortArtist(r) \/ CrashArtist(r)
             \/ (ResolvePreferred(r) /\ old.preferred \notin Live)
      PROVE  Ends(r, "failed") \/ Ends(r, "working")
  BY <1>1, <1>7 DEF ConflictingArtists, RefuseForeignRoot, RejectForeignRecords, AbortArtist, CrashArtist, ResolvePreferred
<1> QED BY <1>1, <1>4, <1>5, <1>6, <1>7

\* A consolidation unites live artists.
LEMMA ConsolidateUnites ==
    ASSUME ArtistInv, NEW r \in ArtistRoots, Consolidate(r)
    PROVE  /\ UNCHANGED <<artists, redirect>> /\ \A k \in ArtistRoots \ {r} : merging'[k] = merging[k]
           /\ {merging'[r].artist} \cup merging'[r].retired \subseteq Live
<1>1. PICK old \in MergingRecord : old = merging[r]
  BY MergeIs
<1>2. PICK found : found = old.found
  OBVIOUS
<1>3. found \subseteq Live /\ UNCHANGED <<artists, redirect>>
  BY <1>1, <1>2 DEF Consolidate, storedArtists
<1>4. \E survivor \in found : \E claimed, rows :
         merging' = [merging EXCEPT ![r].pc = "claim", ![r].artist = survivor, ![r].retired = found \ {survivor},
                                    ![r].claims = claimed, ![r].rows = rows]
  <2>1. PICK x \in IF {e \in merging[r].found : artistClaim[r] = [artist |-> e, state |-> "accepted"]} # {}
                   THEN {e \in merging[r].found : artistClaim[r] = [artist |-> e, state |-> "accepted"]}
                   ELSE merging[r].found :
           LET retired == merging[r].found \ {x}
               moved == {c \in ArtistIds : artistClaim[c].artist \in retired}
               rows == {o \in Copies : attached[o] \in retired}
           IN  /\ FreeClaims(r, moved) /\ FreeRows(r, rows)
               /\ merging' = [merging EXCEPT
                      ![r].pc = "claim", ![r].artist = x, ![r].retired = retired,
                      ![r].claims = [c \in moved |-> [artistClaim[c] EXCEPT !.artist = x]],
                      ![r].rows = [o \in rows |-> x]]
    BY Zenon DEF Consolidate
  <2>2. x \in found
    BY <1>1, <1>2, <2>1
  <2>3. \E claimed, rows :
           merging' = [merging EXCEPT ![r].pc = "claim", ![r].artist = x, ![r].retired = merging[r].found \ {x},
                                      ![r].claims = claimed, ![r].rows = rows]
    BY <2>1, Zenon
  <2>4. merging[r].found = found
    BY <1>1, <1>2
  <2> QED BY <2>2, <2>3, <2>4, Zenon
<1>5. PICK survivor \in found : \E claimed, rows :
         merging' = [merging EXCEPT ![r].pc = "claim", ![r].artist = survivor, ![r].retired = found \ {survivor},
                                    ![r].claims = claimed, ![r].rows = rows]
  BY <1>4
<1>6. PICK claimed, rows :
         merging' = [merging EXCEPT ![r].pc = "claim", ![r].artist = survivor, ![r].retired = found \ {survivor},
                                    ![r].claims = claimed, ![r].rows = rows]
  BY <1>5
<1>7. PICK m : m = [old EXCEPT !.pc = "claim", !.artist = survivor, !.retired = found \ {survivor},
                               !.claims = claimed, !.rows = rows]
  OBVIOUS
<1>8. merging' = [merging EXCEPT ![r] = m]
  BY <1>1, <1>6, <1>7
<1>9. m.artist = survivor /\ m.retired = found \ {survivor}
  BY <1>7 DEF MergingRecord
<1>10. merging'[r] = m /\ \A k \in ArtistRoots \ {r} : merging'[k] = merging[k]
  BY <1>8 DEF ArtistInv, ArtistTypes
<1> QED BY <1>3, <1>9, <1>10

\* A commit redirects artists that are live until then to one that stays so, and leaves the
\* artists of other merges alone.
LEMMA CommitChains ==
    ASSUME ArtistInv, ChainInv, NEW r \in ArtistRoots, CommitArtist(r)
    PROVE  ChainInv'
<1>1. PICK m \in MergingRecord : m = merging[r]
  BY MergeIs
<1>2. PICK e, retired : e = m.artist /\ retired = m.retired
  OBVIOUS
<1>3. PICK none : none = NotMerging
  OBVIOUS
<1>4. /\ m.pc = "commit" /\ artists' = artists \cup {e}
      /\ redirect' = [x \in Artists |-> IF x \in retired THEN e ELSE redirect[x]]
      /\ merging' = [merging EXCEPT ![r] = none]
  BY <1>1, <1>2, <1>3 DEF CommitArtist, Doing
<1>5. none.retired = {} /\ none.artist = NoArtist
  BY <1>3, IdleMerge
<1>6. Holds(m) /\ \A k \in ArtistRoots \ {r} : Apart(m, merging[k])
  BY <1>1, MergeIs
<1>7. e \in Artists /\ e # NoArtist /\ e \notin retired /\ retired \subseteq Artists
  BY <1>2, <1>4, <1>6, ArtistAssumption DEF Holds, Writing, MergingRecord
<1>8. /\ redirect \in [Artists -> AnyArtist] /\ artists \subseteq Artists /\ DOMAIN redirect = Artists
      /\ merging \in [ArtistRoots -> MergingRecord]
  BY DEF ArtistInv, ArtistTypes
<1>9. retired # {} => {e} \cup retired \subseteq Live
  BY <1>1, <1>2 DEF ChainInv, Unites
<1>10. /\ IsFiniteSet(artists) /\ Descends(redirect, NoArtist)
       /\ \A x \in Artists : redirect[x] # NoArtist => x \in artists /\ redirect[x] \in artists
  BY DEF ChainInv
<1>11. IsFiniteSet(artists')
  BY <1>4, <1>10, FS_AddElement
<1>12. Descends(redirect', NoArtist)
  <2>1. CASE retired = {}
    <3>1. redirect' = redirect
      BY <1>4, <1>8, <2>1
    <3> QED BY <1>10, <3>1
  <2>2. CASE retired # {}
    <3>1. retired \subseteq artists /\ IsFiniteSet(retired)
      <4>1. retired \subseteq artists
        BY <1>9, <2>2 DEF Live
      <4> QED BY <1>10, <4>1, FS_Subset
    <3>2. e \in DOMAIN redirect /\ e \notin Gone(redirect, NoArtist)
          /\ retired \subseteq DOMAIN redirect \ Gone(redirect, NoArtist)
      BY <1>7, <1>8, <1>9, <2>2 DEF Live, Gone
    <3>3. redirect' = [x \in DOMAIN redirect |-> IF x \in retired THEN e ELSE redirect[x]]
      BY <1>4, <1>8
    <3> QED BY <1>7, <1>10, <3>1, <3>2, <3>3, DescendsStep
  <2> QED BY <2>1, <2>2
<1>13. ASSUME NEW x \in Artists, redirect'[x] # NoArtist PROVE x \in artists' /\ redirect'[x] \in artists'
  <2>1. CASE x \in retired
    <3>1. x \in artists
      BY <1>9, <2>1 DEF Live
    <3> QED BY <1>4, <2>1, <3>1
  <2>2. CASE x \notin retired
    BY <1>4, <1>10, <1>13, <2>2
  <2> QED BY <2>1, <2>2
<1>14. ASSUME NEW k \in ArtistRoots PROVE Unites(merging[k])'
  <2>1. CASE k = r
    BY <1>4, <1>5, <1>8, <2>1 DEF Unites
  <2>2. CASE k # r
    <3>1. merging'[k] = merging[k] /\ Unites(merging[k])
      BY <1>4, <1>8, <2>2 DEF ChainInv
    <3>2. ASSUME NEW x \in {merging[k].artist} \cup merging[k].retired, merging[k].retired # {} PROVE x \in Live'
      <4>1. x \in Live /\ x # NoArtist /\ x \in Artists
        BY <1>8, <3>1, <3>2, ArtistAssumption DEF Unites, Live
      <4>2. x \notin retired
        BY <1>2, <1>6, <2>2, <4>1 DEF Apart
      <4> QED BY <1>4, <4>1, <4>2 DEF Live
    <3> QED BY <3>1, <3>2 DEF Unites
  <2> QED BY <2>1, <2>2
<1> QED BY <1>11, <1>12, <1>13, <1>14 DEF ChainInv

LEMMA ChainStep == ArtistInv /\ ChainInv /\ [ArtistNext]_artistVars => ChainInv'
<1> SUFFICES ASSUME ArtistInv, ChainInv, [ArtistNext]_artistVars PROVE ChainInv'
  OBVIOUS
<1>1. CASE ArtistNext
  <2>1. PICK r \in ArtistRoots :
          \/ StartArtist(r) \/ CollectArtist(r) \/ ResolveArtistId(r) \/ ResolvePreferred(r)
          \/ ConflictingArtists(r) \/ CreateArtist(r) \/ LockArtist(r) \/ Consolidate(r)
          \/ RefuseForeignRoot(r) \/ ClaimArtistIds(r) \/ AttachArtistRecords(r)
          \/ RejectForeignRecords(r) \/ CommitArtist(r) \/ AbortArtist(r) \/ CrashArtist(r)
    BY <1>1 DEF ArtistNext
  <2>2. CASE Consolidate(r)
    BY <2>2, ConsolidateUnites, ChainStays
  <2>3. CASE CommitArtist(r)
    BY <2>3, CommitChains
  <2>4. CASE ~Consolidate(r) /\ ~CommitArtist(r)
    BY <2>1, <2>4, RetiredStays, ChainStays
  <2> QED BY <2>2, <2>3, <2>4
<1>2. CASE UNCHANGED artistVars
  BY <1>2 DEF artistVars, storedArtists, ChainInv, Unites, Live
<1> QED BY <1>1, <1>2

\* From every artist that a consolidation retired the redirects lead to a live one, and
\* CanonicalID finds it within the redirects it follows (consolidateMusicBrainzArtistRoots).
THEOREM RetiredArtistsSafety == ArtistSpec => []RetiredArtistsResolve
<1>1. ArtistInv /\ ChainInv => RetiredArtistsResolve
  <2> SUFFICES ASSUME ArtistInv, ChainInv, NEW e \in artists
               PROVE  \E n \in 0..Cardinality(artists) :
                         /\ Following(redirect, NoArtist)[n][e] \in Live
                         /\ n <= RedirectDepth =>
                               Canonical(redirect, NoArtist, e) = Following(redirect, NoArtist)[n][e]
    BY Zenon DEF RetiredArtistsResolve
  <2>1. artists \subseteq Artists /\ DOMAIN redirect = Artists /\ artists \in SUBSET (DOMAIN redirect)
    BY DEF ArtistInv, ArtistTypes
  <2>2. /\ IsFiniteSet(artists) /\ Descends(redirect, NoArtist)
        /\ \A x \in artists \cap Gone(redirect, NoArtist) : redirect[x] \in artists
        /\ Gone(redirect, NoArtist) \subseteq artists
    BY <2>1 DEF ChainInv, Gone
  <2>3. PICK n \in 0..Cardinality(Gone(redirect, NoArtist)) :
           Following(redirect, NoArtist)[n][e] \in artists \ Gone(redirect, NoArtist)
    BY <2>1, <2>2, ChainsEnd
  <2>4. n \in 0..Cardinality(artists)
    <3>1. /\ Cardinality(Gone(redirect, NoArtist)) <= Cardinality(artists)
          /\ IsFiniteSet(Gone(redirect, NoArtist))
      BY <2>2, FS_Subset
    <3>2. Cardinality(Gone(redirect, NoArtist)) \in Nat /\ Cardinality(artists) \in Nat
      BY <2>2, <3>1, FS_CardinalityType
    <3> QED BY <3>1, <3>2
  <2>5. Following(redirect, NoArtist)[n][e] \in Live
    BY <2>1, <2>3 DEF Live, Gone
  <2>6. ASSUME n <= RedirectDepth
        PROVE  Canonical(redirect, NoArtist, e) = Following(redirect, NoArtist)[n][e]
    <3>1. n \in 0..RedirectDepth
      BY <2>4, <2>6 DEF RedirectDepth
    <3>2. Following(redirect, NoArtist)[n][e] \notin Gone(redirect, NoArtist) /\ e \in DOMAIN redirect
      BY <2>1, <2>3
    <3> QED BY <2>2, <3>1, <3>2, CanonicalIs
  <2> QED BY <2>4, <2>5, <2>6
<1> QED BY <1>1, ArtistInvariance, ChainStart, ChainStep, PTL DEF ArtistSpec

-----------------------------------------------------------------------------
(* The three kinds together, which share no variable *)

\* A behaviour of the three kinds is one of each.
LEMMA IdentityComposition ==
    IdentitySpec => Spec /\ EpisodicSpec /\ ArtistSpec /\ [](subject \in {"movies", "shows", "artists"})
<1>1. IdentityInit => Init /\ EpisodicInit /\ ArtistInit /\ subject \in {"movies", "shows", "artists"}
  BY DEF IdentityInit
<1>2. [IdentityNext]_<<vars, episodicVars, artistVars, subject>> =>
        [Next]_vars /\ [EpisodicNext]_episodicVars /\ [ArtistNext]_artistVars /\ UNCHANGED subject
  BY DEF IdentityNext
<1>3. subject \in {"movies", "shows", "artists"} /\ UNCHANGED subject => (subject \in {"movies", "shows", "artists"})'
  OBVIOUS
<1> QED BY <1>1, <1>2, <1>3, PTL DEF IdentitySpec, Spec, EpisodicSpec, ArtistSpec

\* Every variable of movies (movies/service.go), of shows (episodic/store.go) and of artists
\* (artists/service.go) has its type, in any behaviour of the three.
THEOREM IdentityTypeSafety == IdentitySpec => []IdentityTypeOK
BY IdentityComposition, TypeSafety, EpisodicTypeSafety, ArtistTypeSafety, PTL DEF IdentityTypeOK
=============================================================================
