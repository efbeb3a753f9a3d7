-------------------------- MODULE ImageCache_proofs --------------------------
(***************************************************************************)
(* What the image cache promises, for any number of candidates, requests    *)
(* and shared contents. Two arguments about the sweep that deletes an object *)
(* in three steps (check, delete, deregister) while jobs register, store and *)
(* name it again: the rows it takes an object from were written after its     *)
(* check; and an object stored meanwhile stays known to somebody, because    *)
(* no sweep comes back to a content while a job is storing it.               *)
(***************************************************************************)
EXTENDS ImageCache, TLAPS

Deleting == {"delete", "deregister"}

\* Rows that name an object about to be deleted were written after the check.
ChecksHold ==
    maintenance.pc = "delete" =>
        \A i \in Candidates, asset \in Assets :
            Key(i, asset) \in maintenance.target /\ HasRow(i, asset) => <<i, asset>> \in sinceCheck

\* No row that names an object may be evicted.
InUse(k) == \A i \in Candidates, asset \in Assets :
    Key(i, asset) = k /\ HasRow(i, asset) => candidate[i].state # "cold" \/ i \in accesses

\* What is stored, or about to be, is registered or has lost its registration to a sweep.
KnownImages ==
    \A k \in Keys : k \in objects \/ BeingStored(k) => registry[k] # "none" \/ k \in exposed

\* A content that lost its registration while it is stored is not swept again before the
\* job is done: it is not on the list, and nothing that names it is cold.
SweepsPass ==
    \A k \in Keys : BeingStored(k) /\ registry[k] = "none" => k \notin maintenance.keys /\ InUse(k)

TargetInUse ==
    maintenance.pc \in Deleting => maintenance.target \subseteq maintenance.keys /\ \A k \in maintenance.target : InUse(k)

WorkerRecord ==
    [pc : {"none", "claim", "read", "get", "reset", "register", "put", "finish", "failed", "unsupported"},
     asset : Assets, ensured : BOOLEAN]
MaintenanceRecord ==
    [pc : {"idle", "flush", "cold", "evict", "orphans", "unreferenced"} \cup Deleting, ids : SUBSET Candidates,
     keys : SUBSET Keys, target : SUBSET Keys, last : BOOLEAN]

TInv == ImageTypeOK /\ maintenance \in MaintenanceRecord
Sound == ChecksHold /\ KnownImages /\ SweepsPass /\ TargetInUse
IInv == TInv /\ Sound

-----------------------------------------------------------------------------
(* Types *)

LEMMA RequestTyped ==
    /\ \A r \in Requests : r[1] \in Candidates /\ r[2] \in Assets
    /\ \A s \in Scenarios : s.requests \subseteq Requests /\ s.maxFaults \in Nat /\ s.maxYears \in Nat
    /\ \A i \in Candidates, asset \in Assets : Key(i, asset) \in Keys
<1>1. \A s \in Scenarios : s.requests \subseteq Candidates \X Assets /\ s.maxFaults \in Nat /\ s.maxYears \in Nat
  BY ImageAssumption
<1>2. \A r \in Requests : r \in Candidates \X Assets
  BY <1>1 DEF Requests
<1> QED BY <1>1, <1>2 DEF Requests, Keys

LEMMA WorkTyped ==
    /\ NoWork \in WorkerRecord /\ NoWork.pc = "none"
    /\ \A r \in Requests : /\ First(r) \in WorkerRecord /\ First(r).pc \in {"read", "claim"}
                           /\ AfterOriginal(r) \in WorkerRecord /\ AfterOriginal(r).pc \in {"none", "read", "claim"}
BY RequestTyped DEF NoWork, First, AfterOriginal, WorkerRecord, Assets

\* What a step of a job does to the jobs.
LEMMA StepTyped ==
    ASSUME worker \in [Requests -> WorkerRecord], NEW r \in Requests, NEW from, NEW to \in WorkerRecord,
           WorkerStep(r, from, to)
    PROVE  /\ worker' \in [Requests -> WorkerRecord]
           /\ worker'[r] = to /\ worker[r].pc = from /\ \A q \in Requests \ {r} : worker'[q] = worker[q]
BY DEF WorkerStep

LEMMA AtTyped ==
    ASSUME worker \in [Requests -> WorkerRecord], NEW r \in Requests,
           NEW pc \in {"get", "reset", "register", "put", "finish", "failed", "unsupported"}
    PROVE  /\ At(r, pc) \in WorkerRecord /\ At(r, pc).pc = pc /\ At(r, pc).asset = worker[r].asset
           /\ \A asset \in Assets : /\ Storing(r, asset) \in WorkerRecord /\ Storing(r, asset).pc = "register"
                                    /\ [At(r, pc) EXCEPT !.asset = asset] \in WorkerRecord
                                    /\ [At(r, pc) EXCEPT !.asset = asset].pc = pc
BY DEF At, Storing, WorkerRecord

\* The job of a request moves and stores nothing new.
Moves(r) ==
    /\ worker' \in [Requests -> WorkerRecord]
    /\ \A q \in Requests \ {r} : worker'[q] = worker[q]
    /\ worker'[r].pc \in {"put", "finish"} => worker[r].pc \in {"put", "finish"} /\ worker'[r].asset = worker[r].asset

LEMMA ErrorMoves ==
    ASSUME worker \in [Requests -> WorkerRecord], NEW r \in Requests, NEW from, JobErrors(r, from)
    PROVE  Moves(r)
BY StepTyped, WorkTyped DEF JobErrors, Moves

LEMMA NotReadyMoves ==
    ASSUME worker \in [Requests -> WorkerRecord], NEW r \in Requests, NEW from, NotReady(r, from)
    PROVE  Moves(r)
BY DEF NotReady, Moves, WorkerRecord

CandidateRecord == [state : CandidateStates, stored : BOOLEAN]

LEMMA ForgetTyped ==
    ASSUME ImageTypeOK, NEW i \in Candidates, NEW asset, ForgetObject(i, asset)
    PROVE  /\ candidate' \in [Candidates -> CandidateRecord] /\ variants' \subseteq Candidates
           /\ \A c \in Candidates : /\ candidate'[c] = candidate[c] \/ candidate'[c].state = "pending"
                                    /\ candidate'[c].stored => candidate[c].stored
           /\ variants' \subseteq variants
<1>1. candidate \in [Candidates -> CandidateRecord]
  BY DEF ImageTypeOK, CandidateRecord
<1>2. [state |-> "pending", stored |-> FALSE] \in CandidateRecord
  BY DEF CandidateRecord, CandidateStates
<1>3. CASE asset = "original"
  <2> DEFINE blank == [state |-> "pending", stored |-> FALSE]
  <2>1. blank.state = "pending" /\ blank.stored = FALSE /\ blank \in CandidateRecord
    BY <1>2
  <2>2. candidate' = [candidate EXCEPT ![i] = blank] /\ variants' = variants
    BY <1>3 DEF ForgetObject
  <2> HIDE DEF blank
  <2> QED BY <1>1, <2>1, <2>2 DEF ImageTypeOK
<1>4. CASE asset # "original"
  BY <1>1, <1>4 DEF ForgetObject, ImageTypeOK
<1> QED BY <1>3, <1>4

\* A note in the state of a candidate.
LEMMA NoteTyped ==
    ASSUME ImageTypeOK, NEW i \in Candidates, NEW state \in CandidateStates,
           candidate' = [candidate EXCEPT ![i].state = state]
    PROVE  /\ candidate' \in [Candidates -> CandidateRecord]
           /\ \A c \in Candidates : /\ candidate'[c] = candidate[c] \/ candidate'[c].state = state
                                    /\ candidate'[c].stored = candidate[c].stored
BY DEF ImageTypeOK, CandidateRecord

LEMMA ViewerTInv ==
    ASSUME TInv, NEW r \in Requests, Ask(r) \/ Answer(r) \/ AcceptImage(r)
    PROVE  TInv' /\ (AcceptImage(r) => Moves(r))
<1> USE DEF TInv
<1>1. worker \in [Requests -> WorkerRecord] /\ r[1] \in Candidates
  BY RequestTyped DEF ImageTypeOK, WorkerRecord
<1>2. viewer' \in [Requests -> {"idle", "asking"}] /\ accesses' \subseteq Candidates
  BY <1>1 DEF Ask, Answer, AcceptImage, ImageTypeOK
<1>3. CASE Ask(r) \/ Answer(r)
  BY <1>2, <1>3 DEF Ask, Answer, AcceptImage, ImageTypeOK, rowVars, historyVars, bounds
<1>4. CASE AcceptImage(r)
  <2>1. worker' = worker \/ worker' = [worker EXCEPT ![r] = First(r)]
    BY <1>4 DEF AcceptImage
  <2>2. worker' \in [Requests -> WorkerRecord] /\ Moves(r)
    <3>1. CASE worker' = worker
      BY <1>1, <3>1 DEF Moves
    <3>2. CASE worker' = [worker EXCEPT ![r] = First(r)]
      BY <1>1, <3>2, WorkTyped DEF Moves
    <3> QED BY <2>1, <3>1, <3>2
  <2>3. candidate' \in [Candidates -> CandidateRecord] /\ variants' \subseteq Candidates
    BY <1>1, <1>4, ForgetTyped DEF AcceptImage, rowVars, ImageTypeOK, CandidateRecord
  <2> QED BY <1>2, <1>4, <2>2, <2>3 DEF AcceptImage, ImageTypeOK, historyVars, bounds, WorkerRecord, CandidateRecord
<1> QED BY <1>3, <1>4

\* The steps of a job that neither register nor store anything.
LEMMA WorkTInv ==
    ASSUME TInv, NEW r \in Requests,
           \/ ClaimOriginal(r) \/ ReadVariantRow(r) \/ ReadObject(r) \/ ResetRow(r) \/ NoteFailure(r)
           \/ MarkReady(r) \/ WorkFails(r) \/ WorkerCrash(r)
    PROVE  TInv' /\ Moves(r)
<1> USE DEF TInv
<1>1. worker \in [Requests -> WorkerRecord] /\ r[1] \in Candidates /\ r[2] \in Assets /\ worker[r] \in WorkerRecord
  BY RequestTyped DEF ImageTypeOK, WorkerRecord
<1>2. candidate \in [Candidates -> CandidateRecord]
  BY DEF ImageTypeOK, CandidateRecord
<1>3. CASE ClaimOriginal(r)
  <2>1. candidate' \in [Candidates -> CandidateRecord]
    BY <1>1, <1>2, <1>3, NoteTyped DEF ClaimOriginal, CandidateStates, rowVars
  <2>2. \E from : \E to \in WorkerRecord : WorkerStep(r, from, to) /\ to.pc \notin {"put", "finish"}
    <3>1. \E from : \E to \in {Storing(r, "original"), At(r, "unsupported"), [At(r, "get") EXCEPT !.asset = "original"],
                           NoWork, First(r)} : WorkerStep(r, from, to)
      BY <1>3 DEF ClaimOriginal
    <3>2. PICK from, to : /\ WorkerStep(r, from, to)
                          /\ to \in {Storing(r, "original"), At(r, "unsupported"),
                                     [At(r, "get") EXCEPT !.asset = "original"], NoWork, First(r)}
      BY <3>1
    <3>3. "original" \in Assets
      BY DEF Assets
    <3>4. to \in WorkerRecord /\ to.pc \notin {"put", "finish"}
      <4>1. /\ Storing(r, "original") \in WorkerRecord /\ Storing(r, "original").pc = "register"
            /\ [At(r, "get") EXCEPT !.asset = "original"] \in WorkerRecord
            /\ [At(r, "get") EXCEPT !.asset = "original"].pc = "get"
        BY <1>1, <3>3, AtTyped
      <4>2. CASE to = At(r, "unsupported")
        BY <1>1, <4>2, AtTyped
      <4>3. CASE to = NoWork \/ to = First(r)
        BY <4>3, WorkTyped
      <4> QED BY <3>2, <4>1, <4>2, <4>3
    <3> QED BY <3>2, <3>4
  <2>3. Moves(r)
    <3>1. PICK from, to : to \in WorkerRecord /\ WorkerStep(r, from, to) /\ to.pc \notin {"put", "finish"}
      BY <2>2
    <3> QED BY <1>1, <3>1, StepTyped DEF Moves
  <2> QED BY <1>3, <2>1, <2>3
          DEF ClaimOriginal, Moves, ImageTypeOK, rowVars, historyVars, bounds, WorkerRecord, CandidateRecord
<1>4. CASE ReadVariantRow(r)
  <2>1. Moves(r)
    <3>1. CASE NotReady(r, "read")
      BY <1>1, <3>1, NotReadyMoves
    <3>2. CASE \E to \in {At(r, "get"), NoWork} : WorkerStep(r, "read", to)
      <4>1. PICK to \in WorkerRecord : WorkerStep(r, "read", to) /\ to.pc \notin {"put", "finish"}
        BY <1>1, <3>2, WorkTyped, AtTyped
      <4> QED BY <1>1, <4>1, StepTyped DEF Moves
    <3> QED BY <1>4, <3>1, <3>2 DEF ReadVariantRow
  <2> QED BY <1>4, <2>1 DEF ReadVariantRow, Moves, ImageTypeOK, rowVars, historyVars, bounds, WorkerRecord
<1>5. CASE ReadObject(r)
  <2>1. PICK to \in {AfterOriginal(r), NoWork, At(r, "reset")} : WorkerStep(r, "get", to)
    BY <1>5 DEF ReadObject
  <2>2. to \in WorkerRecord /\ to.pc \notin {"put", "finish"}
    BY <1>1, WorkTyped, AtTyped
  <2>3. Moves(r)
    BY <1>1, <2>1, <2>2, StepTyped DEF Moves
  <2>4. accesses' \subseteq Candidates
    BY <1>1, <1>5 DEF ReadObject, ImageTypeOK
  <2> QED BY <1>5, <2>3, <2>4 DEF ReadObject, Moves, ImageTypeOK, rowVars, historyVars, bounds, WorkerRecord
<1>6. CASE ResetRow(r)
  <2>1. Moves(r)
    BY <1>1, <1>6, ErrorMoves, NotReadyMoves DEF ResetRow
  <2>2. candidate' \in [Candidates -> CandidateRecord] /\ variants' \subseteq Candidates
    BY <1>1, <1>6, ForgetTyped DEF ResetRow
  <2> QED BY <1>6, <2>1, <2>2 DEF ResetRow, Moves, ImageTypeOK, historyVars, bounds, WorkerRecord, CandidateRecord
<1>7. CASE NoteFailure(r)
  <2>1. worker[r].pc \in {"failed", "unsupported"}
    BY <1>7 DEF NoteFailure, JobErrors, WorkerStep
  <2>2. candidate' \in [Candidates -> CandidateRecord]
    BY <1>1, <1>7, <2>1, NoteTyped DEF NoteFailure, CandidateStates
  <2>3. Moves(r)
    <3>1. CASE WorkerStep(r, "unsupported", NoWork)
      BY <1>1, <3>1, StepTyped, WorkTyped DEF Moves
    <3> QED BY <1>1, <1>7, <3>1, ErrorMoves DEF NoteFailure
  <2> QED BY <1>7, <2>2, <2>3 DEF NoteFailure, Moves, ImageTypeOK, historyVars, bounds, WorkerRecord, CandidateRecord
<1>8. CASE MarkReady(r)
  <2>1. PICK to \in {AfterOriginal(r), NoWork} : WorkerStep(r, "finish", to)
    BY <1>8 DEF MarkReady
  <2>2. Moves(r)
    BY <1>1, <2>1, StepTyped, WorkTyped DEF Moves
  <2>3. [state |-> "ready", stored |-> TRUE] \in CandidateRecord /\ worker[r].asset \in Assets
    BY <1>1 DEF CandidateRecord, CandidateStates, WorkerRecord
  <2>4. candidate' \in [Candidates -> CandidateRecord]
    BY <1>1, <1>2, <1>8, <2>3 DEF MarkReady
  <2>5. variants' \subseteq Candidates /\ accesses' \subseteq Candidates /\ sinceCheck' \subseteq Candidates \X Assets
    BY <1>1, <1>8, <2>3 DEF MarkReady, ImageTypeOK
  <2> QED BY <1>8, <2>2, <2>4, <2>5 DEF MarkReady, Moves, ImageTypeOK, bounds, WorkerRecord, CandidateRecord
<1>9. CASE WorkFails(r) \/ WorkerCrash(r)
  <2>1. Moves(r)
    <3>1. CASE \E from : JobErrors(r, from)
      BY <1>1, <3>1, ErrorMoves
    <3>2. CASE \E from : WorkerStep(r, from, At(r, "failed"))
      BY <1>1, <3>2, AtTyped, StepTyped DEF Moves
    <3>3. CASE worker' = [worker EXCEPT ![r] = First(r)]
      BY <1>1, <3>3, WorkTyped DEF Moves
    <3> QED BY <1>9, <3>1, <3>2, <3>3 DEF WorkFails, WorkerCrash
  <2>2. imageFaults' \in 0..scenario.maxFaults
    BY <1>9, RequestTyped DEF WorkFails, WorkerCrash, Fault, ImageTypeOK
  <2> QED BY <1>9, <2>1, <2>2 DEF WorkFails, WorkerCrash, Moves, ImageTypeOK, rowVars, WorkerRecord
<1> QED BY <1>3, <1>4, <1>5, <1>6, <1>7, <1>8, <1>9

LEMMA StoreTInv ==
    ASSUME TInv, NEW r \in Requests, RegisterObject(r) \/ PutImmutable(r)
    PROVE  TInv'
<1> USE DEF TInv
<1>1. worker \in [Requests -> WorkerRecord] /\ Key(r[1], worker[r].asset) \in Keys
  BY RequestTyped DEF ImageTypeOK, WorkerRecord
<1>2. worker' \in [Requests -> WorkerRecord]
  BY <1>1, StepTyped, AtTyped DEF RegisterObject, PutImmutable
<1>3. registry' \in [Keys -> {"none", "young", "old"}] /\ objects' \subseteq Keys
  BY <1>1 DEF RegisterObject, PutImmutable, ImageTypeOK
<1> QED BY <1>2, <1>3 DEF RegisterObject, PutImmutable, ImageTypeOK, rowVars, historyVars, bounds, WorkerRecord

LEMMA DoneTyped ==
    ASSUME maintenance \in MaintenanceRecord, NEW keys \in SUBSET Keys
    PROVE  /\ Done(keys) \in MaintenanceRecord /\ Done(keys).pc \notin Deleting /\ Done(keys).keys \subseteq keys
           /\ [Done(keys) EXCEPT !.target = {}] \in MaintenanceRecord
           /\ [Done(keys) EXCEPT !.target = {}].pc \notin Deleting
           /\ [Done(keys) EXCEPT !.target = {}].keys \subseteq keys
<1>1. /\ Done(keys) \in MaintenanceRecord
      /\ Done(keys).pc \in {"idle", "unreferenced", "orphans", "evict"} /\ Done(keys).keys \subseteq keys
  BY DEF Done, NoMaintenance, MaintenanceRecord
<1>2. Done(keys).pc \notin Deleting
  BY <1>1 DEF Deleting
<1> QED BY <1>1, <1>2 DEF MaintenanceRecord

\* The maintenance job goes on without a deletion in progress, with what is left of its list.
Proceeds ==
    /\ maintenance' \in MaintenanceRecord /\ maintenance'.pc \notin Deleting
    /\ maintenance'.keys \subseteq maintenance.keys

LEMMA MaintainTInv ==
    ASSUME TInv, RecoverStalled \/ FlushAccesses \/ SelectCold \/ MaintenanceEnds
    PROVE  TInv' /\ Proceeds
<1> USE DEF TInv
<1>1. candidate \in [Candidates -> CandidateRecord] /\ Cold \subseteq Candidates
  BY DEF ImageTypeOK, CandidateRecord, Cold
<1>2. \A i \in Candidates, state \in CandidateStates : [candidate[i] EXCEPT !.state = state] \in CandidateRecord
  BY <1>1 DEF CandidateRecord
<1>3. candidate' \in [Candidates -> CandidateRecord]
  <2>1. CASE RecoverStalled
    <3>1. "failed" \in CandidateStates
      BY DEF CandidateStates
    <3> QED BY <1>1, <1>2, <2>1, <3>1 DEF RecoverStalled
  <2>2. CASE FlushAccesses
    <3>1. "ready" \in CandidateStates
      BY DEF CandidateStates
    <3> QED BY <1>1, <1>2, <2>2, <3>1 DEF FlushAccesses
  <2> QED BY <1>1, <2>1, <2>2 DEF SelectCold, MaintenanceEnds, rowVars
<1>4. Proceeds
  <2>1. NoMaintenance \in MaintenanceRecord /\ NoMaintenance.pc = "idle" /\ NoMaintenance.keys = {}
    BY DEF NoMaintenance, MaintenanceRecord
  <2>2. \A pc \in {"flush", "cold"} : /\ Then(pc) \in MaintenanceRecord /\ Then(pc).pc = pc
                                      /\ Then(pc).keys = maintenance.keys
    BY DEF Then, MaintenanceRecord
  <2>3. \A pc \in {"orphans", "evict"} : /\ [Then(pc) EXCEPT !.ids = Cold] \in MaintenanceRecord
                                         /\ [Then(pc) EXCEPT !.ids = Cold].pc = pc
                                         /\ [Then(pc) EXCEPT !.ids = Cold].keys = maintenance.keys
    BY <1>1 DEF Then, MaintenanceRecord
  <2>4. CASE RecoverStalled \/ FlushAccesses
    BY <2>2, <2>4 DEF RecoverStalled, FlushAccesses, MaintenanceStep, Proceeds, Deleting
  <2>5. CASE SelectCold
    <3>1. PICK pc \in {"orphans", "evict"} : maintenance' = [Then(pc) EXCEPT !.ids = Cold]
      BY <2>5 DEF SelectCold, MaintenanceStep
    <3> QED BY <2>3, <3>1 DEF Proceeds, Deleting
  <2>6. CASE MaintenanceEnds
    BY <2>1, <2>6 DEF MaintenanceEnds, Proceeds, Deleting
  <2> QED BY <2>4, <2>5, <2>6
<1>5. imageFaults' \in 0..scenario'.maxFaults
  BY RequestTyped DEF RecoverStalled, FlushAccesses, SelectCold, MaintenanceEnds, Fault, ImageTypeOK, historyVars, bounds
<1> QED BY <1>3, <1>4, <1>5
        DEF RecoverStalled, FlushAccesses, SelectCold, MaintenanceEnds, ImageTypeOK, CandidateRecord, Proceeds,
            rowVars, historyVars, bounds

\* What the choice of the next image, or of the orphans, leaves to be deleted.
LEMMA EvictEffect ==
    ASSUME TInv, EvictCandidate
    PROVE  /\ maintenance' \in MaintenanceRecord /\ maintenance'.pc \notin Deleting
           /\ \/ maintenance'.keys = maintenance.keys /\ candidate' = candidate /\ variants' = variants
              \/ \E i \in Candidates :
                    /\ candidate[i].state = "cold" /\ i \notin accesses /\ maintenance'.keys = KeysOf(i)
                    /\ candidate' = [candidate EXCEPT ![i] = [state |-> "pending", stored |-> FALSE]]
                    /\ variants' = variants \ {i}
<1> USE DEF TInv
<1>1. PICK i \in maintenance.ids :
        LET rest == [maintenance EXCEPT !.ids = @ \ {i}]
        IN IF candidate[i].state = "cold" /\ i \notin accesses
           THEN /\ MaintenanceStep("evict", [rest EXCEPT !.pc = "unreferenced", !.keys = KeysOf(i)])
                /\ candidate' = [candidate EXCEPT ![i] = [state |-> "pending", stored |-> FALSE]]
                /\ variants' = variants \ {i}
           ELSE /\ MaintenanceStep("evict", [rest EXCEPT !.pc = IF rest.ids = {} THEN "orphans" ELSE "evict"])
                /\ UNCHANGED rowVars
  BY DEF EvictCandidate
<1>2. i \in Candidates
  BY DEF MaintenanceRecord
<1>3. KeysOf(i) \subseteq Keys
  BY <1>2, RequestTyped DEF KeysOf
<1> DEFINE rest == [maintenance EXCEPT !.ids = maintenance.ids \ {i}]
<1>4. rest \in MaintenanceRecord /\ rest.keys = maintenance.keys
  BY DEF MaintenanceRecord
<1>5. CASE candidate[i].state = "cold" /\ i \notin accesses
  <2> DEFINE next == [rest EXCEPT !.pc = "unreferenced", !.keys = KeysOf(i)]
  <2>1. /\ maintenance' = next /\ candidate' = [candidate EXCEPT ![i] = [state |-> "pending", stored |-> FALSE]]
        /\ variants' = variants \ {i}
    BY <1>1, <1>5 DEF MaintenanceStep
  <2> HIDE DEF rest
  <2>2. next \in MaintenanceRecord /\ next.pc = "unreferenced" /\ next.keys = KeysOf(i)
    BY <1>3, <1>4 DEF MaintenanceRecord
  <2> HIDE DEF next
  <2> QED BY <1>2, <1>5, <2>1, <2>2 DEF Deleting
<1>6. CASE ~(candidate[i].state = "cold" /\ i \notin accesses)
  <2>1. PICK pc \in {"orphans", "evict"} : maintenance' = [rest EXCEPT !.pc = pc] /\ UNCHANGED rowVars
    BY <1>1, <1>6 DEF MaintenanceStep
  <2> HIDE DEF rest
  <2>2. [rest EXCEPT !.pc = pc] \in MaintenanceRecord /\ [rest EXCEPT !.pc = pc].pc = pc
        /\ [rest EXCEPT !.pc = pc].keys = maintenance.keys
    BY <1>4 DEF MaintenanceRecord
  <2> QED BY <2>1, <2>2 DEF Deleting, rowVars
<1> QED BY <1>5, <1>6

LEMMA OrphansEffect ==
    ASSUME TInv, SelectOrphans
    PROVE  /\ maintenance' \in MaintenanceRecord /\ maintenance'.pc \notin Deleting
           /\ maintenance'.keys \subseteq {k \in Keys : registry[k] = "old"}
<1> USE DEF TInv
<1> DEFINE orphans == {k \in Keys : registry[k] = "old" /\ ~Named(k)}
           next == [Then("unreferenced") EXCEPT !.keys = orphans, !.last = TRUE]
<1>1. maintenance' = NoMaintenance \/ maintenance' = next
  BY DEF SelectOrphans, MaintenanceStep
<1>2. NoMaintenance \in MaintenanceRecord /\ NoMaintenance.pc = "idle" /\ NoMaintenance.keys = {}
  BY DEF NoMaintenance, MaintenanceRecord
<1>3. orphans \subseteq Keys /\ orphans \subseteq {k \in Keys : registry[k] = "old"}
  OBVIOUS
<1> HIDE DEF orphans
<1>4. next \in MaintenanceRecord /\ next.pc = "unreferenced" /\ next.keys = orphans
  BY <1>3 DEF Then, MaintenanceRecord
<1> HIDE DEF next
<1> QED BY <1>1, <1>2, <1>3, <1>4 DEF Deleting

LEMMA CheckEffect ==
    ASSUME TInv, CheckReferenced
    PROVE  /\ maintenance' \in MaintenanceRecord /\ maintenance'.keys \subseteq maintenance.keys
           /\ \/ maintenance'.pc \notin Deleting
              \/ /\ maintenance'.pc = "delete" /\ maintenance'.keys = maintenance.keys
                 /\ \E k \in maintenance.keys : ~Named(k) /\ maintenance'.target = {k}
<1> USE DEF TInv
<1>1. PICK k \in maintenance.keys :
        maintenance' = IF Named(k) THEN Done(maintenance.keys \ {k}) ELSE [Then("delete") EXCEPT !.target = {k}]
  BY DEF CheckReferenced, MaintenanceStep
<1>2. maintenance.keys \subseteq Keys
  BY DEF MaintenanceRecord
<1>3. CASE Named(k)
  <2>1. maintenance.keys \ {k} \subseteq Keys
    BY <1>2
  <2> QED BY <1>1, <1>3, <2>1, DoneTyped
<1>4. CASE ~Named(k)
  <2> DEFINE next == [Then("delete") EXCEPT !.target = {k}]
  <2>1. next \in MaintenanceRecord /\ next.pc = "delete" /\ next.keys = maintenance.keys /\ next.target = {k}
    BY <1>2 DEF Then, MaintenanceRecord, Deleting
  <2>2. maintenance' = next
    BY <1>1, <1>4
  <2> HIDE DEF next
  <2> QED BY <1>4, <2>1, <2>2
<1> QED BY <1>3, <1>4

LEMMA DeleteEffect ==
    ASSUME TInv, DeleteObject
    PROVE  /\ maintenance' \in MaintenanceRecord /\ maintenance.pc = "delete" /\ maintenance'.pc = "deregister"
           /\ maintenance'.keys = maintenance.keys /\ maintenance'.target = maintenance.target
BY DEF TInv, DeleteObject, MaintenanceStep, Then, MaintenanceRecord, Deleting

LEMMA DeregisterEffect ==
    ASSUME TInv, Deregister
    PROVE  /\ maintenance' \in MaintenanceRecord /\ maintenance.pc = "deregister" /\ maintenance'.pc \notin Deleting
           /\ maintenance'.keys \subseteq maintenance.keys \ maintenance.target
<1>1. maintenance.keys \ maintenance.target \subseteq Keys
  BY DEF TInv, MaintenanceRecord
<1> QED BY <1>1, DoneTyped DEF TInv, Deregister, MaintenanceStep

LEMMA SweepTInv ==
    ASSUME TInv, EvictCandidate \/ SelectOrphans \/ CheckReferenced \/ DeleteObject \/ Deregister
    PROVE  TInv'
<1> USE DEF TInv
<1>1. maintenance' \in MaintenanceRecord
  BY EvictEffect, OrphansEffect, CheckEffect, DeleteEffect, DeregisterEffect
<1>2. candidate \in [Candidates -> CandidateRecord]
  BY DEF ImageTypeOK, CandidateRecord
<1>3. candidate' \in [Candidates -> CandidateRecord] /\ variants' \subseteq Candidates
  <2> DEFINE blank == [state |-> "pending", stored |-> FALSE]
  <2>1. blank \in CandidateRecord
    BY DEF CandidateRecord, CandidateStates
  <2>2. \/ candidate' = candidate /\ variants' = variants
        \/ \E i \in Candidates : candidate' = [candidate EXCEPT ![i] = blank] /\ variants' = variants \ {i}
    BY EvictEffect DEF SelectOrphans, CheckReferenced, DeleteObject, Deregister, rowVars
  <2> HIDE DEF blank
  <2> QED BY <1>2, <2>1, <2>2 DEF ImageTypeOK
<1>4. /\ registry' \in [Keys -> {"none", "young", "old"}] /\ objects' \subseteq Keys /\ exposed' \subseteq Keys
      /\ sinceCheck' \subseteq Candidates \X Assets
  <2>1. maintenance.target \subseteq Keys
    BY DEF MaintenanceRecord
  <2> QED BY <2>1 DEF EvictCandidate, SelectOrphans, CheckReferenced, DeleteObject, Deregister, ImageTypeOK, historyVars
<1> QED BY <1>1, <1>3, <1>4
        DEF EvictCandidate, SelectOrphans, CheckReferenced, DeleteObject, Deregister, ImageTypeOK, historyVars, bounds,
            CandidateRecord

LEMMA TimeTInv ==
    ASSUME TInv, HalfYear \/ \E i \in Candidates : HalfHour(i)
    PROVE  TInv'
<1> USE DEF TInv
<1>1. candidate \in [Candidates -> CandidateRecord]
  BY DEF ImageTypeOK, CandidateRecord
<1>2. CASE HalfYear
  <2>1. \A i \in Candidates : [candidate[i] EXCEPT !.state = "cold"] \in CandidateRecord
    BY <1>1 DEF CandidateRecord, CandidateStates
  <2>2. candidate' \in [Candidates -> CandidateRecord]
    BY <1>1, <1>2, <2>1 DEF HalfYear
  <2>3. registry' \in [Keys -> {"none", "young", "old"}]
    BY <1>2 DEF HalfYear, ImageTypeOK
  <2>4. years' \in 0..scenario.maxYears
    BY <1>2, RequestTyped DEF HalfYear, ImageTypeOK
  <2> QED BY <1>2, <2>2, <2>3, <2>4 DEF HalfYear, ImageTypeOK, CandidateRecord
<1>3. ASSUME NEW i \in Candidates, HalfHour(i) PROVE TInv'
  <2>1. candidate' \in [Candidates -> CandidateRecord]
    BY <1>3, NoteTyped DEF HalfHour, CandidateStates
  <2> QED BY <1>3, <2>1 DEF HalfHour, ImageTypeOK, CandidateRecord, historyVars, bounds
<1> QED BY <1>2, <1>3

LEMMA InitTInv == ImageInit => TInv
<1> SUFFICES ASSUME ImageInit PROVE TInv
  OBVIOUS
<1>1. worker \in [Requests -> WorkerRecord] /\ maintenance \in MaintenanceRecord
  BY WorkTyped DEF ImageInit, NoMaintenance, MaintenanceRecord
<1>2. candidate \in [Candidates -> CandidateRecord]
  BY DEF ImageInit, CandidateRecord, CandidateStates
<1>3. imageFaults \in 0..scenario.maxFaults /\ years \in 0..scenario.maxYears
  BY RequestTyped DEF ImageInit
<1> QED BY <1>1, <1>2, <1>3 DEF ImageInit, TInv, ImageTypeOK, WorkerRecord, CandidateRecord

LEMMA InductiveTInv == TInv /\ [ImageNext]_imageVars => TInv'
<1> SUFFICES ASSUME TInv, [ImageNext]_imageVars PROVE TInv'
  OBVIOUS
<1>1. CASE UNCHANGED imageVars
  BY <1>1 DEF imageVars, TInv, ImageTypeOK
<1> QED BY <1>1, ViewerTInv, WorkTInv, StoreTInv, MaintainTInv, SweepTInv, TimeTInv
        DEF ImageNext, JobWork, Maintain, ImageFault

\* Every variable has its type, for any number of images, requests and faults.
THEOREM ImageTypeSafety == ImageSpec => []ImageTypeOK
<1>1. TInv => ImageTypeOK
  BY DEF TInv
<1> QED BY <1>1, InitTInv, InductiveTInv, PTL DEF ImageSpec

-----------------------------------------------------------------------------
(* What is stored stays known *)

\* No row becomes evictable: one that is cold and not read was so before.
NoneCools ==
    \A i \in Candidates : candidate'[i].state = "cold" /\ i \notin accesses' =>
        /\ candidate[i].state = "cold" /\ i \notin accesses
        /\ \A asset \in Assets : HasRow(i, asset)' => HasRow(i, asset)

\* Rows that are written are remembered while an object is being deleted.
RowsRemembered ==
    maintenance.pc = "delete" =>
        /\ sinceCheck \subseteq sinceCheck'
        /\ \A i \in Candidates, asset \in Assets : HasRow(i, asset)' => HasRow(i, asset) \/ <<i, asset>> \in sinceCheck'

LEMMA UseStays == ASSUME NoneCools, NEW k, InUse(k) PROVE InUse(k)'
<1>1. ASSUME NEW i \in Candidates, NEW asset \in Assets, Key(i, asset) = k, HasRow(i, asset)'
      PROVE  candidate'[i].state # "cold" \/ i \in accesses'
  BY <1>1 DEF NoneCools, InUse
<1> QED BY <1>1 DEF InUse, Key

LEMMA MovesStore ==
    ASSUME NEW r \in Requests, Moves(r), NEW k, BeingStored(k)'
    PROVE  BeingStored(k)
<1>1. PICK q \in Requests : worker'[q].pc \in {"put", "finish"} /\ k = Key(q[1], worker'[q].asset)
  BY DEF BeingStored, Key
<1>2. worker[q].pc \in {"put", "finish"} /\ worker[q].asset = worker'[q].asset
  BY <1>1 DEF Moves
<1> QED BY <1>1, <1>2 DEF BeingStored, Key

\* A step of anybody but the sweep.
LEMMA JobSound ==
    ASSUME IInv, maintenance' = maintenance, NoneCools, RowsRemembered, exposed' = exposed,
           \A k \in Keys : registry[k] # "none" => registry'[k] # "none",
           \A k \in Keys : BeingStored(k)' => BeingStored(k) \/ registry'[k] # "none",
           \A k \in objects' : k \in objects \/ BeingStored(k)
    PROVE  Sound'
<1> USE DEF IInv, Sound
<1>1. ChecksHold'
  <2>1. ASSUME maintenance.pc = "delete", NEW i \in Candidates, NEW asset \in Assets,
               Key(i, asset) \in maintenance.target, HasRow(i, asset)'
        PROVE  <<i, asset>> \in sinceCheck'
    BY <2>1 DEF RowsRemembered, ChecksHold
  <2> QED BY <2>1 DEF ChecksHold, Key
<1>2. KnownImages'
  BY DEF KnownImages
<1>3. SweepsPass'
  <2>1. ASSUME NEW k \in Keys, BeingStored(k)', registry'[k] = "none"
        PROVE  k \notin maintenance.keys /\ InUse(k)'
    BY <2>1, UseStays DEF SweepsPass
  <2> QED BY <2>1 DEF SweepsPass, Keys, Key
<1>4. TargetInUse'
  BY UseStays DEF TargetInUse
<1> QED BY <1>1, <1>2, <1>3, <1>4

\* What a job or a caller does to the rows.
LEMMA RowsStep ==
    ASSUME TInv, NEW r \in Requests,
           \/ Ask(r) \/ Answer(r) \/ AcceptImage(r) \/ ClaimOriginal(r) \/ ReadVariantRow(r) \/ ReadObject(r)
           \/ ResetRow(r) \/ NoteFailure(r) \/ RegisterObject(r) \/ PutImmutable(r) \/ WorkFails(r) \/ WorkerCrash(r)
    PROVE  /\ \A i \in Candidates : /\ candidate'[i].stored => candidate[i].stored
                                    /\ candidate'[i] = candidate[i] \/ candidate'[i].state # "cold"
           /\ variants' \subseteq variants /\ accesses \subseteq accesses' /\ sinceCheck' = sinceCheck
           /\ maintenance' = maintenance /\ exposed' = exposed
<1> USE DEF TInv
<1>1. r[1] \in Candidates
  BY RequestTyped
<1>2. CASE AcceptImage(r) \/ ResetRow(r)
  <2>1. UNCHANGED rowVars \/ \E asset : ForgetObject(r[1], asset)
    BY <1>2 DEF AcceptImage, ResetRow
  <2>2. CASE UNCHANGED rowVars
    BY <1>2, <2>2 DEF rowVars, AcceptImage, ResetRow, historyVars, bounds
  <2>3. CASE \E asset : ForgetObject(r[1], asset)
    BY <1>1, <1>2, <2>3, ForgetTyped DEF AcceptImage, ResetRow, historyVars, bounds
  <2> QED BY <2>1, <2>2, <2>3
<1>3. CASE ClaimOriginal(r) \/ NoteFailure(r)
  <2>1. \/ UNCHANGED rowVars
        \/ \E state \in {"working", "failed", "unsupported"} :
              candidate' = [candidate EXCEPT ![r[1]].state = state] /\ variants' = variants
    BY <1>3 DEF ClaimOriginal, NoteFailure, JobErrors, WorkerStep
  <2>2. CASE UNCHANGED rowVars
    BY <1>3, <2>2 DEF rowVars, ClaimOriginal, NoteFailure, historyVars, bounds
  <2>3. ASSUME NEW state \in {"working", "failed", "unsupported"},
               candidate' = [candidate EXCEPT ![r[1]].state = state], variants' = variants
        PROVE  \A i \in Candidates : /\ candidate'[i].stored => candidate[i].stored
                                     /\ candidate'[i] = candidate[i] \/ candidate'[i].state # "cold"
    BY <1>1, <2>3, NoteTyped DEF CandidateStates
  <2> QED BY <1>3, <2>1, <2>2, <2>3 DEF ClaimOriginal, NoteFailure, historyVars, bounds
<1>4. CASE \/ Ask(r) \/ Answer(r) \/ ReadVariantRow(r) \/ ReadObject(r) \/ RegisterObject(r) \/ PutImmutable(r)
           \/ WorkFails(r) \/ WorkerCrash(r)
  BY <1>4 DEF Ask, Answer, ReadVariantRow, ReadObject, RegisterObject, PutImmutable, WorkFails, WorkerCrash,
              rowVars, historyVars, bounds
<1> QED BY <1>2, <1>3, <1>4

LEMMA JobStepSound ==
    ASSUME IInv, NEW r \in Requests,
           Ask(r) \/ Answer(r) \/ AcceptImage(r) \/ JobWork(r) \/ WorkFails(r) \/ WorkerCrash(r)
    PROVE  Sound'
<1> USE DEF IInv
<1>1. CASE ~MarkReady(r)
  <2>1. \/ Ask(r) \/ Answer(r) \/ AcceptImage(r) \/ ClaimOriginal(r) \/ ReadVariantRow(r) \/ ReadObject(r)
        \/ ResetRow(r) \/ NoteFailure(r) \/ RegisterObject(r) \/ PutImmutable(r) \/ WorkFails(r) \/ WorkerCrash(r)
    BY <1>1 DEF JobWork
  <2>2. /\ \A i \in Candidates : /\ candidate'[i].stored => candidate[i].stored
                                 /\ candidate'[i] = candidate[i] \/ candidate'[i].state # "cold"
        /\ variants' \subseteq variants /\ accesses \subseteq accesses' /\ sinceCheck' = sinceCheck
        /\ maintenance' = maintenance /\ exposed' = exposed
    BY <2>1, RowsStep
  <2>3. NoneCools /\ RowsRemembered
    BY <2>2 DEF NoneCools, RowsRemembered, HasRow
  <2>4. CASE RegisterObject(r)
    <3> DEFINE k == Key(r[1], worker[r].asset)
    <3>1. k \in Keys /\ worker \in [Requests -> WorkerRecord]
      BY RequestTyped DEF TInv, ImageTypeOK, WorkerRecord
    <3>2. WorkerStep(r, "register", At(r, "put")) /\ objects' = objects
      BY <2>4 DEF RegisterObject
    <3>3. /\ worker'[r].pc = "put" /\ worker'[r].asset = worker[r].asset
          /\ \A q \in Requests \ {r} : worker'[q] = worker[q]
      BY <3>1, <3>2, StepTyped, AtTyped
    <3>4. registry'[k] # "none" /\ \A l \in Keys : registry[l] # "none" => registry'[l] # "none"
      BY <2>4, <3>1 DEF RegisterObject, TInv, ImageTypeOK
    <3>5. \A l \in Keys : BeingStored(l)' => BeingStored(l) \/ registry'[l] # "none"
      <4> SUFFICES ASSUME NEW l \in Keys, BeingStored(l)', ~BeingStored(l) PROVE registry'[l] # "none"
        OBVIOUS
      <4>1. PICK q \in Requests : worker'[q].pc \in {"put", "finish"} /\ l = Key(q[1], worker'[q].asset)
        BY DEF BeingStored, Key
      <4>2. q = r
        BY <3>3, <4>1 DEF BeingStored, Key
      <4> QED BY <3>3, <3>4, <4>1, <4>2
    <3> QED BY <2>2, <2>3, <3>2, <3>4, <3>5, JobSound
  <2>5. CASE PutImmutable(r)
    <3>1. worker \in [Requests -> WorkerRecord]
      BY DEF TInv, ImageTypeOK, WorkerRecord
    <3>2. WorkerStep(r, "put", At(r, "finish")) /\ registry' = registry
      BY <2>5 DEF PutImmutable
    <3>3. worker[r].pc = "put" /\ Moves(r)
      BY <3>1, <3>2, StepTyped, AtTyped DEF Moves
    <3>4. \A k \in objects' : k \in objects \/ BeingStored(k)
      BY <2>5, <3>3 DEF PutImmutable, BeingStored
    <3> QED BY <2>2, <2>3, <3>2, <3>3, <3>4, MovesStore, JobSound
  <2>6. CASE ~RegisterObject(r) /\ ~PutImmutable(r)
    <3>1. objects' = objects /\ registry' = registry
      BY <2>1, <2>6 DEF Ask, Answer, AcceptImage, ClaimOriginal, ReadVariantRow, ReadObject, ResetRow, NoteFailure,
                        WorkFails, WorkerCrash
    <3>2. worker' = worker \/ Moves(r)
      BY <2>1, <2>6, ViewerTInv, WorkTInv DEF Ask, Answer
    <3>3. \A k \in Keys : BeingStored(k)' => BeingStored(k)
      BY <3>2, MovesStore DEF BeingStored, Key
    <3> QED BY <2>2, <2>3, <3>1, <3>3, JobSound
  <2> QED BY <2>4, <2>5, <2>6
<1>2. CASE MarkReady(r)
  <2> DEFINE i == r[1]
             asset == worker[r].asset
  <2>1. i \in Candidates /\ asset \in Assets /\ Moves(r)
    BY <1>2, RequestTyped, WorkTInv DEF TInv, ImageTypeOK
  <2>2. UNCHANGED <<registry, objects, maintenance, exposed>>
    BY <1>2 DEF MarkReady
  <2>3. \A k \in Keys : BeingStored(k)' => BeingStored(k)
    BY <2>1, MovesStore
  <2>4. /\ \A c \in Candidates \ {i} : candidate'[c] = candidate[c] /\ (c \in variants' => c \in variants)
        /\ \/ asset = "original" /\ candidate'[i] = [state |-> "ready", stored |-> TRUE] /\ variants' = variants
           \/ asset # "original" /\ candidate'[i] = candidate[i] /\ i \in accesses'
        /\ accesses \subseteq accesses'
    BY <1>2, <2>1 DEF MarkReady, TInv, ImageTypeOK
  <2>5. NoneCools
    BY <2>4 DEF NoneCools, HasRow
  <2>6. RowsRemembered
    <3> SUFFICES ASSUME maintenance.pc = "delete",
                        NEW c \in Candidates, NEW a \in Assets, HasRow(c, a)', ~HasRow(c, a)
                 PROVE  sinceCheck \subseteq sinceCheck' /\ <<c, a>> \in sinceCheck'
      BY <1>2 DEF RowsRemembered, MarkReady
    <3>1. c = i
      BY <2>4 DEF HasRow
    <3>2. a = asset
      BY <2>1, <2>4, <3>1 DEF HasRow, Assets
    <3> QED BY <1>2, <3>1, <3>2 DEF MarkReady
  <2> QED BY <2>2, <2>3, <2>5, <2>6, JobSound
<1> QED BY <1>1, <1>2

\* A step of the maintenance job that touches no object and ends no deletion's checks.
LEMMA ListSound ==
    ASSUME IInv, maintenance'.pc \notin Deleting, UNCHANGED <<worker, objects, registry, exposed>>, NoneCools,
           \A k \in maintenance'.keys : k \in maintenance.keys \/ registry[k] # "none" \/ ~BeingStored(k)
    PROVE  Sound'
<1> USE DEF IInv, Sound
<1>1. ChecksHold' /\ TargetInUse'
  BY DEF ChecksHold, TargetInUse, Deleting
<1>2. \A k \in Keys : BeingStored(k)' = BeingStored(k)
  BY DEF BeingStored, Key
<1>3. KnownImages'
  BY <1>2 DEF KnownImages
<1>4. SweepsPass'
  <2>1. ASSUME NEW k \in Keys, BeingStored(k)', registry'[k] = "none"
        PROVE  k \notin maintenance'.keys /\ InUse(k)'
    BY <1>2, <2>1, UseStays DEF SweepsPass
  <2> QED BY <2>1 DEF SweepsPass, Keys, Key
<1> QED BY <1>1, <1>3, <1>4

LEMMA MaintainSound ==
    ASSUME IInv, RecoverStalled \/ FlushAccesses \/ SelectCold \/ MaintenanceEnds
    PROVE  Sound'
<1> USE DEF IInv
<1>1. maintenance'.pc \notin Deleting /\ maintenance'.keys \subseteq maintenance.keys
  BY MaintainTInv DEF Proceeds
<1>2. UNCHANGED <<worker, objects, registry, exposed, variants>>
  BY DEF RecoverStalled, FlushAccesses, SelectCold, MaintenanceEnds, rowVars, historyVars
<1>3. candidate \in [Candidates -> CandidateRecord]
  BY DEF TInv, ImageTypeOK, CandidateRecord
<1>4. NoneCools
  <2>1. CASE RecoverStalled
    <3>1. \A i \in Candidates : candidate'[i].stored = candidate[i].stored
                                /\ (candidate'[i].state = "cold" => candidate[i].state = "cold")
      BY <1>3, <2>1 DEF RecoverStalled, CandidateRecord
    <3> QED BY <1>2, <2>1, <3>1 DEF RecoverStalled, NoneCools, HasRow
  <2>2. CASE FlushAccesses
    <3>1. \A i \in Candidates :
             /\ candidate'[i].stored = candidate[i].stored
             /\ candidate'[i].state = "cold" => candidate[i].state = "cold" /\ i \notin accesses
      BY <1>3, <2>2 DEF FlushAccesses, CandidateRecord
    <3> QED BY <1>2, <3>1 DEF NoneCools, HasRow
  <2>3. CASE SelectCold \/ MaintenanceEnds
    BY <2>3 DEF SelectCold, MaintenanceEnds, rowVars, NoneCools, HasRow
  <2> QED BY <2>1, <2>2, <2>3
<1> QED BY <1>1, <1>2, <1>4, ListSound

\* An image that is evicted names no content a sweep must pass by.
LEMMA EvictSound == ASSUME IInv, EvictCandidate PROVE Sound'
<1> USE DEF IInv
<1>1. UNCHANGED <<worker, objects, registry, exposed, accesses>>
  BY DEF EvictCandidate, historyVars
<1>2. maintenance' \in MaintenanceRecord /\ maintenance'.pc \notin Deleting
  BY EvictEffect
<1>3. CASE maintenance'.keys = maintenance.keys /\ candidate' = candidate /\ variants' = variants
  <2>1. NoneCools
    BY <1>1, <1>3 DEF NoneCools, HasRow
  <2> QED BY <1>1, <1>2, <1>3, <2>1, ListSound
<1>4. ASSUME NEW i \in Candidates, candidate[i].state = "cold", i \notin accesses, maintenance'.keys = KeysOf(i),
             candidate' = [candidate EXCEPT ![i] = [state |-> "pending", stored |-> FALSE]], variants' = variants \ {i}
      PROVE  Sound'
  <2>1. candidate'[i].state = "pending" /\ \A c \in Candidates \ {i} : candidate'[c] = candidate[c]
    BY <1>4 DEF TInv, ImageTypeOK
  <2>2. NoneCools
    BY <1>1, <1>4, <2>1 DEF NoneCools, HasRow
  <2>3. ASSUME NEW k \in KeysOf(i) PROVE registry[k] # "none" \/ ~BeingStored(k)
    <3>1. PICK asset \in Assets : k = Key(i, asset) /\ HasRow(i, asset)
      BY DEF KeysOf
    <3>2. k \in Keys /\ ~InUse(k)
      BY <1>4, <3>1, RequestTyped DEF InUse
    <3> QED BY <3>2 DEF Sound, SweepsPass
  <2> QED BY <1>1, <1>2, <1>4, <2>2, <2>3, ListSound
<1> QED BY <1>3, <1>4, EvictEffect

LEMMA OrphansSound == ASSUME IInv, SelectOrphans PROVE Sound'
<1> USE DEF IInv
<1>1. UNCHANGED <<worker, objects, registry, exposed, accesses, candidate, variants>>
  BY DEF SelectOrphans, rowVars, historyVars
<1>2. maintenance'.pc \notin Deleting /\ \A k \in maintenance'.keys : registry[k] # "none"
  BY OrphansEffect
<1>3. NoneCools
  BY <1>1 DEF NoneCools, HasRow
<1> QED BY <1>1, <1>2, <1>3, ListSound

LEMMA CheckSound == ASSUME IInv, CheckReferenced PROVE Sound'
<1> USE DEF IInv
<1>1. UNCHANGED <<worker, objects, registry, exposed, accesses, candidate, variants>>
  BY DEF CheckReferenced, rowVars
<1>2. NoneCools
  BY <1>1 DEF NoneCools, HasRow
<1>3. CASE maintenance'.pc \notin Deleting
  BY <1>1, <1>2, <1>3, CheckEffect, ListSound
<1>4. ASSUME NEW k \in maintenance.keys, ~Named(k), maintenance'.target = {k}, maintenance'.keys = maintenance.keys
      PROVE  Sound'
  <2>1. \A i \in Candidates, asset \in Assets : Key(i, asset) = k => ~HasRow(i, asset)
    BY <1>4 DEF Named
  <2>2. \A i \in Candidates, asset \in Assets : HasRow(i, asset)' = HasRow(i, asset)
    BY <1>1 DEF HasRow
  <2>3. ChecksHold'
    BY <1>4, <2>1, <2>2 DEF ChecksHold, Key
  <2>4. InUse(k)'
    BY <2>1, <2>2 DEF InUse, Key
  <2>5. TargetInUse'
    BY <1>4, <2>4 DEF TargetInUse
  <2>6. KnownImages'
    BY <1>1 DEF Sound, KnownImages, BeingStored, Keys, Key
  <2>7. SweepsPass'
    <3>1. ASSUME NEW l \in Keys, BeingStored(l)', registry'[l] = "none"
          PROVE  l \notin maintenance'.keys /\ InUse(l)'
      <4>1. BeingStored(l) /\ registry[l] = "none"
        BY <1>1, <3>1 DEF BeingStored, Key
      <4> QED BY <1>2, <1>4, <4>1, UseStays DEF Sound, SweepsPass
    <3> QED BY <3>1 DEF SweepsPass, Keys, Key
  <2> QED BY <2>3, <2>5, <2>6, <2>7 DEF Sound
<1> QED BY <1>3, <1>4, CheckEffect

\* The object goes; whoever stores it again has registered it.
LEMMA DeleteSound == ASSUME IInv, DeleteObject PROVE Sound'
<1> USE DEF IInv, Sound
<1>1. UNCHANGED <<worker, registry, accesses, candidate, variants>>
  BY DEF DeleteObject, rowVars
<1>2. /\ maintenance.pc = "delete" /\ maintenance'.pc = "deregister"
      /\ maintenance'.keys = maintenance.keys /\ maintenance'.target = maintenance.target
  BY DeleteEffect
<1>3. objects' = objects \ maintenance.target /\ exposed' = exposed \ maintenance.target
  BY DEF DeleteObject
<1>4. NoneCools
  BY <1>1 DEF NoneCools, HasRow
<1>5. \A k \in Keys : BeingStored(k)' = BeingStored(k)
  BY <1>1 DEF BeingStored, Key
<1>6. ChecksHold'
  BY <1>2 DEF ChecksHold
<1>7. KnownImages'
  <2>1. ASSUME NEW k \in Keys, k \in objects' \/ BeingStored(k)', registry'[k] = "none" PROVE k \in exposed'
    <3>1. k \in exposed
      BY <1>1, <1>3, <1>5, <2>1 DEF KnownImages
    <3>2. k \notin maintenance.target
      BY <1>1, <1>2, <1>3, <1>5, <2>1 DEF SweepsPass, TargetInUse, Deleting
    <3> QED BY <1>3, <3>1, <3>2
  <2> QED BY <2>1 DEF KnownImages, Keys, Key
<1>8. SweepsPass'
  <2>1. ASSUME NEW k \in Keys, BeingStored(k)', registry'[k] = "none"
        PROVE  k \notin maintenance'.keys /\ InUse(k)'
    BY <1>1, <1>2, <1>4, <1>5, <2>1, UseStays DEF SweepsPass
  <2> QED BY <2>1 DEF SweepsPass, Keys, Key
<1>9. TargetInUse'
  BY <1>2, <1>4, UseStays DEF TargetInUse, Deleting
<1> QED BY <1>6, <1>7, <1>8, <1>9

\* What is stored by then loses its registration, and the sweep has done with it.
LEMMA DeregisterSound == ASSUME IInv, Deregister PROVE Sound'
<1> USE DEF IInv, Sound
<1>1. UNCHANGED <<worker, objects, accesses, candidate, variants>>
  BY DEF Deregister, rowVars
<1>2. /\ maintenance.pc = "deregister" /\ maintenance'.pc \notin Deleting
      /\ maintenance'.keys \subseteq maintenance.keys \ maintenance.target
  BY DeregisterEffect
<1>3. /\ registry' = [k \in Keys |-> IF k \in maintenance.target THEN "none" ELSE registry[k]]
      /\ exposed' = exposed \cup {k \in maintenance.target : k \in objects \/ BeingStored(k)}
  BY DEF Deregister
<1>4. NoneCools
  BY <1>1 DEF NoneCools, HasRow
<1>5. \A k \in Keys : BeingStored(k)' = BeingStored(k)
  BY <1>1 DEF BeingStored, Key
<1>6. ChecksHold' /\ TargetInUse'
  BY <1>2 DEF ChecksHold, TargetInUse, Deleting
<1>7. KnownImages'
  <2>1. ASSUME NEW k \in Keys, k \in objects' \/ BeingStored(k)', registry'[k] = "none" PROVE k \in exposed'
    <3>1. k \in objects \/ BeingStored(k)
      BY <1>1, <1>5, <2>1
    <3>2. CASE k \in maintenance.target
      BY <1>3, <3>1, <3>2
    <3>3. CASE k \notin maintenance.target
      BY <1>3, <2>1, <3>1, <3>3 DEF KnownImages
    <3> QED BY <3>2, <3>3
  <2> QED BY <2>1 DEF KnownImages, Keys, Key
<1>8. SweepsPass'
  <2>1. ASSUME NEW k \in Keys, BeingStored(k)', registry'[k] = "none"
        PROVE  k \notin maintenance'.keys /\ InUse(k)'
    <3>1. CASE k \in maintenance.target
      BY <1>2, <1>4, <3>1, UseStays DEF TargetInUse, Deleting
    <3>2. CASE k \notin maintenance.target
      BY <1>2, <1>3, <1>4, <1>5, <2>1, <3>2, UseStays DEF SweepsPass
    <3> QED BY <3>1, <3>2
  <2> QED BY <2>1 DEF SweepsPass, Keys, Key
<1> QED BY <1>6, <1>7, <1>8

LEMMA TimeSound ==
    ASSUME IInv, HalfYear \/ \E i \in Candidates : HalfHour(i)
    PROVE  Sound'
<1> USE DEF IInv
<1>1. CASE HalfYear
  <2>1. \A r \in Requests : worker'[r].pc = "none"
    BY <1>1 DEF HalfYear
  <2>2. \A k \in Keys : ~BeingStored(k)'
    BY <2>1 DEF BeingStored
  <2>3. maintenance'.pc = "idle" /\ UNCHANGED <<objects, exposed>>
    BY <1>1 DEF HalfYear
  <2>4. \A k \in Keys : registry[k] # "none" => registry'[k] # "none"
    BY <1>1 DEF HalfYear
  <2>5. ChecksHold' /\ TargetInUse'
    BY <2>3 DEF ChecksHold, TargetInUse, Deleting
  <2>6. KnownImages'
    <3>1. ASSUME NEW k \in Keys, k \in objects' \/ BeingStored(k)' PROVE registry'[k] # "none" \/ k \in exposed'
      BY <2>2, <2>3, <2>4, <3>1 DEF Sound, KnownImages
    <3> QED BY <3>1 DEF KnownImages, Keys, Key
  <2>7. SweepsPass'
    <3>1. ASSUME NEW k \in Keys, BeingStored(k)' PROVE FALSE
      BY <2>2, <3>1
    <3> QED BY <3>1 DEF SweepsPass, Keys, Key
  <2> QED BY <2>5, <2>6, <2>7 DEF Sound
<1>2. ASSUME NEW i \in Candidates, HalfHour(i) PROVE Sound'
  <2>1. UNCHANGED <<variants, registry, objects, accesses, worker, maintenance, sinceCheck, exposed>>
    BY <1>2 DEF HalfHour, historyVars
  <2>2. \A c \in Candidates : /\ candidate'[c].stored = candidate[c].stored
                              /\ candidate'[c] = candidate[c] \/ candidate'[c].state = "stalled"
    BY <1>2, NoteTyped DEF HalfHour, CandidateStates, TInv
  <2>3. NoneCools /\ RowsRemembered
    BY <2>1, <2>2 DEF NoneCools, RowsRemembered, HasRow
  <2>4. \A k \in Keys : BeingStored(k)' => BeingStored(k)
    BY <2>1 DEF BeingStored, Key
  <2> QED BY <2>1, <2>3, <2>4, JobSound
<1> QED BY <1>1, <1>2

LEMMA InitIInv == ImageInit => IInv
<1> SUFFICES ASSUME ImageInit PROVE IInv
  OBVIOUS
<1>1. \A k \in Keys : ~BeingStored(k)
  BY DEF ImageInit, BeingStored, NoWork
<1>2. maintenance.pc = "idle" /\ objects = {}
  BY DEF ImageInit, NoMaintenance
<1> QED BY <1>1, <1>2, InitTInv DEF IInv, Sound, ChecksHold, KnownImages, SweepsPass, TargetInUse, Deleting

LEMMA InductiveIInv == IInv /\ [ImageNext]_imageVars => IInv'
<1> SUFFICES ASSUME IInv, [ImageNext]_imageVars PROVE IInv'
  OBVIOUS
<1>1. TInv'
  BY InductiveTInv DEF IInv
<1>2. CASE UNCHANGED imageVars
  <2>1. UNCHANGED <<candidate, variants, registry, objects, accesses, worker, maintenance, sinceCheck, exposed>>
    BY <1>2 DEF imageVars
  <2>2. NoneCools /\ RowsRemembered
    BY <2>1 DEF NoneCools, RowsRemembered, HasRow
  <2>3. \A k \in Keys : BeingStored(k)' => BeingStored(k)
    BY <2>1 DEF BeingStored, Key
  <2>4. Sound'
    BY <2>1, <2>2, <2>3, JobSound
  <2> QED BY <1>1, <2>4 DEF IInv
<1>3. CASE ImageNext
  BY <1>1, <1>3, JobStepSound, MaintainSound, EvictSound, OrphansSound, CheckSound, DeleteSound, DeregisterSound,
     TimeSound DEF IInv, ImageNext, Maintain, ImageFault
<1> QED BY <1>2, <1>3

LEMMA IInvHolds == ImageSpec => []IInv
BY InitIInv, InductiveIInv, PTL DEF ImageSpec

\* Every stored object can be found by a sweep, whoever dies or fails between registering,
\* storing and naming it, and however many images share it.
THEOREM FindableSafety == ImageSpec => []StorageIsFindable
<1>1. IInv => StorageIsFindable
  BY DEF IInv, TInv, ImageTypeOK, Sound, KnownImages, StorageIsFindable
<1> QED BY <1>1, IInvHolds, PTL

\* No sweep takes an object from under a row that was there when it looked.
THEOREM SharedSafety == ImageSpec => SharedBytesStay
<1>1. IInv /\ [ImageNext]_imageVars =>
        [\A k \in objects \ objects' : \A i \in Candidates, asset \in Assets :
            Key(i, asset) = k /\ HasRow(i, asset) => <<i, asset>> \in sinceCheck]_imageVars
  <2> SUFFICES ASSUME IInv, ImageNext, NEW k \in objects \ objects', NEW i \in Candidates, NEW asset \in Assets,
                      Key(i, asset) = k, HasRow(i, asset)
               PROVE  <<i, asset>> \in sinceCheck
    OBVIOUS
  <2>1. DeleteObject
    BY DEF ImageNext, JobWork, Maintain, ImageFault, Ask, Answer, AcceptImage, ClaimOriginal, ReadVariantRow, ReadObject,
           ResetRow, NoteFailure, RegisterObject, PutImmutable, MarkReady, WorkFails, WorkerCrash, RecoverStalled,
           FlushAccesses, SelectCold, EvictCandidate, SelectOrphans, CheckReferenced, Deregister, MaintenanceEnds,
           HalfYear, HalfHour, historyVars
  <2>2. k \in maintenance.target /\ maintenance.pc = "delete"
    BY <2>1 DEF DeleteObject, MaintenanceStep
  <2> QED BY <2>2 DEF IInv, Sound, ChecksHold
<1> QED BY <1>1, IInvHolds, PTL DEF ImageSpec, SharedBytesStay
=============================================================================
