----------------------------- MODULE ImageCache -----------------------------
(***************************************************************************)
(* The image cache (internal/images, jobs/image.go, server/images.go): a    *)
(* request reads an image or queues a job; the job claims the candidate,    *)
(* fetches it, registers and stores the object and marks the row ready; an  *)
(* hourly job recovers stalled claims, evicts images nobody reads and       *)
(* deletes objects no row names. Objects are named by their content, so     *)
(* several images may share one.                                            *)
(***************************************************************************)
EXTENDS Naturals, FiniteSets

CONSTANTS
    Images,      \* image candidates with a source that can be stored
    Unsupported, \* image candidates whose source is not an image
    BytesOf,     \* the content behind each candidate's source URL
    Scenarios    \* what happens together: the requests that are made (pairs of an image and
                 \* "original" or "variant"), the one whose answer is followed, which of
                 \* {"error", "crash", "pause"} occur, and bounds on the errors and crashes
                 \* and on the half years that pass

Candidates == Images \cup Unsupported
Assets == {"original", "variant"}

Requests == UNION {s.requests : s \in Scenarios}

ASSUME ImageAssumption ==
    /\ Images \cap Unsupported = {}
    /\ Scenarios \subseteq [requests : SUBSET (Candidates \X Assets), followed : Candidates \X Assets,
                            faults : SUBSET {"error", "crash", "pause"}, maxFaults : Nat, maxYears : Nat]
    /\ \A s \in Scenarios : s.followed \in s.requests

VARIABLES
    candidate,   \* image_candidates: state, and whether object_key names the original
    variants,    \* image_variants: the candidates that have a row
    registry,    \* image_cache_objects: "none", or created within or before the grace period
    objects,     \* keys in the blob store
    accesses,    \* the sorted set of accesses in Redis
    viewer,      \* local state of the client behind each request
    worker,      \* local state of the job of each request; River keeps one of a kind
    maintenance, \* local state of the maintenance job
    scenario,    \* what happens in this behaviour
    imageFaults, \* errors and crashes so far
    years,       \* half years so far
    sinceCheck,  \* history: rows written since the reference check of the object being deleted
    exposed      \* history: objects stored again while a sweep deleted them and their registration

imageVars == <<candidate, variants, registry, objects, accesses, viewer, worker, maintenance, scenario, imageFaults,
               years, sinceCheck, exposed>>
rowVars == <<candidate, variants>>
bounds == <<scenario, imageFaults, years>>
historyVars == <<bounds, sinceCheck, exposed>>

Key(i, asset) == <<asset, BytesOf[i]>>
Keys == {Key(i, asset) : i \in Candidates, asset \in Assets}

\* "stalled": working for more than half an hour; "cold": ready and not read for half a year.
CandidateStates == {"pending", "working", "stalled", "failed", "unsupported", "ready", "cold"}
IsReady(i) == candidate[i].state \in {"ready", "cold"}
HasRow(i, asset) == IF asset = "original" THEN candidate[i].stored ELSE i \in variants
Serves(i, asset) == IsReady(i) /\ HasRow(i, asset)
Named(k) == \E i \in Candidates, asset \in Assets : Key(i, asset) = k /\ HasRow(i, asset)

\* A job is at a statement, works on an asset, and a variant job has its original or not.
NoWork == [pc |-> "none", asset |-> "original", ensured |-> FALSE]
First(r) == [NoWork EXCEPT !.pc = IF r[2] = "variant" THEN "read" ELSE "claim", !.asset = r[2]]
\* What a job does once the original is there, and when a variant is not.
AfterOriginal(r) == IF r[2] = "variant" THEN [First(r) EXCEPT !.ensured = TRUE] ELSE NoWork
NotReady(r, from) ==
    worker[r].pc = from /\ worker' = [worker EXCEPT ![r].pc = IF worker[r].ensured THEN "register" ELSE "claim"]

NoMaintenance == [pc |-> "idle", ids |-> {}, keys |-> {}, target |-> {}, last |-> FALSE]

ImageInit ==
    /\ candidate = [i \in Candidates |-> [state |-> "pending", stored |-> FALSE]]
    /\ variants = {} /\ registry = [k \in Keys |-> "none"] /\ objects = {} /\ accesses = {}
    /\ viewer = [r \in Requests |-> "idle"] /\ worker = [r \in Requests |-> NoWork]
    /\ maintenance = NoMaintenance /\ scenario \in Scenarios /\ imageFaults = 0 /\ years = 0
    /\ sinceCheck = {} /\ exposed = {}

\* A row whose object is missing is reset, whoever wrote it since it was read.
ForgetObject(i, asset) ==
    IF asset = "original"
    THEN candidate' = [candidate EXCEPT ![i] = [state |-> "pending", stored |-> FALSE]] /\ UNCHANGED variants
    ELSE variants' = variants \ {i} /\ UNCHANGED candidate

-----------------------------------------------------------------------------
(* A client repeats its request until it gets the image or a refusal. Its look at
   the row, its look at the object and the repair of the row are one step here: the
   same read is taken apart where a job does it. *)

Ask(r) ==
    /\ r \in scenario.requests
    /\ viewer[r] = "idle" /\ viewer' = [viewer EXCEPT ![r] = "asking"]
    /\ UNCHANGED <<rowVars, registry, objects, accesses, worker, maintenance, historyVars>>

Answered(r) == Serves(r[1], r[2]) /\ Key(r[1], r[2]) \in objects

\* 200 or 422.
Answer(r) ==
    /\ viewer[r] = "asking" /\ (Answered(r) \/ candidate[r[1]].state = "unsupported")
    /\ viewer' = [viewer EXCEPT ![r] = "idle"]
    /\ accesses' = IF Answered(r) THEN accesses \cup {r[1]} ELSE accesses
    /\ UNCHANGED <<rowVars, registry, objects, worker, maintenance, historyVars>>

\* 202: a row without its object is reset, and a job is inserted unless one is active.
AcceptImage(r) ==
    /\ viewer[r] = "asking" /\ ~Answered(r) /\ candidate[r[1]].state # "unsupported"
    /\ worker' = IF worker[r].pc = "none" THEN [worker EXCEPT ![r] = First(r)] ELSE worker
    /\ IF Serves(r[1], r[2]) THEN ForgetObject(r[1], r[2]) ELSE UNCHANGED rowVars
    /\ UNCHANGED <<registry, objects, accesses, viewer, maintenance, historyVars>>

-----------------------------------------------------------------------------
(* The jobs. A job that waits and a job about to run its first statement are the
   same state. *)

WorkerStep(r, from, to) == worker[r].pc = from /\ worker' = [worker EXCEPT ![r] = to]
At(r, pc) == [worker[r] EXCEPT !.pc = pc]
Storing(r, asset) == [worker[r] EXCEPT !.pc = "register", !.asset = asset]

\* A failing job is retried, or discarded after its last attempt.
JobErrors(r, from) == \E job \in {First(r), NoWork} : WorkerStep(r, from, job)

\* ensureOriginal claims the candidate, or reads what another worker has stored, or leaves
\* it to the worker that is at it (a variant job comes back later). What is fetched
\* is an image or is not; the fetch itself touches nothing that is shared.
ClaimOriginal(r) ==
    LET state == candidate[r[1]].state
    IN \/ /\ state \in {"pending", "failed"}
          /\ WorkerStep(r, "claim", IF r[1] \in Images THEN Storing(r, "original") ELSE At(r, "unsupported"))
          /\ candidate' = [candidate EXCEPT ![r[1]].state = "working"]
          /\ UNCHANGED <<variants, registry, objects, accesses, viewer, maintenance, historyVars>>
       \/ /\ \/ IsReady(r[1]) /\ WorkerStep(r, "claim", [At(r, "get") EXCEPT !.asset = "original"])
             \/ state = "unsupported" /\ WorkerStep(r, "claim", NoWork)
             \/ state \in {"working", "stalled"}
                /\ WorkerStep(r, "claim", IF r[2] = "variant" THEN First(r) ELSE NoWork)
          /\ UNCHANGED <<rowVars, registry, objects, accesses, viewer, maintenance, historyVars>>

\* ReadVariant before and after the original is ensured: the row, then the object.
ReadVariantRow(r) ==
    /\ \/ Serves(r[1], "variant") /\ WorkerStep(r, "read", At(r, "get"))
       \/ ~Serves(r[1], "variant") /\ candidate[r[1]].state = "unsupported" /\ WorkerStep(r, "read", NoWork)
       \/ ~Serves(r[1], "variant") /\ candidate[r[1]].state # "unsupported" /\ NotReady(r, "read")
    /\ UNCHANGED <<rowVars, registry, objects, accesses, viewer, maintenance, historyVars>>

ReadObject(r) ==
    LET asset == worker[r].asset
    IN /\ IF Key(r[1], asset) \in objects
          THEN /\ WorkerStep(r, "get", IF asset = "original" THEN AfterOriginal(r) ELSE NoWork)
               /\ accesses' = accesses \cup {r[1]}
          ELSE WorkerStep(r, "get", At(r, "reset")) /\ UNCHANGED accesses
       /\ UNCHANGED <<rowVars, registry, objects, viewer, maintenance, historyVars>>

\* The object was missing; meanwhile the row may have been written again.
ResetRow(r) ==
    /\ IF worker[r].asset = "original" THEN JobErrors(r, "reset") ELSE NotReady(r, "reset")
    /\ ForgetObject(r[1], worker[r].asset)
    /\ UNCHANGED <<registry, objects, accesses, viewer, maintenance, historyVars>>

\* Mutated form: the object is stored before it is registered.
StoreFirst(r) ==
    /\ WorkerStep(r, "register", At(r, "put"))
    /\ objects' = objects \cup {Key(r[1], worker[r].asset)}
    /\ UNCHANGED <<rowVars, registry, accesses, viewer, maintenance, historyVars>>

\* A second registration keeps the age of the first.
RegisterObject(r) ==
    LET k == Key(r[1], worker[r].asset)
    IN /\ WorkerStep(r, "register", At(r, "put"))
       /\ registry' = IF registry[k] = "none" THEN [registry EXCEPT ![k] = "young"] ELSE registry
       /\ UNCHANGED <<rowVars, objects, accesses, viewer, maintenance, historyVars>>

PutImmutable(r) ==
    /\ WorkerStep(r, "put", At(r, "finish"))
    /\ objects' = objects \cup {Key(r[1], worker[r].asset)}
    /\ UNCHANGED <<rowVars, registry, accesses, viewer, maintenance, historyVars>>

\* The row is written whatever became of the claim, or of the original behind a variant.
MarkReady(r) ==
    LET i == r[1] asset == worker[r].asset
    IN /\ WorkerStep(r, "finish", IF asset = "original" THEN AfterOriginal(r) ELSE NoWork)
       /\ IF asset = "original"
          THEN /\ candidate' = [candidate EXCEPT ![i] = [state |-> "ready", stored |-> TRUE]]
               /\ UNCHANGED <<variants, accesses>>
          ELSE variants' = variants \cup {i} /\ accesses' = accesses \cup {i} /\ UNCHANGED candidate
       /\ sinceCheck' = IF maintenance.pc = "delete" THEN sinceCheck \cup {<<i, asset>>} ELSE sinceCheck
       /\ UNCHANGED <<registry, objects, viewer, maintenance, bounds, exposed>>

Fault(kinds) == scenario.faults \cap kinds # {} /\ imageFaults < scenario.maxFaults /\ imageFaults' = imageFaults + 1

\* A step of a job fails; materialising the original leaves a note in the row.
WorkFails(r) ==
    /\ Fault({"error"})
    /\ worker[r].pc \in {"register", "put", "finish"}
    /\ IF worker[r].asset = "original" THEN WorkerStep(r, worker[r].pc, At(r, "failed"))
       ELSE JobErrors(r, worker[r].pc)
    /\ UNCHANGED <<rowVars, registry, objects, accesses, viewer, maintenance, scenario, years, sinceCheck, exposed>>

\* The deferred note is not conditional on the claim either.
NoteFailure(r) ==
    /\ \/ JobErrors(r, "failed")
       \/ WorkerStep(r, "unsupported", NoWork)
    /\ candidate' = [candidate EXCEPT ![r[1]].state = worker[r].pc]
    /\ UNCHANGED <<variants, registry, objects, accesses, viewer, maintenance, historyVars>>

\* The process dies; River gives the job to another one later.
WorkerCrash(r) ==
    /\ Fault({"crash"}) /\ worker[r] \notin {NoWork, First(r)}
    /\ worker' = [worker EXCEPT ![r] = First(r)]
    /\ UNCHANGED <<rowVars, registry, objects, accesses, viewer, maintenance, scenario, years, sinceCheck, exposed>>

-----------------------------------------------------------------------------
(* The maintenance job. *)

MaintenanceStep(from, to) == maintenance.pc = from /\ maintenance' = to
Then(pc) == [maintenance EXCEPT !.pc = pc]
Done(keys) == IF keys # {} THEN [maintenance EXCEPT !.pc = "unreferenced", !.keys = keys]
              ELSE IF maintenance.last THEN NoMaintenance
              ELSE [maintenance EXCEPT !.pc = IF maintenance.ids = {} THEN "orphans" ELSE "evict", !.keys = {}]

\* Mutated form: a claim is never given up.
RecoverNothing ==
    /\ MaintenanceStep("idle", Then("flush"))
    /\ UNCHANGED <<rowVars, registry, objects, accesses, viewer, worker, historyVars>>

RecoverStalled ==
    /\ MaintenanceStep("idle", Then("flush"))
    /\ candidate' = [i \in Candidates |-> IF candidate[i].state = "stalled"
                                          THEN [candidate[i] EXCEPT !.state = "failed"] ELSE candidate[i]]
    /\ UNCHANGED <<variants, registry, objects, accesses, viewer, worker, historyVars>>

\* The claim with ZPOPMIN and the transaction are one step (AccessStats takes a flush of
\* this kind apart).
FlushAccesses ==
    /\ MaintenanceStep("flush", Then("cold"))
    /\ candidate' = [i \in Candidates |-> IF i \in accesses /\ candidate[i].state = "cold"
                                          THEN [candidate[i] EXCEPT !.state = "ready"] ELSE candidate[i]]
    /\ accesses' = {}
    /\ UNCHANGED <<variants, registry, objects, viewer, worker, historyVars>>

Cold == {i \in Candidates : candidate[i].state = "cold"}

SelectCold ==
    /\ MaintenanceStep("cold", [Then(IF Cold = {} THEN "orphans" ELSE "evict") EXCEPT !.ids = Cold])
    /\ UNCHANGED <<rowVars, registry, objects, accesses, viewer, worker, historyVars>>

KeysOf(i) == {Key(i, asset) : asset \in {a \in Assets : HasRow(i, a)}}

\* The next of them, unless it was read after the flush or written since: one
\* transaction resets the row and deletes its variants.
EvictCandidate ==
    /\ \E i \in maintenance.ids :
          LET rest == [maintenance EXCEPT !.ids = @ \ {i}]
          IN IF candidate[i].state = "cold" /\ i \notin accesses
             THEN /\ MaintenanceStep("evict", [rest EXCEPT !.pc = "unreferenced", !.keys = KeysOf(i)])
                  /\ candidate' = [candidate EXCEPT ![i] = [state |-> "pending", stored |-> FALSE]]
                  /\ variants' = variants \ {i}
             ELSE /\ MaintenanceStep("evict", [rest EXCEPT !.pc = IF rest.ids = {} THEN "orphans" ELSE "evict"])
                  /\ UNCHANGED rowVars
    /\ UNCHANGED <<registry, objects, accesses, viewer, worker, historyVars>>

SelectOrphans ==
    /\ LET orphans == {k \in Keys : registry[k] = "old" /\ ~Named(k)}
       IN MaintenanceStep("orphans", IF orphans = {} THEN NoMaintenance
                                     ELSE [Then("unreferenced") EXCEPT !.keys = orphans, !.last = TRUE])
    /\ UNCHANGED <<rowVars, registry, objects, accesses, viewer, worker, historyVars>>

\* Mutated form: what an evicted image named is deleted without asking who else names it.
DeleteUnchecked ==
    /\ \E k \in maintenance.keys : MaintenanceStep("unreferenced", [Then("delete") EXCEPT !.target = {k}])
    /\ sinceCheck' = {}
    /\ UNCHANGED <<rowVars, registry, objects, accesses, viewer, worker, bounds, exposed>>

\* deleteIfUnreferenced: the check, the deletion of the object, that of its registration.
CheckReferenced ==
    /\ \E k \in maintenance.keys :
          MaintenanceStep("unreferenced", IF Named(k) THEN Done(maintenance.keys \ {k})
                                          ELSE [Then("delete") EXCEPT !.target = {k}])
    /\ sinceCheck' = {}
    /\ UNCHANGED <<rowVars, registry, objects, accesses, viewer, worker, bounds, exposed>>

DeleteObject ==
    /\ MaintenanceStep("delete", Then("deregister"))
    /\ objects' = objects \ maintenance.target
    /\ exposed' = exposed \ maintenance.target /\ sinceCheck' = {}
    /\ UNCHANGED <<rowVars, registry, accesses, viewer, worker, bounds>>

BeingStored(k) == \E r \in Requests : worker[r].pc \in {"put", "finish"} /\ k = Key(r[1], worker[r].asset)

Deregister ==
    /\ MaintenanceStep("deregister", [Done(maintenance.keys \ maintenance.target) EXCEPT !.target = {}])
    /\ registry' = [k \in Keys |-> IF k \in maintenance.target THEN "none" ELSE registry[k]]
    /\ exposed' = exposed \cup {k \in maintenance.target : k \in objects \/ BeingStored(k)}
    /\ UNCHANGED <<rowVars, objects, accesses, viewer, worker, bounds, sinceCheck>>

\* A step fails or the process dies: River runs the job again from its beginning.
MaintenanceEnds ==
    /\ Fault({"error", "crash"}) /\ maintenance.pc # "idle"
    /\ maintenance' = NoMaintenance /\ sinceCheck' = {}
    /\ UNCHANGED <<rowVars, registry, objects, accesses, viewer, worker, scenario, years, exposed>>

Maintain ==
    \/ RecoverStalled \/ FlushAccesses \/ SelectCold \/ EvictCandidate \/ SelectOrphans
    \/ CheckReferenced \/ DeleteObject \/ Deregister

-----------------------------------------------------------------------------
(* Time. *)

Holding(r) == worker[r].pc \in {"register", "put", "finish", "failed", "unsupported"} /\ worker[r].asset = "original"

\* Half an hour after the claim: its worker is dead, or was suspended and will go on.
HalfHour(i) ==
    /\ candidate[i].state = "working"
    /\ "pause" \in scenario.faults \/ \A r \in Requests : r[1] = i => ~Holding(r)
    /\ candidate' = [candidate EXCEPT ![i].state = "stalled"]
    /\ UNCHANGED <<variants, registry, objects, accesses, viewer, worker, maintenance, historyVars>>

\* Half a year in which nobody asks for an image.
HalfYear ==
    /\ years < scenario.maxYears /\ years' = years + 1
    /\ \A r \in Requests : viewer[r] = "idle" /\ worker[r].pc = "none"
    /\ maintenance.pc = "idle"
    /\ candidate' = [i \in Candidates |-> IF candidate[i].state = "ready" THEN [candidate[i] EXCEPT !.state = "cold"] ELSE candidate[i]]
    /\ registry' = [k \in Keys |-> IF registry[k] = "young" THEN "old" ELSE registry[k]]
    /\ accesses' = {}
    /\ UNCHANGED <<variants, objects, viewer, worker, maintenance, scenario, imageFaults, sinceCheck,
                   exposed>>

-----------------------------------------------------------------------------
JobWork(r) ==
    \/ ClaimOriginal(r) \/ ReadVariantRow(r) \/ ReadObject(r) \/ ResetRow(r)
    \/ RegisterObject(r) \/ PutImmutable(r) \/ MarkReady(r) \/ NoteFailure(r)
ImageFault == MaintenanceEnds \/ \E r \in Requests : WorkFails(r) \/ WorkerCrash(r)

ImageNext ==
    \/ \E r \in Requests : Ask(r) \/ Answer(r) \/ AcceptImage(r) \/ JobWork(r)
    \/ Maintain \/ HalfYear \/ ImageFault
    \/ \E i \in Candidates : HalfHour(i)

ImageSpec == ImageInit /\ [][ImageNext]_imageVars

\* Clients repeat their request, River runs its jobs, the maintenance job runs every
\* hour.
ImageFairness ==
    /\ \A r \in Requests : WF_imageVars(Answer(r) \/ AcceptImage(r)) /\ WF_imageVars(JobWork(r))
    /\ WF_imageVars(Maintain) /\ WF_imageVars(\E i \in Candidates : HalfHour(i))

-----------------------------------------------------------------------------
(* Properties *)

ImageTypeOK ==
    /\ candidate \in [Candidates -> [state : CandidateStates, stored : BOOLEAN]]
    /\ variants \subseteq Candidates /\ registry \in [Keys -> {"none", "young", "old"}]
    /\ objects \subseteq Keys /\ accesses \subseteq Candidates /\ exposed \subseteq Keys
    /\ viewer \in [Requests -> {"idle", "asking"}]
    /\ worker \in [Requests -> [pc : {"none", "claim", "read", "get", "reset", "register", "put", "finish",
                                      "failed", "unsupported"},
                                asset : Assets, ensured : BOOLEAN]]
    /\ sinceCheck \subseteq Candidates \X Assets /\ scenario \in Scenarios
    /\ imageFaults \in 0..scenario.maxFaults /\ years \in 0..scenario.maxYears

\* A client that keeps asking gets the image or a refusal: dead claims, late failures, a
\* missing object and sweeps that run meanwhile only delay it.
EventuallyServed == viewer[scenario.followed] = "asking" ~> viewer[scenario.followed] = "idle"

\* A sweep takes an object from under a row only if the row was written after the sweep
\* found nobody that names the object: an image never loses the bytes it shares with
\* an image that is evicted.
SharedBytesStay ==
    [][\A k \in objects \ objects' : \A i \in Candidates, asset \in Assets :
          Key(i, asset) = k /\ HasRow(i, asset) => <<i, asset>> \in sinceCheck]_imageVars

\* Whatever dies or fails, every stored object is named by a row or by the registry, so
\* that a sweep can find it, unless it was stored again while a sweep deleted it.
StorageIsFindable == \A k \in objects : Named(k) \/ registry[k] # "none" \/ k \in exposed
==============================================================================
