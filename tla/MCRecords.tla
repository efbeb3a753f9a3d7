------------------------------ MODULE MCRecords ------------------------------
(* Two writers of shared records whose steps interleave without locks around   *)
(* them: the cache of provider responses, and the merge of people who turn out *)
(* to be the same. They meet in no variable, so a behaviour of this instance   *)
(* is one of one of them and their states add up instead of multiplying.       *)
EXTENDS MCProviderCache, MCPersonMerge

VARIABLE subject \* the component this behaviour is about

\* What the behaviour is not about stays in one initial state.
RecordsInit ==
    /\ subject \in {"cache", "people"}
    /\ CacheInit /\ PersonInit
    /\ subject # "cache" => blobs = [b \in Bodies |-> Nothing]

RecordsNext ==
    /\ UNCHANGED subject
    /\ \/ subject = "cache" /\ CacheNext /\ UNCHANGED personVars
       \/ subject = "people" /\ PersonNext /\ UNCHANGED cacheVars

RecordsSpec == RecordsInit /\ [][RecordsNext]_<<cacheVars, personVars, subject>>

\* Every variable of both components has its type.
RecordsTypeOK == CacheTypeOK /\ PersonTypeOK /\ subject \in {"cache", "people"}
==============================================================================
