-------------------------- MODULE PersonMerge_proofs --------------------------
(***************************************************************************)
(* Merges of people, for any number of people, reconcilers and credits: what *)
(* was decided stands, and nothing is left with a retired person but what    *)
(* was written for it late.  The invariant says what an open merge, which    *)
(* has moved nothing yet for others to see, relies on until it commits.      *)
(***************************************************************************)
EXTENDS MCRecords, ProviderCache_proofs, Redirects_proofs, TLAPS

States == {"none", "proposed", "accepted", "rejected", "superseded"}

ReconcilerRecord ==
    [pc : {"idle", "fetched", "query", "propose", "accept", "merge"},
     root : Roots \cup {Nobody}, person : People \cup {Nobody},
     todo : SUBSET (People \X {"review", "automatic"}), verified : SUBSET Pairs,
     pair : SUBSET People, survivor : People \cup {Nobody}]

MergeRecord ==
    [pair : SUBSET People, survivor : People \cup {Nobody}, claims : SUBSET (Roots \cup Links),
     credits : SUBSET Credited, proposals : SUBSET Pairs]

Tables ==
    /\ live \subseteq People /\ redirect \in [People -> People \cup {Nobody}]
    /\ claim \in [Roots \cup Links -> People \cup {Nobody}]
    /\ credit \in [Credited -> People \cup {Nobody}] /\ projection \in [Credited -> People \cup {Nobody}]
    /\ candidates \in [Pairs -> States]

\* A reconciler knows whom it is about, compares that person with others and accepts pairs.
Informed(r) ==
    /\ r.pc = "fetched" => r.root \in Roots
    /\ r.pc # "idle" => r.person \in People
    /\ \A t \in r.todo : t[1] # r.person
    /\ r.pc = "accept" => r.pair \in Pairs /\ r.survivor \in r.pair

PersonTInv ==
    /\ Tables
    /\ reconciler \in [Reconcilers -> ReconcilerRecord]
    /\ merge \in [Actors -> MergeRecord]
    /\ \A w \in Reconcilers : Informed(reconciler[w])

-----------------------------------------------------------------------------
\* A pair is two people.
LEMMA PairIsTwo ==
    /\ \A p, q \in People : p # q => {p, q} \in Pairs
    /\ \A pair \in Pairs : \E p, q \in People : p # q /\ pair = {p, q}
<1>1. ASSUME NEW p \in People, NEW q \in People, p # q PROVE {p, q} \in Pairs
  <2>1. Cardinality({p, q}) = 2
    <3>1. IsFiniteSet({q}) /\ Cardinality({q}) = 1
      BY FS_Singleton
    <3>2. Cardinality({q} \cup {p}) = Cardinality({q}) + 1
      BY <1>1, <3>1, FS_AddElement
    <3>3. {q} \cup {p} = {p, q}
      OBVIOUS
    <3> QED BY <3>1, <3>2, <3>3
  <2> QED BY <2>1 DEF Pairs
<1>2. ASSUME NEW pair \in Pairs PROVE \E p, q \in People : p # q /\ pair = {p, q}
  <2>1. pair \subseteq People /\ Cardinality(pair) = 2
    BY DEF Pairs
  <2>2. IsFiniteSet(pair)
    BY <2>1, PersonAssumption, FS_Subset DEF People
  <2>3. pair # {}
    BY <2>1, FS_EmptySet
  <2>4. PICK p \in pair : TRUE
    BY <2>3
  <2>5. IsFiniteSet(pair \ {p}) /\ Cardinality(pair \ {p}) = 1
    BY <2>1, <2>2, <2>4, FS_RemoveElement
  <2>6. PICK q : pair \ {p} = {q}
    BY <2>5, FS_Singleton
  <2> QED BY <2>1, <2>4, <2>6
<1> QED BY <1>1, <1>2

-----------------------------------------------------------------------------
\* At most one merge is open: AcceptReconciliation runs under an advisory lock.
OneMerge == \A a, b \in Actors : merge[a] # NotMerging /\ merge[b] # NotMerging => a = b

\* The people of an open merge are live and its proposals, whose rows it holds, undecided.
StillProposed(a) ==
    merge[a] # NotMerging =>
        /\ merge[a].pair \in Pairs /\ merge[a].pair \subseteq live
        /\ merge[a].survivor \in merge[a].pair
        /\ candidates[merge[a].pair] = "proposed" /\ merge[a].pair \notin merge[a].proposals
        /\ \A x \in merge[a].proposals : candidates[x] = "proposed" /\ Retired(merge[a]) \subseteq x

\* What belongs to the person an open merge retires will be moved or was written late.
ClaimsMove(a) ==
    \A i \in Roots \cup Links :
        claim[i] \in Retired(merge[a]) => i \in merge[a].claims \/ <<"claim", i>> \in late

CreditsMove(a) ==
    \A r \in Credited :
        credit[r] \in Retired(merge[a]) =>
            r \in merge[a].credits \/ projection[r] # Nobody \/ <<"credit", r>> \in late

ProposalsMove(a) ==
    \A x \in Pairs :
        candidates[x] = "proposed" /\ x \cap Retired(merge[a]) # {} =>
            x = merge[a].pair \/ x \in merge[a].proposals \/ <<"proposal", x>> \in late

\* A person is created together with the claim of the identity that names it.
NamedByClaim ==
    \A r \in Roots : claim[r] = Nobody =>
        r \notin live /\ (r \in Credited => projection[r] \in {Nobody, r})

ClaimsLive == \A i \in Roots \cup Links : claim[i] # Nobody => claim[i] \in live \/ <<"claim", i>> \in late
CreditsLive == \A r \in Credited : credit[r] # Nobody => credit[r] \in live \/ <<"credit", r>> \in late
ProposalsLive == \A x \in Pairs : candidates[x] = "proposed" => x \subseteq live \/ <<"proposal", x>> \in late

MInv == OneMerge /\ \A a \in Actors : StillProposed(a)

LateInv ==
    /\ \A a \in Actors : ClaimsMove(a) /\ CreditsMove(a) /\ ProposalsMove(a)
    /\ NamedByClaim /\ ClaimsLive /\ CreditsLive /\ ProposalsLive

-----------------------------------------------------------------------------
(* Types *)

LEMMA InitTypes == PersonInit => PersonTInv
<1> SUFFICES ASSUME PersonInit PROVE PersonTInv
  OBVIOUS
<1>1. Tables
  <2>1. live \subseteq People /\ redirect \in [People -> People \cup {Nobody}]
    BY DEF PersonInit, People
  <2>2. claim \in [Roots \cup Links -> People \cup {Nobody}]
    BY DEF PersonInit, People
  <2>3. /\ credit \in [Credited -> People \cup {Nobody}] /\ projection \in [Credited -> People \cup {Nobody}]
        /\ candidates \in [Pairs -> States]
    BY DEF PersonInit, States
  <2> QED BY <2>1, <2>2, <2>3 DEF Tables
<1>2. Idle \in ReconcilerRecord /\ Informed(Idle) /\ NotMerging \in MergeRecord
  BY DEF Idle, ReconcilerRecord, Informed, NotMerging, MergeRecord
<1> QED BY <1>1, <1>2 DEF PersonInit, PersonTInv

\* A reconciler's step leaves it informed when its next local state is.
LEMMA StepInforms ==
    ASSUME reconciler \in [Reconcilers -> ReconcilerRecord], \A w \in Reconcilers : Informed(reconciler[w]),
           NEW w \in Reconcilers, NEW to \in ReconcilerRecord, Informed(to),
           reconciler' = [reconciler EXCEPT ![w] = to]
    PROVE  reconciler' \in [Reconcilers -> ReconcilerRecord] /\ \A v \in Reconcilers : Informed(reconciler'[v])
<1>1. reconciler' \in [Reconcilers -> ReconcilerRecord]
  BY DEF ReconcilerRecord
<1>2. \A v \in Reconcilers : reconciler'[v] = IF v = w THEN to ELSE reconciler[v]
  OBVIOUS
<1> QED BY <1>1, <1>2

LEMMA ReconcilerTypes ==
    ASSUME PersonTInv, NEW w \in Reconcilers,
           \/ \E r \in Roots : StartEnrichment(w, r) \/ StartReconciliation(w, r)
           \/ PersistPerson(w) \/ QueryPeers(w) \/ Propose(w) \/ Verify(w)
           \/ AcceptVerified(w) \/ MergeVerified(w) \/ Abandon(w)
    PROVE  reconciler' \in [Reconcilers -> ReconcilerRecord] /\ \A v \in Reconcilers : Informed(reconciler'[v])
<1> DEFINE m == reconciler[w]
<1>0. /\ reconciler \in [Reconcilers -> ReconcilerRecord] /\ \A v \in Reconcilers : Informed(reconciler[v])
      /\ m \in ReconcilerRecord /\ Informed(m)
  BY DEF PersonTInv
<1>a. live \subseteq People /\ claim \in [Roots \cup Links -> People \cup {Nobody}]
  BY DEF PersonTInv, Tables
<1>b. Idle \in ReconcilerRecord /\ Informed(Idle) /\ Idle.todo = {}
  BY DEF Idle, ReconcilerRecord, Informed
<1> SUFFICES \E to \in ReconcilerRecord : Informed(to) /\ reconciler' = [reconciler EXCEPT ![w] = to]
  BY <1>0, StepInforms
<1>1. ASSUME NEW r \in Roots, StartEnrichment(w, r)
      PROVE  \E to \in ReconcilerRecord : Informed(to) /\ reconciler' = [reconciler EXCEPT ![w] = to]
  <2> DEFINE to == [Idle EXCEPT !.pc = "fetched", !.root = r, !.person = claim[r]]
  <2>1. reconciler' = [reconciler EXCEPT ![w] = to] /\ claim[r] \in People
    BY <1>1, <1>a DEF StartEnrichment, Step
  <2>2. to \in ReconcilerRecord /\ Informed(to)
    BY <2>1 DEF Idle, ReconcilerRecord, Informed
  <2> QED BY <2>1, <2>2
<1>2. ASSUME NEW p \in Roots, StartReconciliation(w, p)
      PROVE  \E to \in ReconcilerRecord : Informed(to) /\ reconciler' = [reconciler EXCEPT ![w] = to]
  <2> DEFINE to == [Idle EXCEPT !.pc = "query", !.person = p]
  <2>1. reconciler' = [reconciler EXCEPT ![w] = to]
    BY <1>2 DEF StartReconciliation, Step
  <2>2. to \in ReconcilerRecord /\ Informed(to)
    BY DEF Idle, ReconcilerRecord, Informed, People
  <2> QED BY <2>1, <2>2
<1>3. CASE PersistPerson(w)
  <2> DEFINE to == [Idle EXCEPT !.pc = "query", !.person = m.person]
  <2>1. reconciler' = [reconciler EXCEPT ![w] = to] /\ m.pc = "fetched"
    BY <1>3 DEF PersistPerson, Step
  <2>2. m.person \in People
    BY <1>0, <2>1 DEF Informed
  <2>3. to \in ReconcilerRecord /\ Informed(to)
    BY <2>2 DEF Idle, ReconcilerRecord, Informed
  <2> QED BY <2>1, <2>3
<1>4. CASE QueryPeers(w)
  <2>1. PICK verdict \in [live \ {m.person} -> {"none", "review", "automatic"}] :
           Step(w, "query", [m EXCEPT !.pc = "propose",
              !.todo = {<<q, verdict[q]>> : q \in {x \in live \ {m.person} : verdict[x] # "none"}}])
    BY <1>4 DEF QueryPeers
  <2>2. PICK todo : todo = {<<q, verdict[q]>> : q \in {x \in live \ {m.person} : verdict[x] # "none"}}
    OBVIOUS
  <2>3. \A t \in todo : t \in People \X {"review", "automatic"} /\ t[1] # m.person
    BY <1>a, <2>2
  <2> DEFINE to == [m EXCEPT !.pc = "propose", !.todo = todo]
  <2>4. reconciler' = [reconciler EXCEPT ![w] = to] /\ m.pc = "query"
    BY <2>1, <2>2 DEF Step
  <2>5. to \in ReconcilerRecord
    BY <1>0, <2>3 DEF ReconcilerRecord
  <2>6. Informed(to)
    BY <1>0, <2>3, <2>4 DEF Informed, ReconcilerRecord
  <2> QED BY <2>4, <2>5, <2>6
<1>5. CASE Propose(w)
  <2>1. PICK t \in m.todo :
           Step(w, "propose", [m EXCEPT !.todo = @ \ {t},
                !.verified = IF Open({m.person, t[1]}) /\ t[2] = "automatic" THEN @ \cup {{m.person, t[1]}} ELSE @])
    BY <1>5 DEF Propose
  <2>2. PICK verified : verified = IF Open({m.person, t[1]}) /\ t[2] = "automatic"
                                   THEN m.verified \cup {{m.person, t[1]}} ELSE m.verified
    OBVIOUS
  <2> DEFINE to == [m EXCEPT !.todo = m.todo \ {t}, !.verified = verified]
  <2>3. reconciler' = [reconciler EXCEPT ![w] = to] /\ m.pc = "propose"
    BY <2>1, <2>2 DEF Step
  <2>4. {m.person, t[1]} \in Pairs
    BY <1>0, <2>3, PairIsTwo DEF Informed, ReconcilerRecord
  <2>5. verified \subseteq Pairs
    BY <1>0, <2>2, <2>4 DEF ReconcilerRecord
  <2>6. to \in ReconcilerRecord /\ Informed(to)
    BY <1>0, <2>3, <2>5 DEF Informed, ReconcilerRecord
  <2> QED BY <2>3, <2>6
<1>6. CASE Verify(w)
  <2>1. CASE Step(w, "propose", Idle)
    BY <2>1, <1>b DEF Step
  <2>2. ASSUME NEW pair \in m.verified,
               Step(w, "propose", [m EXCEPT !.verified = @ \ {pair}])
        PROVE  \E to \in ReconcilerRecord : Informed(to) /\ reconciler' = [reconciler EXCEPT ![w] = to]
    <3> DEFINE to == [m EXCEPT !.verified = @ \ {pair}]
    <3>1. reconciler' = [reconciler EXCEPT ![w] = to] /\ m.pc = "propose"
      BY <2>2 DEF Step
    <3>2. to \in ReconcilerRecord /\ Informed(to)
      BY <1>0, <3>1 DEF Informed, ReconcilerRecord
    <3> QED BY <3>1, <3>2
  <2>3. ASSUME NEW pair \in m.verified, NEW both, both = {CanonicalID(p) : p \in pair},
               ~(Nobody \in both \/ Cardinality(both) = 1), NEW s \in Preferred(both),
               Step(w, "propose", [[m EXCEPT !.verified = @ \ {pair}]
                                      EXCEPT !.pc = "accept", !.pair = both, !.survivor = s])
        PROVE  \E to \in ReconcilerRecord : Informed(to) /\ reconciler' = [reconciler EXCEPT ![w] = to]
    <3>1. pair \in Pairs
      BY <1>0 DEF ReconcilerRecord
    <3>2. \A p : CanonicalID(p) \in live \cup {Nobody}
      BY DEF CanonicalID
    <3>3. PICK p, q \in People : p # q /\ pair = {p, q}
      BY <3>1, PairIsTwo
    <3>4. PICK x, y : x = CanonicalID(p) /\ y = CanonicalID(q)
      OBVIOUS
    <3>5. both = {x, y}
      BY <2>3, <3>3, <3>4
    <3>6. x \in People /\ y \in People
      BY <2>3, <3>2, <3>4, <3>5, <1>a
    <3>7. x # y
      BY <2>3, <3>5, FS_Singleton
    <3>8. both \in Pairs /\ both \subseteq People
      BY <3>5, <3>6, <3>7, PairIsTwo
    <3>9. s \in both
      BY DEF Preferred
    <3> DEFINE to == [m EXCEPT !.verified = m.verified \ {pair}, !.pc = "accept", !.pair = both, !.survivor = s]
    <3>10. reconciler' = [reconciler EXCEPT ![w] = to] /\ m.pc = "propose"
      BY <2>3 DEF Step
    <3>11. to \in ReconcilerRecord /\ Informed(to)
      BY <1>0, <3>8, <3>9, <3>10 DEF Informed, ReconcilerRecord
    <3> QED BY <3>10, <3>11
  <2>4. \/ Step(w, "propose", Idle)
        \/ \E pair \in m.verified : Step(w, "propose", [m EXCEPT !.verified = @ \ {pair}])
        \/ \E pair \in m.verified : \E both : both = {CanonicalID(p) : p \in pair} /\
              ~(Nobody \in both \/ Cardinality(both) = 1) /\ \E s \in Preferred(both) :
                Step(w, "propose", [[m EXCEPT !.verified = @ \ {pair}]
                                      EXCEPT !.pc = "accept", !.pair = both, !.survivor = s])
    BY <1>6 DEF Verify
  <2> QED BY <2>1, <2>2, <2>3, <2>4
<1>7. CASE AcceptVerified(w)
  <2> DEFINE next == [m EXCEPT !.pc = "propose", !.pair = {}, !.survivor = Nobody]
  <2>1. m.pc = "accept" /\ (reconciler' = [reconciler EXCEPT ![w] = next]
                            \/ reconciler' = [reconciler EXCEPT ![w] = [next EXCEPT !.pc = "merge"]])
    BY <1>7 DEF AcceptVerified, Step
  <2>2. /\ next \in ReconcilerRecord /\ Informed(next)
        /\ [next EXCEPT !.pc = "merge"] \in ReconcilerRecord /\ Informed([next EXCEPT !.pc = "merge"])
    BY <1>0, <2>1 DEF Informed, ReconcilerRecord
  <2> QED BY <2>1, <2>2
<1>8. CASE MergeVerified(w)
  <2> DEFINE to == [m EXCEPT !.pc = "propose"]
  <2>1. reconciler' = [reconciler EXCEPT ![w] = to] /\ m.pc = "merge"
    BY <1>8 DEF MergeVerified, Step
  <2>2. to \in ReconcilerRecord /\ Informed(to)
    BY <1>0, <2>1 DEF Informed, ReconcilerRecord
  <2> QED BY <2>1, <2>2
<1>9. CASE Abandon(w)
  BY <1>9, <1>b DEF Abandon
<1> QED BY <1>1, <1>2, <1>3, <1>4, <1>5, <1>6, <1>7, <1>8, <1>9

\* Opening a merge: the record of it, and whom it retires.
LEMMA OpenMergeIs ==
    ASSUME PersonTInv, NEW a \in Actors, NEW pair \in Pairs, NEW s \in pair, OpenMerge(a, pair, s)
    PROVE  \E p \in People, m \in MergeRecord :
              /\ merge' = [merge EXCEPT ![a] = m] /\ \A b \in Actors : merge[b] = NotMerging
              /\ p # s /\ pair = {p, s} /\ m.pair = pair /\ m.survivor = s /\ Retired(m) = {p}
              /\ m.claims = {i \in Roots \cup Links : claim[i] = p}
              /\ m.credits = {r \in Credited : credit[r] = p /\ projection[r] = Nobody}
              /\ m.proposals = {x \in Pairs \ {pair} : p \in x /\ candidates[x] = "proposed"}
              /\ candidates[pair] = "proposed" /\ pair \subseteq live
<1>1. PICK p \in pair \ {s} :
        merge' = [merge EXCEPT ![a] =
              [pair |-> pair, survivor |-> s,
               claims |-> {i \in Roots \cup Links : claim[i] = p},
               credits |-> {r \in Credited : credit[r] = p /\ projection[r] = Nobody},
               proposals |-> {x \in Pairs \ {pair} : p \in x /\ candidates[x] = "proposed"}]]
  BY DEF OpenMerge
<1> DEFINE m == [pair |-> pair, survivor |-> s,
                 claims |-> {i \in Roots \cup Links : claim[i] = p},
                 credits |-> {r \in Credited : credit[r] = p /\ projection[r] = Nobody},
                 proposals |-> {x \in Pairs \ {pair} : p \in x /\ candidates[x] = "proposed"}]
<1>2. PICK q, o \in People : q # o /\ pair = {q, o}
  BY PairIsTwo
<1>3. p \in People /\ s \in People /\ p # s /\ pair = {p, s}
  BY <1>2
<1>4. m \in MergeRecord
  BY <1>3 DEF MergeRecord
<1>5. /\ m.pair = pair /\ m.survivor = s
      /\ m.claims = {i \in Roots \cup Links : claim[i] = p}
      /\ m.credits = {r \in Credited : credit[r] = p /\ projection[r] = Nobody}
      /\ m.proposals = {x \in Pairs \ {pair} : p \in x /\ candidates[x] = "proposed"}
  OBVIOUS
<1>6. merge' = [merge EXCEPT ![a] = m]
  BY <1>1
<1> HIDE DEF m
<1>7. Retired(m) = {p}
  BY <1>3, <1>5 DEF Retired
<1>8. /\ \A b \in Actors : merge[b] = NotMerging
      /\ candidates[pair] = "proposed" /\ pair \subseteq live
  BY DEF OpenMerge, Active
<1> QED BY <1>3, <1>4, <1>5, <1>6, <1>7, <1>8

LEMMA MergeTypes ==
    ASSUME PersonTInv, NEW a \in Actors, merge' = [merge EXCEPT ![a] = NotMerging] \/
                 \E m \in MergeRecord : merge' = [merge EXCEPT ![a] = m]
    PROVE  merge' \in [Actors -> MergeRecord]
<1>1. NotMerging \in MergeRecord /\ merge \in [Actors -> MergeRecord]
  BY DEF PersonTInv, NotMerging, MergeRecord
<1> QED BY <1>1

\* What commits with a merge.
LEMMA CommitMergeTypes ==
    ASSUME PersonTInv, MInv, NEW a \in Actors, CommitMerge(a)
    PROVE  Tables' /\ merge' \in [Actors -> MergeRecord]
<1> DEFINE m == merge[a]
<1>1. /\ m # NotMerging /\ m \in MergeRecord /\ m.survivor \in People
  <2>1. m # NotMerging /\ m \in MergeRecord
    BY DEF CommitMerge, PersonTInv
  <2>2. m.survivor \in m.pair
    BY <2>1 DEF MInv, StillProposed
  <2> QED BY <2>1, <2>2 DEF MergeRecord
<1>2. /\ claim' = [i \in Roots \cup Links |-> IF i \in m.claims THEN m.survivor ELSE claim[i]]
      /\ credit' = [r \in Credited |-> IF r \in m.credits THEN m.survivor ELSE credit[r]]
      /\ candidates' = Carried(m) /\ live' = live \ Retired(m)
      /\ redirect' = [p \in People |-> IF p \in Retired(m) THEN m.survivor ELSE redirect[p]]
      /\ projection' = projection /\ merge' = [merge EXCEPT ![a] = NotMerging]
  BY DEF CommitMerge
<1>3. candidates' \in [Pairs -> States]
  <2>1. \A x \in Pairs : Carried(m)[x] \in States
    BY DEF Carried, PersonTInv, Tables, States
  <2>2. Carried(m) = [x \in Pairs |-> Carried(m)[x]]
    BY DEF Carried
  <2> QED BY <1>2, <2>1, <2>2
<1> HIDE DEF m
<1>4. Tables'
  BY <1>1, <1>2, <1>3 DEF PersonTInv, Tables
<1> QED BY <1>2, <1>4, MergeTypes

LEMMA AcceptTypes ==
    ASSUME PersonTInv, \/ \E pair \in Pairs : \E s \in pair : Accept(pair, s)
                 \/ \E w \in Reconcilers : AcceptVerified(w) \/ Abandon(w)
    PROVE  merge' \in [Actors -> MergeRecord]
<1>1. ASSUME NEW pair \in Pairs, NEW s \in pair, Accept(pair, s) PROVE merge' \in [Actors -> MergeRecord]
  <2>1. OpenMerge(Moderator, pair, s) /\ Moderator \in Actors
    BY <1>1 DEF Accept, Actors
  <2> QED BY <2>1, OpenMergeIs, MergeTypes
<1>2. ASSUME NEW w \in Reconcilers, AcceptVerified(w) PROVE merge' \in [Actors -> MergeRecord]
  <2>1. reconciler[w].pair \in Pairs /\ reconciler[w].survivor \in reconciler[w].pair /\ w \in Actors
    BY <1>2 DEF AcceptVerified, Step, PersonTInv, Informed, Actors
  <2>2. CASE OpenMerge(w, reconciler[w].pair, reconciler[w].survivor)
    BY <2>1, <2>2, OpenMergeIs, MergeTypes
  <2>3. CASE merge' = merge
    BY <2>3 DEF PersonTInv
  <2> QED BY <1>2, <2>2, <2>3 DEF AcceptVerified
<1>3. ASSUME NEW w \in Reconcilers, Abandon(w) PROVE merge' \in [Actors -> MergeRecord]
  BY <1>3, MergeTypes DEF Abandon, Actors
<1> QED BY <1>1, <1>2, <1>3

LEMMA TypeStep ==
    ASSUME PersonTInv, MInv, [PersonNext]_personVars
    PROVE  PersonTInv'
<1>0. /\ Tables /\ merge \in [Actors -> MergeRecord]
      /\ reconciler \in [Reconcilers -> ReconcilerRecord] /\ \A w \in Reconcilers : Informed(reconciler[w])
      /\ \A p \in People : p \in Roots
  BY DEF PersonTInv, People
<1>1. ASSUME NEW r \in Credited, AttachCredit(r) PROVE PersonTInv'
  <2>1. r \in Roots /\ r \in People
    BY PersonAssumption DEF People
  <2>2. projection' \in [Credited -> People \cup {Nobody}]
    BY <1>0, <1>1, <2>1 DEF AttachCredit, Tables
  <2> QED BY <1>0, <1>1, <2>2 DEF AttachCredit, PersonTInv, Tables
<1>2. ASSUME NEW r \in Credited, CommitCredit(r) PROVE PersonTInv'
  <2>1. r \in Roots /\ projection[r] \in People
    BY <1>0, <1>2, PersonAssumption DEF Tables, CommitCredit
  <2>2. projection' \in [Credited -> People \cup {Nobody}] /\ credit' \in [Credited -> People \cup {Nobody}]
    BY <1>0, <1>2, <2>1 DEF CommitCredit, Tables
  <2>3. claim' \in [Roots \cup Links -> People \cup {Nobody}] /\ live' \subseteq People
    BY <1>0, <1>2, <2>1 DEF CommitCredit, Tables
  <2>4. UNCHANGED <<redirect, candidates, reconciler, merge>>
    BY <1>2 DEF CommitCredit
  <2> QED BY <1>0, <2>2, <2>3, <2>4 DEF PersonTInv, Tables
<1>3. ASSUME NEW w \in Reconcilers,
             \/ \E r \in Roots : StartEnrichment(w, r) \/ StartReconciliation(w, r)
             \/ QueryPeers(w) \/ Verify(w)
      PROVE  PersonTInv'
  <2>1. UNCHANGED <<live, redirect, claim, credit, projection, candidates, merge>>
    BY <1>3 DEF StartEnrichment, StartReconciliation, QueryPeers, Verify
  <2> QED BY <1>0, <1>3, <2>1, ReconcilerTypes DEF PersonTInv, Tables
<1>4. ASSUME NEW w \in Reconcilers, PersistPerson(w) PROVE PersonTInv'
  <2>1. reconciler[w].person \in People
    BY <1>0, <1>4 DEF PersistPerson, Step, Informed
  <2>2. claim' \in [Roots \cup Links -> People \cup {Nobody}]
    BY <1>0, <1>4, <2>1 DEF PersistPerson, Tables
  <2>3. UNCHANGED <<live, redirect, credit, projection, candidates, merge>>
    BY <1>4 DEF PersistPerson
  <2> QED BY <1>0, <1>4, <2>2, <2>3, ReconcilerTypes DEF PersonTInv, Tables
<1>5. ASSUME NEW w \in Reconcilers, Propose(w) PROVE PersonTInv'
  <2>1. /\ UNCHANGED <<live, redirect, claim, credit, projection, merge>>
        /\ candidates' \in [Pairs -> States]
    BY <1>0, <1>5 DEF Propose, Tables, States
  <2> QED BY <1>0, <1>5, <2>1, ReconcilerTypes DEF PersonTInv, Tables
<1>6. ASSUME NEW w \in Reconcilers, AcceptVerified(w) \/ Abandon(w) PROVE PersonTInv'
  <2>1. UNCHANGED <<live, redirect, claim, credit, projection, candidates>>
    BY <1>6 DEF AcceptVerified, Abandon
  <2>2. merge' \in [Actors -> MergeRecord]
    BY <1>6, AcceptTypes
  <2> QED BY <1>0, <1>6, <2>1, <2>2, ReconcilerTypes DEF PersonTInv, Tables
<1>7. ASSUME NEW w \in Reconcilers, MergeVerified(w) PROVE PersonTInv'
  <2>1. CommitMerge(w) /\ w \in Actors
    BY <1>7 DEF MergeVerified, Actors
  <2> QED BY <1>7, <2>1, CommitMergeTypes, ReconcilerTypes DEF PersonTInv
<1>8. ASSUME NEW pair \in Pairs, RejectReconciliation(pair) PROVE PersonTInv'
  BY <1>0, <1>8 DEF RejectReconciliation, PersonTInv, Tables, States
<1>9. ASSUME NEW pair \in Pairs, NEW s \in pair, Accept(pair, s) PROVE PersonTInv'
  <2>1. UNCHANGED <<live, redirect, claim, credit, projection, candidates, reconciler>>
    BY <1>9 DEF Accept
  <2>2. merge' \in [Actors -> MergeRecord]
    BY <1>9, AcceptTypes
  <2> QED BY <1>0, <2>1, <2>2 DEF PersonTInv, Tables
<1>10. ASSUME MergeModerated PROVE PersonTInv'
  <2>1. CommitMerge(Moderator) /\ Moderator \in Actors /\ reconciler' = reconciler
    BY <1>10 DEF MergeModerated, Actors
  <2> QED BY <1>0, <2>1, CommitMergeTypes DEF PersonTInv
<1>11. CASE UNCHANGED personVars
  BY <1>0, <1>11 DEF personVars, PersonTInv, Tables
<1> QED BY <1>1, <1>2, <1>3, <1>4, <1>5, <1>6, <1>7, <1>8, <1>9, <1>10, <1>11 DEF PersonNext

-----------------------------------------------------------------------------
(* Decisions. An open merge holds the rows it will decide, and there is one.  *)

\* A row written between the opening and the commit of a merge is not one it holds.
LEMMA UnlockedWrite ==
    ASSUME PersonTInv, MInv, NEW x \in Pairs, ~RowLocked(x), NEW v,
           candidates' = [candidates EXCEPT ![x] = v], merge' = merge, live \subseteq live'
    PROVE  MInv'
<1>1. ASSUME NEW a \in Actors, merge[a] # NotMerging PROVE StillProposed(a)'
  <2>1. /\ x # merge[a].pair /\ x \notin merge[a].proposals
        /\ merge[a].pair \in Pairs /\ merge[a].proposals \subseteq Pairs
    BY <1>1 DEF RowLocked, MInv, StillProposed, PersonTInv, MergeRecord
  <2>2. \A y \in Pairs : y # x => candidates'[y] = candidates[y]
    BY DEF PersonTInv, Tables
  <2> QED BY <1>1, <2>1, <2>2 DEF MInv, StillProposed
<1>2. OneMerge'
  BY DEF MInv, OneMerge
<1> QED BY <1>1, <1>2 DEF MInv, StillProposed

LEMMA OpenMergeHolds ==
    ASSUME PersonTInv, MInv, NEW a \in Actors, NEW pair \in Pairs, NEW s \in pair, OpenMerge(a, pair, s),
           UNCHANGED <<live, candidates>>
    PROVE  MInv'
<1>1. PICK p \in People, m \in MergeRecord :
              /\ merge' = [merge EXCEPT ![a] = m] /\ \A b \in Actors : merge[b] = NotMerging
              /\ p # s /\ pair = {p, s} /\ m.pair = pair /\ m.survivor = s /\ Retired(m) = {p}
              /\ m.claims = {i \in Roots \cup Links : claim[i] = p}
              /\ m.credits = {r \in Credited : credit[r] = p /\ projection[r] = Nobody}
              /\ m.proposals = {x \in Pairs \ {pair} : p \in x /\ candidates[x] = "proposed"}
              /\ candidates[pair] = "proposed" /\ pair \subseteq live
  BY OpenMergeIs
<1>2. merge'[a] = m /\ \A b \in Actors \ {a} : merge'[b] = NotMerging
  BY <1>1 DEF PersonTInv
<1>3. OneMerge'
  BY <1>2 DEF OneMerge
<1>4. StillProposed(a)'
  <2>1. /\ m.pair \in Pairs /\ m.pair \subseteq live' /\ m.survivor \in m.pair
        /\ candidates'[m.pair] = "proposed" /\ m.pair \notin m.proposals
        /\ \A x \in m.proposals : candidates'[x] = "proposed" /\ Retired(m) \subseteq x
    BY <1>1
  <2> QED BY <1>2, <2>1 DEF StillProposed
<1> QED BY <1>2, <1>3, <1>4 DEF MInv, StillProposed

\* A commit decides what its merge has held; other merges are not open.
LEMMA CommitDecides ==
    ASSUME PersonTInv, MInv, NEW a \in Actors, CommitMerge(a)
    PROVE  /\ MInv'
           /\ \A x \in Pairs : candidates[x] \in {"accepted", "rejected", "superseded"}
                                   => candidates'[x] = candidates[x]
<1>1. /\ merge[a] # NotMerging /\ merge' = [merge EXCEPT ![a] = NotMerging] /\ candidates' = Carried(merge[a])
  BY DEF CommitMerge
<1>2. \A b \in Actors : merge'[b] = NotMerging
  BY <1>1 DEF MInv, OneMerge, PersonTInv
<1>3. MInv'
  BY <1>2 DEF MInv, OneMerge, StillProposed
<1>4. candidates[merge[a].pair] = "proposed" /\ \A x \in merge[a].proposals : candidates[x] = "proposed"
  BY <1>1 DEF MInv, StillProposed
<1>5. \A x \in Pairs : candidates[x] \in {"accepted", "rejected", "superseded"}
                           => Carried(merge[a])[x] = candidates[x]
  BY <1>4 DEF Carried
<1> QED BY <1>1, <1>3, <1>5

\* Each step keeps what open merges rely on, and every decision.
LEMMA DecisionStep ==
    ASSUME PersonTInv, MInv, [PersonNext]_personVars
    PROVE  /\ MInv'
           /\ \A x \in Pairs : candidates[x] \in {"accepted", "rejected", "superseded"}
                                   => candidates'[x] = candidates[x]
<1>1. ASSUME UNCHANGED <<merge, candidates>>, live \subseteq live' PROVE MInv'
  BY <1>1 DEF MInv, OneMerge, StillProposed
<1>2. ASSUME NEW r \in Credited, AttachCredit(r) \/ CommitCredit(r)
      PROVE  UNCHANGED <<merge, candidates>> /\ live \subseteq live'
  BY <1>2 DEF AttachCredit, CommitCredit
<1>3. ASSUME NEW w \in Reconcilers,
             \/ \E r \in Roots : StartEnrichment(w, r) \/ StartReconciliation(w, r)
             \/ PersistPerson(w) \/ QueryPeers(w) \/ Verify(w)
      PROVE  UNCHANGED <<merge, candidates, live>>
  BY <1>3 DEF StartEnrichment, StartReconciliation, PersistPerson, QueryPeers, Verify
<1>4. ASSUME NEW w \in Reconcilers, Propose(w)
      PROVE  /\ MInv' /\ \A x \in Pairs : candidates[x] \in {"accepted", "rejected", "superseded"}
                                               => candidates'[x] = candidates[x]
  <2>1. PICK t \in reconciler[w].todo :
           /\ ~RowLocked({reconciler[w].person, t[1]})
           /\ candidates' = IF Open({reconciler[w].person, t[1]})
                            THEN [candidates EXCEPT ![{reconciler[w].person, t[1]}] = "proposed"] ELSE candidates
           /\ reconciler[w].pc = "propose"
    BY <1>4 DEF Propose, Step
  <2>2. {reconciler[w].person, t[1]} \in Pairs
    BY <2>1, PairIsTwo DEF PersonTInv, Informed, ReconcilerRecord
  <2>3. PICK x \in Pairs : x = {reconciler[w].person, t[1]}
    BY <2>2
  <2>4. UNCHANGED <<merge, live>>
    BY <1>4 DEF Propose
  <2>5. CASE Open(x)
    <3>1. candidates' = [candidates EXCEPT ![x] = "proposed"] /\ candidates[x] \in {"none", "proposed"}
      BY <2>1, <2>3, <2>5 DEF Open
    <3>2. MInv'
      BY <2>1, <2>3, <2>4, <3>1, UnlockedWrite
    <3> QED BY <3>1, <3>2 DEF PersonTInv, Tables
  <2>6. CASE ~Open(x)
    BY <1>1, <2>1, <2>3, <2>4, <2>6
  <2> QED BY <2>5, <2>6
<1>5. ASSUME NEW w \in Reconcilers, Abandon(w) PROVE MInv' /\ candidates' = candidates
  <2>1. merge' = [merge EXCEPT ![w] = NotMerging] /\ UNCHANGED <<live, candidates>> /\ w \in Actors
    BY <1>5 DEF Abandon, Actors
  <2>2. merge'[w] = NotMerging /\ \A b \in Actors \ {w} : merge'[b] = merge[b]
    BY <2>1 DEF PersonTInv
  <2>3. OneMerge'
    BY <2>2 DEF MInv, OneMerge
  <2>4. \A b \in Actors : StillProposed(b)'
    BY <2>1, <2>2 DEF MInv, StillProposed
  <2> QED BY <2>1, <2>3, <2>4 DEF MInv
<1>6. ASSUME NEW w \in Reconcilers, AcceptVerified(w) PROVE MInv' /\ candidates' = candidates
  <2>1. reconciler[w].pair \in Pairs /\ reconciler[w].survivor \in reconciler[w].pair /\ w \in Actors
    BY <1>6 DEF AcceptVerified, Step, PersonTInv, Informed, Actors
  <2>2. UNCHANGED <<live, candidates>>
    BY <1>6 DEF AcceptVerified
  <2>3. CASE OpenMerge(w, reconciler[w].pair, reconciler[w].survivor)
    BY <2>1, <2>2, <2>3, OpenMergeHolds
  <2>4. CASE merge' = merge
    BY <1>1, <2>2, <2>4
  <2> QED BY <1>6, <2>2, <2>3, <2>4 DEF AcceptVerified
<1>7. ASSUME NEW pair \in Pairs, NEW s \in pair, Accept(pair, s) PROVE MInv' /\ candidates' = candidates
  <2>1. OpenMerge(Moderator, pair, s) /\ Moderator \in Actors /\ UNCHANGED <<live, candidates>>
    BY <1>7 DEF Accept, Actors
  <2> QED BY <2>1, OpenMergeHolds
<1>8. ASSUME NEW pair \in Pairs, RejectReconciliation(pair)
      PROVE  /\ MInv' /\ \A x \in Pairs : candidates[x] \in {"accepted", "rejected", "superseded"}
                                               => candidates'[x] = candidates[x]
  <2>1. /\ candidates[pair] = "proposed" /\ ~RowLocked(pair) /\ UNCHANGED <<live, merge>>
        /\ candidates' = [candidates EXCEPT ![pair] = "rejected"]
    BY <1>8 DEF RejectReconciliation
  <2>2. MInv'
    BY <2>1, UnlockedWrite
  <2> QED BY <2>1, <2>2 DEF PersonTInv, Tables
<1>9. ASSUME NEW w \in Reconcilers, MergeVerified(w) PROVE CommitMerge(w) /\ w \in Actors
  BY <1>9 DEF MergeVerified, Actors
<1>10. ASSUME MergeModerated PROVE CommitMerge(Moderator) /\ Moderator \in Actors
  BY <1>10 DEF MergeModerated, Actors
<1>11. CASE UNCHANGED personVars
  BY <1>1, <1>11 DEF personVars
<1>12. CASE (\E w \in Reconcilers : MergeVerified(w)) \/ MergeModerated
  BY <1>9, <1>10, <1>12, CommitDecides
<1> QED BY <1>1, <1>2, <1>3, <1>4, <1>5, <1>6, <1>7, <1>8, <1>11, <1>12 DEF PersonNext

LEMMA InitMerges == PersonInit => MInv
BY DEF PersonInit, MInv, OneMerge, StillProposed

LEMMA MergeInvariance == PersonSpec => [](PersonTInv /\ MInv)
<1>1. PersonInit => PersonTInv /\ MInv
  BY InitTypes, InitMerges
<1>2. PersonTInv /\ MInv /\ [PersonNext]_personVars => PersonTInv' /\ MInv'
  BY TypeStep, DecisionStep
<1> QED BY <1>1, <1>2, PTL DEF PersonSpec

\* Every variable has its type: identifiers, credits and redirects name people or nobody.
THEOREM PersonTypeSafety == PersonSpec => []PersonTypeOK
<1>1. PersonTInv => PersonTypeOK
  <2> SUFFICES ASSUME PersonTInv PROVE PersonTypeOK
    OBVIOUS
  <2>1. DOMAIN merge = Actors
    BY DEF PersonTInv
  <2>2. \A w \in Reconcilers : reconciler[w].pc \in {"idle", "fetched", "query", "propose", "accept", "merge"}
    BY DEF PersonTInv, ReconcilerRecord
  <2> QED BY <2>1, <2>2 DEF PersonTInv, Tables, States, PersonTypeOK
<1> QED BY <1>1, MergeInvariance, PTL

\* A decided pair keeps its decision, whatever reconcilers, moderators and merges of other
\* pairs do (AcceptReconciliation and its upserts, internal/people/moderation.go).
THEOREM DecisionsSafety == PersonSpec => DecisionsStand
<1>1. PersonTInv /\ MInv /\ [PersonNext]_personVars =>
        [\A pair \in Pairs : candidates[pair] \in {"accepted", "rejected", "superseded"}
          => candidates'[pair] = candidates[pair]]_personVars
  BY DecisionStep
<1> QED BY <1>1, MergeInvariance, PTL DEF PersonSpec, DecisionsStand

-----------------------------------------------------------------------------
(* What a merge leaves behind. *)

LEMMA InitLate == PersonInit => LateInv
<1> SUFFICES ASSUME PersonInit PROVE LateInv
  OBVIOUS
<1>1. \A a \in Actors : Retired(merge[a]) = {}
  BY DEF PersonInit, NotMerging, Retired
<1>2. \A a \in Actors : ClaimsMove(a) /\ CreditsMove(a) /\ ProposalsMove(a)
  BY <1>1 DEF ClaimsMove, CreditsMove, ProposalsMove
<1>3. NamedByClaim
  BY PersonAssumption DEF PersonInit, NamedByClaim
<1>4. ClaimsLive
  BY DEF PersonInit, ClaimsLive
<1>5. CreditsLive /\ ProposalsLive
  BY DEF PersonInit, CreditsLive, ProposalsLive
<1> QED BY <1>2, <1>3, <1>4, <1>5 DEF LateInv

\* Whoever an open merge retires is live.
LEMMA RetiredAreLive ==
    ASSUME PersonTInv, MInv, NEW a \in Actors
    PROVE  Retired(merge[a]) \subseteq live
BY DEF MInv, StillProposed, Retired, NotMerging

LEMMA NotTooLate ==
    ASSUME NEW p, ~TooLate(p)
    PROVE  p \in live /\ \A a \in Actors : p \notin Retired(merge[a])
BY DEF TooLate, Retiring

LEMMA AttachKeeps ==
    ASSUME PersonTInv, MInv, LateInv, NEW r \in Credited, AttachCredit(r)
    PROVE  LateInv'
<1>1. /\ projection' = [projection EXCEPT ![r] = IF claim[r] = Nobody THEN r ELSE claim[r]]
      /\ UNCHANGED <<live, claim, credit, candidates, merge, late>>
      /\ r \in Roots /\ r # Nobody
  BY PersonAssumption DEF AttachCredit
<1>2. /\ projection'[r] # Nobody /\ (claim[r] = Nobody => projection'[r] = r)
      /\ \A q \in Credited \ {r} : projection'[q] = projection[q]
  BY <1>1 DEF PersonTInv, Tables
<1>3. \A a \in Actors : ClaimsMove(a)' /\ ProposalsMove(a)'
  BY <1>1 DEF LateInv, ClaimsMove, ProposalsMove
<1>4. \A a \in Actors : CreditsMove(a)'
  BY <1>1, <1>2 DEF LateInv, CreditsMove
<1>5. NamedByClaim'
  BY <1>1, <1>2 DEF LateInv, NamedByClaim
<1>6. ClaimsLive' /\ CreditsLive' /\ ProposalsLive'
  BY <1>1 DEF LateInv, ClaimsLive, CreditsLive, ProposalsLive
<1> QED BY <1>3, <1>4, <1>5, <1>6 DEF LateInv

LEMMA CommitCreditKeeps ==
    ASSUME PersonTInv, MInv, LateInv, NEW r \in Credited, CommitCredit(r)
    PROVE  LateInv'
<1>0. PICK p \in People : p = projection[r]
  BY DEF PersonTInv, Tables, CommitCredit
<1>1. /\ projection' = [projection EXCEPT ![r] = Nobody] /\ credit' = [credit EXCEPT ![r] = p]
      /\ UNCHANGED <<candidates, merge>> /\ r \in Roots /\ p # Nobody
  BY <1>0, PersonAssumption DEF CommitCredit
<1>2. /\ projection'[r] = Nobody /\ credit'[r] = p
      /\ \A q \in Credited \ {r} : projection'[q] = projection[q] /\ credit'[q] = credit[q]
  BY <1>1 DEF PersonTInv, Tables
<1>3. CASE claim[r] = Nobody
  <2>1. p = r /\ r \notin live
    BY <1>0, <1>1, <1>3 DEF LateInv, NamedByClaim
  <2>2. claim' = [claim EXCEPT ![r] = p] /\ live' = live \cup {p} /\ late' = late \ {<<"credit", r>>}
    BY <1>0, <1>3 DEF CommitCredit
  <2>3. claim'[r] = p /\ \A i \in (Roots \cup Links) \ {r} : claim'[i] = claim[i]
    BY <1>1, <2>2 DEF PersonTInv, Tables
  <2>4. \A a \in Actors : p \notin Retired(merge[a])
    BY <2>1, RetiredAreLive
  <2>5. \A a \in Actors : ClaimsMove(a)'
    BY <1>1, <2>2, <2>3, <2>4 DEF LateInv, ClaimsMove
  <2>6. \A a \in Actors : CreditsMove(a)'
    BY <1>1, <1>2, <2>2, <2>4 DEF LateInv, CreditsMove
  <2>7. \A a \in Actors : ProposalsMove(a)'
    BY <1>1, <2>2 DEF LateInv, ProposalsMove
  <2>8. NamedByClaim'
    BY <1>1, <1>2, <2>1, <2>2, <2>3 DEF LateInv, NamedByClaim
  <2>9. ClaimsLive'
    BY <2>2, <2>3 DEF LateInv, ClaimsLive
  <2>10. CreditsLive' /\ ProposalsLive'
    BY <1>1, <1>2, <2>2 DEF LateInv, CreditsLive, ProposalsLive
  <2> QED BY <2>5, <2>6, <2>7, <2>8, <2>9, <2>10 DEF LateInv
<1>4. CASE claim[r] # Nobody
  <2>1. UNCHANGED <<claim, live>>
    BY <1>4 DEF CommitCredit
  <2>2. \A k : k[1] # "credit" => (k \in late' <=> k \in late)
    <3>1. late' = late \cup {<<"credit", r>>} \/ late' = late \ {<<"credit", r>>}
      BY <1>4 DEF CommitCredit
    <3>2. <<"credit", r>>[1] = "credit"
      OBVIOUS
    <3> QED BY <3>1, <3>2
  <2>3. \A q \in Credited \ {r} : <<"credit", q>> \in late => <<"credit", q>> \in late'
    BY <1>4 DEF CommitCredit
  <2>4. \A i : <<"claim", i>> \in late <=> <<"claim", i>> \in late'
    <3>1. \A i : <<"claim", i>>[1] # "credit"
      OBVIOUS
    <3> QED BY <2>2, <3>1
  <2>5. \A x : <<"proposal", x>> \in late <=> <<"proposal", x>> \in late'
    <3>1. \A i : <<"proposal", i>>[1] # "credit"
      OBVIOUS
    <3> QED BY <2>2, <3>1
  <2>6. <<"credit", r>> \in late' \/ (p \in live /\ \A a \in Actors : p \notin Retired(merge[a]))
    <3>1. CASE TooLate(p)
      BY <1>0, <1>4, <3>1 DEF CommitCredit
    <3> QED BY <3>1, NotTooLate
  <2>7. \A a \in Actors : ClaimsMove(a)' /\ ProposalsMove(a)'
    BY <1>1, <2>1, <2>4, <2>5 DEF LateInv, ClaimsMove, ProposalsMove
  <2>8. \A a \in Actors : CreditsMove(a)'
    BY <1>1, <1>2, <2>3, <2>6 DEF LateInv, CreditsMove
  <2>9. NamedByClaim'
    BY <1>1, <1>2, <2>1 DEF LateInv, NamedByClaim
  <2>10. ClaimsLive' /\ ProposalsLive'
    BY <1>1, <2>1, <2>4, <2>5 DEF LateInv, ClaimsLive, ProposalsLive
  <2>11. CreditsLive'
    BY <1>1, <1>2, <2>1, <2>3, <2>6 DEF LateInv, CreditsLive
  <2> QED BY <2>7, <2>8, <2>9, <2>10, <2>11 DEF LateInv
<1> QED BY <1>3, <1>4

LEMMA PersistKeeps ==
    ASSUME PersonTInv, MInv, LateInv, NEW w \in Reconcilers, PersistPerson(w)
    PROVE  LateInv'
<1>0. PICK p \in People : p = reconciler[w].person
  BY DEF PersistPerson, Step, PersonTInv, Informed
<1>1. PICK new : new = {i \in LinksOf[reconciler[w].root] : claim[i] = Nobody}
  OBVIOUS
<1>2. /\ claim' = [i \in Roots \cup Links |-> IF i \in new THEN p ELSE claim[i]]
      /\ late' = IF TooLate(p) THEN late \cup {<<"claim", i>> : i \in new} ELSE late
      /\ UNCHANGED <<live, credit, projection, candidates, merge>>
  BY <1>0, <1>1 DEF PersistPerson
<1>3. new \subseteq Links
  BY <1>1, PersonAssumption DEF PersistPerson, Step, PersonTInv, Informed
<1>4. late \subseteq late'
  BY <1>2
<1>5. \A i \in new : \/ <<"claim", i>> \in late'
                     \/ p \in live /\ \A a \in Actors : p \notin Retired(merge[a])
  <2>1. ASSUME TooLate(p), NEW i \in new PROVE <<"claim", i>> \in late'
    <3>1. late' = late \cup {<<"claim", k>> : k \in new}
      BY <1>2, <2>1
    <3> QED BY <3>1
  <2>2. ~TooLate(p) => p \in live /\ \A a \in Actors : p \notin Retired(merge[a])
    BY NotTooLate
  <2>3. CASE TooLate(p)
    BY <2>1, <2>3
  <2>4. CASE ~TooLate(p)
    BY <2>2, <2>4
  <2> QED BY <2>3, <2>4
<1>6. \A a \in Actors : ClaimsMove(a)'
  BY <1>2, <1>4, <1>5 DEF LateInv, ClaimsMove
<1>7. \A a \in Actors : CreditsMove(a)' /\ ProposalsMove(a)'
  BY <1>2, <1>4 DEF LateInv, CreditsMove, ProposalsMove
<1>8. NamedByClaim'
  BY <1>2, <1>3, PersonAssumption DEF LateInv, NamedByClaim
<1>9. ClaimsLive'
  BY <1>2, <1>4, <1>5 DEF LateInv, ClaimsLive
<1>10. CreditsLive' /\ ProposalsLive'
  BY <1>2, <1>4 DEF LateInv, CreditsLive, ProposalsLive
<1> QED BY <1>6, <1>7, <1>8, <1>9, <1>10 DEF LateInv

LEMMA ProposeKeeps ==
    ASSUME PersonTInv, MInv, LateInv, NEW w \in Reconcilers, Propose(w)
    PROVE  LateInv'
<1> DEFINE Proposes(t, x) ==
           /\ x = {reconciler[w].person, t[1]} /\ ~RowLocked(x) /\ reconciler[w].pc = "propose"
           /\ candidates' = IF Open(x) THEN [candidates EXCEPT ![x] = "proposed"] ELSE candidates
           /\ late' = IF candidates[x] = "none" /\ \E p \in x : TooLate(p)
                      THEN late \cup {<<"proposal", x>>} ELSE late
<1>0. PICK t \in reconciler[w].todo : \E x : Proposes(t, x)
  BY DEF Propose, Step
<1>1. PICK x : Proposes(t, x)
  BY <1>0
<1>2. UNCHANGED <<live, claim, credit, projection, merge>> /\ late \subseteq late'
  BY <1>1 DEF Propose
<1>3. x \in Pairs
  BY <1>1, PairIsTwo DEF PersonTInv, Informed, ReconcilerRecord
<1>4. \A y \in Pairs : candidates'[y] = "proposed" => candidates[y] = "proposed" \/ (y = x /\ candidates[x] = "none")
  BY <1>1, <1>3 DEF PersonTInv, Tables, Open
<1>5. candidates[x] = "none" => \/ <<"proposal", x>> \in late'
                                \/ x \subseteq live /\ \A a \in Actors : x \cap Retired(merge[a]) = {}
  <2>1. ASSUME candidates[x] = "none", \E p \in x : TooLate(p) PROVE <<"proposal", x>> \in late'
    <3>1. late' = late \cup {<<"proposal", x>>}
      BY <1>1, <2>1
    <3> QED BY <3>1
  <2>2. ASSUME \A p \in x : ~TooLate(p) PROVE x \subseteq live /\ \A a \in Actors : x \cap Retired(merge[a]) = {}
    <3>1. \A p \in x : p \in live /\ \A a \in Actors : p \notin Retired(merge[a])
      BY <2>2, NotTooLate
    <3> QED BY <3>1
  <2>3. CASE \E p \in x : TooLate(p)
    BY <2>1, <2>3
  <2>4. CASE ~\E p \in x : TooLate(p)
    BY <2>2, <2>4
  <2> QED BY <2>3, <2>4
<1>6. \A a \in Actors : ClaimsMove(a)' /\ CreditsMove(a)'
  BY <1>2 DEF LateInv, ClaimsMove, CreditsMove
<1>7. \A a \in Actors : ProposalsMove(a)'
  BY <1>2, <1>4, <1>5 DEF LateInv, ProposalsMove
<1>8. NamedByClaim' /\ ClaimsLive' /\ CreditsLive'
  BY <1>2 DEF LateInv, NamedByClaim, ClaimsLive, CreditsLive
<1>9. ProposalsLive'
  BY <1>2, <1>4, <1>5 DEF LateInv, ProposalsLive
<1> QED BY <1>6, <1>7, <1>8, <1>9 DEF LateInv

LEMMA OpenMergeMoves ==
    ASSUME PersonTInv, MInv, LateInv, NEW a \in Actors, NEW pair \in Pairs, NEW s \in pair, OpenMerge(a, pair, s),
           UNCHANGED <<live, claim, credit, projection, candidates, late>>
    PROVE  LateInv'
<1>1. PICK p \in People, m \in MergeRecord :
              /\ merge' = [merge EXCEPT ![a] = m] /\ \A b \in Actors : merge[b] = NotMerging
              /\ p # s /\ pair = {p, s} /\ m.pair = pair /\ m.survivor = s /\ Retired(m) = {p}
              /\ m.claims = {i \in Roots \cup Links : claim[i] = p}
              /\ m.credits = {r \in Credited : credit[r] = p /\ projection[r] = Nobody}
              /\ m.proposals = {x \in Pairs \ {pair} : p \in x /\ candidates[x] = "proposed"}
              /\ candidates[pair] = "proposed" /\ pair \subseteq live
  BY OpenMergeIs
<1>2. merge'[a] = m /\ \A b \in Actors \ {a} : Retired(merge'[b]) = {}
  BY <1>1 DEF PersonTInv, NotMerging, Retired
<1>3. ClaimsMove(a)' /\ CreditsMove(a)' /\ ProposalsMove(a)'
  <2>1. ClaimsMove(a)'
    BY <1>1, <1>2 DEF ClaimsMove
  <2>2. CreditsMove(a)'
    BY <1>1, <1>2 DEF CreditsMove
  <2>3. ProposalsMove(a)'
    <3>1. \A x \in Pairs : candidates[x] = "proposed" /\ p \in x => x = pair \/ x \in m.proposals
      <4> SUFFICES ASSUME NEW x \in Pairs, candidates[x] = "proposed", p \in x, x # pair
                   PROVE  x \in m.proposals
        OBVIOUS
      <4>1. m.proposals = {y \in Pairs \ {pair} : p \in y /\ candidates[y] = "proposed"}
        BY <1>1
      <4> QED BY <4>1
    <3>2. Retired(merge'[a]) = {p} /\ merge'[a].pair = pair /\ merge'[a].proposals = m.proposals
      BY <1>1, <1>2
    <3>3. candidates' = candidates
      OBVIOUS
    <3> QED BY <3>1, <3>2, <3>3 DEF ProposalsMove
  <2> QED BY <2>1, <2>2, <2>3
<1>4. \A b \in Actors : ClaimsMove(b)' /\ CreditsMove(b)' /\ ProposalsMove(b)'
  BY <1>2, <1>3 DEF ClaimsMove, CreditsMove, ProposalsMove
<1>5. NamedByClaim' /\ ClaimsLive' /\ CreditsLive' /\ ProposalsLive'
  BY DEF LateInv, NamedByClaim, ClaimsLive, CreditsLive, ProposalsLive
<1> QED BY <1>4, <1>5 DEF LateInv

\* The commit of a merge: what it recorded goes to the survivor, what it did not is late.
LEMMA CommitMergeMoves ==
    ASSUME PersonTInv, MInv, LateInv, NEW a \in Actors, CommitMerge(a)
    PROVE  LateInv'
<1>0. PICK m : m = merge[a]
  OBVIOUS
<1>1. /\ m # NotMerging /\ m \in MergeRecord
      /\ merge' = [merge EXCEPT ![a] = NotMerging]
      /\ ~\E r \in Credited : credit[r] \in Retired(m) /\ projection[r] # Nobody
      /\ claim' = [i \in Roots \cup Links |-> IF i \in m.claims THEN m.survivor ELSE claim[i]]
      /\ credit' = [r \in Credited |-> IF r \in m.credits THEN m.survivor ELSE credit[r]]
      /\ candidates' = Carried(m) /\ live' = live \ Retired(m)
      /\ late' = late \cup CarriedLate(m) /\ projection' = projection
  BY <1>0 DEF CommitMerge, PersonTInv
<1>2. /\ m.pair \in Pairs /\ m.pair \subseteq live /\ m.survivor \in m.pair
      /\ m.pair \notin m.proposals
      /\ \A x \in m.proposals : candidates[x] = "proposed" /\ Retired(m) \subseteq x /\ x \in Pairs
  BY <1>0, <1>1 DEF MInv, StillProposed, MergeRecord
<1>3. PICK p \in People : Retired(m) = {p} /\ m.pair = {p, m.survivor} /\ p # m.survivor
  <2>1. PICK q, r \in People : q # r /\ m.pair = {q, r}
    BY <1>2, PairIsTwo
  <2> QED BY <1>2, <2>1 DEF Retired
<1>4. m.survivor \in live' /\ m.survivor # Nobody /\ m.survivor \in People
  BY <1>1, <1>2, <1>3, PersonAssumption DEF People, PersonTInv, Tables
<1>5. \A b \in Actors : Retired(merge'[b]) = {}
  BY <1>0, <1>1 DEF MInv, OneMerge, PersonTInv, NotMerging, Retired
<1>6. \A b \in Actors : ClaimsMove(b)' /\ CreditsMove(b)' /\ ProposalsMove(b)'
  BY <1>5 DEF ClaimsMove, CreditsMove, ProposalsMove
<1>7. late \subseteq late' /\ ClaimsMove(a) /\ CreditsMove(a) /\ ProposalsMove(a)
  BY <1>1 DEF LateInv
<1>8. NamedByClaim'
  BY <1>1, <1>4 DEF LateInv, NamedByClaim
<1>9. ClaimsLive'
  <2> SUFFICES ASSUME NEW i \in Roots \cup Links, claim'[i] # Nobody
               PROVE  claim'[i] \in live' \/ <<"claim", i>> \in late'
    BY DEF ClaimsLive
  <2>1. CASE i \in m.claims
    BY <1>1, <1>4, <2>1
  <2>2. CASE i \notin m.claims
    <3>1. claim'[i] = claim[i]
      BY <1>1, <2>2
    <3>2. claim[i] \in live \/ <<"claim", i>> \in late
      BY <3>1 DEF LateInv, ClaimsLive
    <3>3. claim[i] = p => <<"claim", i>> \in late
      BY <1>0, <1>3, <1>7, <2>2 DEF ClaimsMove
    <3> QED BY <1>1, <1>3, <1>7, <3>1, <3>2, <3>3
  <2> QED BY <2>1, <2>2
<1>10. CreditsLive'
  <2> SUFFICES ASSUME NEW r \in Credited, credit'[r] # Nobody
               PROVE  credit'[r] \in live' \/ <<"credit", r>> \in late'
    BY DEF CreditsLive
  <2>1. CASE r \in m.credits
    BY <1>1, <1>4, <2>1
  <2>2. CASE r \notin m.credits
    <3>1. credit'[r] = credit[r]
      BY <1>1, <2>2
    <3>2. credit[r] \in live \/ <<"credit", r>> \in late
      BY <3>1 DEF LateInv, CreditsLive
    <3>3. credit[r] = p => <<"credit", r>> \in late
      BY <1>0, <1>1, <1>3, <1>7, <2>2 DEF CreditsMove
    <3> QED BY <1>1, <1>3, <1>7, <3>1, <3>2, <3>3
  <2> QED BY <2>1, <2>2
<1>11. ProposalsLive'
  <2> SUFFICES ASSUME NEW x \in Pairs, candidates'[x] = "proposed"
               PROVE  x \subseteq live' \/ <<"proposal", x>> \in late'
    BY DEF ProposalsLive
  <2>1. /\ x # m.pair /\ x \notin m.proposals
        /\ \/ candidates[x] = "proposed"
           \/ candidates[x] = "none" /\ \E y \in m.proposals : x = CarriedOver(y, m)
    BY <1>1 DEF Carried
  <2>2. CASE candidates[x] = "proposed"
    <3>1. x \subseteq live \/ <<"proposal", x>> \in late
      BY <2>2 DEF LateInv, ProposalsLive
    <3>2. p \in x => <<"proposal", x>> \in late
      BY <1>0, <1>3, <1>7, <2>1, <2>2 DEF ProposalsMove
    <3> QED BY <1>1, <1>3, <1>7, <3>1, <3>2
  <2>3. ASSUME NEW y \in m.proposals, candidates[x] = "none", x = CarriedOver(y, m)
        PROVE  x \subseteq live' \/ <<"proposal", x>> \in late'
    <3>1. y \in Pairs /\ candidates[y] = "proposed"
      BY <1>2
    <3>2. y \subseteq live \/ <<"proposal", y>> \in late
      BY <3>1 DEF LateInv, ProposalsLive
    <3>3. CASE y \subseteq live
      <4>1. x = (y \ {p}) \cup {m.survivor}
        BY <1>3, <2>3 DEF CarriedOver
      <4> QED BY <1>1, <1>3, <1>4, <3>3, <4>1
    <3>4. CASE <<"proposal", y>> \in late
      <4>1. <<"proposal", CarriedOver(y, m)>> \in CarriedLate(m)
        BY <2>3, <3>4 DEF CarriedLate
      <4> QED BY <1>1, <2>3, <4>1
    <3> QED BY <3>2, <3>3, <3>4
  <2> QED BY <2>1, <2>2, <2>3
<1> QED BY <1>6, <1>8, <1>9, <1>10, <1>11 DEF LateInv

LEMMA LateStep ==
    ASSUME PersonTInv, MInv, LateInv, [PersonNext]_personVars
    PROVE  LateInv'
<1>1. ASSUME UNCHANGED <<live, claim, credit, projection, candidates, merge, late>> PROVE LateInv'
  BY <1>1 DEF LateInv, ClaimsMove, CreditsMove, ProposalsMove, NamedByClaim, ClaimsLive, CreditsLive, ProposalsLive
<1>2. ASSUME NEW w \in Reconcilers,
             \/ \E r \in Roots : StartEnrichment(w, r) \/ StartReconciliation(w, r)
             \/ QueryPeers(w) \/ Verify(w)
      PROVE  LateInv'
  BY <1>1, <1>2 DEF StartEnrichment, StartReconciliation, QueryPeers, Verify
<1>3. ASSUME NEW w \in Reconcilers, Abandon(w) PROVE LateInv'
  <2>1. merge' = [merge EXCEPT ![w] = NotMerging] /\ UNCHANGED <<live, claim, credit, projection, candidates, late>>
    BY <1>3 DEF Abandon
  <2>2. /\ Retired(merge'[w]) = {} /\ \A b \in Actors \ {w} : merge'[b] = merge[b]
    BY <2>1 DEF PersonTInv, NotMerging, Retired, Actors
  <2>3. \A b \in Actors : ClaimsMove(b)' /\ CreditsMove(b)' /\ ProposalsMove(b)'
    BY <2>1, <2>2 DEF LateInv, ClaimsMove, CreditsMove, ProposalsMove
  <2> QED BY <2>1, <2>3 DEF LateInv, NamedByClaim, ClaimsLive, CreditsLive, ProposalsLive
<1>4. ASSUME NEW w \in Reconcilers, AcceptVerified(w) PROVE LateInv'
  <2>1. reconciler[w].pair \in Pairs /\ reconciler[w].survivor \in reconciler[w].pair /\ w \in Actors
    BY <1>4 DEF AcceptVerified, Step, PersonTInv, Informed, Actors
  <2>2. UNCHANGED <<live, claim, credit, projection, candidates, late>>
    BY <1>4 DEF AcceptVerified
  <2>3. CASE OpenMerge(w, reconciler[w].pair, reconciler[w].survivor)
    BY <2>1, <2>2, <2>3, OpenMergeMoves
  <2>4. CASE merge' = merge
    BY <1>1, <2>2, <2>4
  <2> QED BY <1>4, <2>3, <2>4 DEF AcceptVerified
<1>5. ASSUME NEW pair \in Pairs, NEW s \in pair, Accept(pair, s) PROVE LateInv'
  <2>1. /\ OpenMerge(Moderator, pair, s) /\ Moderator \in Actors
        /\ UNCHANGED <<live, claim, credit, projection, candidates, late>>
    BY <1>5 DEF Accept, Actors
  <2> QED BY <2>1, OpenMergeMoves
<1>6. ASSUME NEW pair \in Pairs, RejectReconciliation(pair) PROVE LateInv'
  <2>1. /\ candidates' = [candidates EXCEPT ![pair] = "rejected"]
        /\ UNCHANGED <<live, claim, credit, projection, merge, late>>
    BY <1>6 DEF RejectReconciliation
  <2>2. \A x \in Pairs : candidates'[x] = "proposed" => candidates[x] = "proposed"
    BY <2>1 DEF PersonTInv, Tables
  <2>3. \A a \in Actors : ClaimsMove(a)' /\ CreditsMove(a)' /\ ProposalsMove(a)'
    BY <2>1, <2>2 DEF LateInv, ClaimsMove, CreditsMove, ProposalsMove
  <2> QED BY <2>1, <2>2, <2>3 DEF LateInv, NamedByClaim, ClaimsLive, CreditsLive, ProposalsLive
<1>7. ASSUME NEW w \in Reconcilers, MergeVerified(w) PROVE LateInv'
  BY <1>7, CommitMergeMoves DEF MergeVerified, Actors
<1>8. ASSUME MergeModerated PROVE LateInv'
  BY <1>8, CommitMergeMoves DEF MergeModerated, Actors
<1>9. CASE UNCHANGED personVars
  BY <1>1, <1>9 DEF personVars
<1> QED BY <1>2, <1>3, <1>4, <1>5, <1>6, <1>7, <1>8, <1>9, AttachKeeps, CommitCreditKeeps, PersistKeeps, ProposeKeeps
        DEF PersonNext

\* Identifiers and credits belong to live people and the proposals of a retired one are closed, but
\* for what was written late, for any number of people, reconcilers, moderated merges and crashes
\* (AcceptReconciliation, internal/people/moderation.go).
THEOREM LeftBehindSafety == PersonSpec => []NothingLeftBehind
<1>1. LateInv => NothingLeftBehind
  BY DEF LateInv, ClaimsLive, CreditsLive, ProposalsLive, NothingLeftBehind
<1>2. PersonTInv /\ MInv /\ LateInv /\ [PersonNext]_personVars => LateInv'
  BY LateStep
<1> QED BY <1>1, <1>2, InitLate, MergeInvariance, PTL DEF PersonSpec

-----------------------------------------------------------------------------
(* Redirects *)

\* A retired person is not live again: only a person without a claim of its own is created.
Redirected ==
    /\ \A p \in People : redirect[p] # Nobody =>
          p \notin live /\ (redirect[p] \in live \/ redirect[p] \in Gone(redirect, Nobody))
    /\ \A r \in Roots : claim[r] = Nobody => redirect[r] = Nobody

RInv == Descends(redirect, Nobody) /\ Redirected

LEMMA InitRedirects == PersonInit => RInv
<1> SUFFICES ASSUME PersonInit PROVE RInv
  OBVIOUS
<1>1. Gone(redirect, Nobody) = {} /\ \A p \in People : redirect[p] = Nobody
  BY DEF PersonInit, Gone
<1>2. Redirected
  BY <1>1 DEF Redirected, People
<1> QED BY <1>1, <1>2, DescendsFrom DEF RInv

\* Identifiers that are claimed stay claimed, and who is live does not change.
LEMMA RedirectsStay ==
    ASSUME RInv, UNCHANGED <<live, redirect>>, \A r \in Roots : claim[r] # Nobody => claim'[r] # Nobody
    PROVE  RInv'
BY DEF RInv, Redirected

LEMMA CommitCreditRedirects ==
    ASSUME PersonTInv, LateInv, RInv, NEW r \in Credited, CommitCredit(r)
    PROVE  RInv'
<1>1. r \in Roots /\ r \in People /\ projection[r] # Nobody /\ UNCHANGED redirect
  BY PersonAssumption DEF CommitCredit, People
<1>2. CASE claim[r] # Nobody
  <2>1. UNCHANGED <<claim, live>>
    BY <1>2 DEF CommitCredit
  <2> QED BY <1>1, <2>1, RedirectsStay
<1>3. CASE claim[r] = Nobody
  <2>1. projection[r] = r /\ redirect[r] = Nobody
    BY <1>1, <1>3 DEF LateInv, NamedByClaim, RInv, Redirected
  <2>2. claim' = [claim EXCEPT ![r] = r] /\ live' = live \cup {r}
    BY <1>3, <2>1 DEF CommitCredit
  <2>3. \A q \in Roots : claim'[q] = Nobody => claim[q] = Nobody
    BY <1>1, <2>1, <2>2 DEF PersonTInv, Tables
  <2>4. Redirected'
    BY <1>1, <2>1, <2>2, <2>3 DEF RInv, Redirected
  <2> QED BY <1>1, <2>4 DEF RInv
<1> QED BY <1>2, <1>3

\* A merge redirects a live person to another live one.
LEMMA CommitMergeRedirects ==
    ASSUME PersonTInv, MInv, LateInv, RInv, NEW a \in Actors, CommitMerge(a)
    PROVE  RInv'
<1>1. PICK m : m = merge[a]
  OBVIOUS
<1>2. /\ m # NotMerging /\ m \in MergeRecord /\ live' = live \ Retired(m)
      /\ claim' = [i \in Roots \cup Links |-> IF i \in m.claims THEN m.survivor ELSE claim[i]]
      /\ redirect' = [p \in People |-> IF p \in Retired(m) THEN m.survivor ELSE redirect[p]]
  BY <1>1 DEF CommitMerge, PersonTInv
<1>3. m.pair \in Pairs /\ m.pair \subseteq live /\ m.survivor \in m.pair
  BY <1>1, <1>2 DEF MInv, StillProposed
<1>4. PICK p \in People, s \in People : s = m.survivor /\ Retired(m) = {p} /\ m.pair = {p, s} /\ p # s
  <2>1. PICK q, r \in People : q # r /\ m.pair = {q, r}
    BY <1>3, PairIsTwo
  <2> QED BY <1>3, <2>1 DEF Retired
<1>5. /\ redirect \in [People -> People \cup {Nobody}] /\ live \subseteq People
      /\ DOMAIN redirect = People /\ s # Nobody /\ p \in live /\ s \in live
  BY <1>3, <1>4, PersonAssumption DEF PersonTInv, Tables, People
<1>6. redirect[p] = Nobody /\ redirect[s] = Nobody
  BY <1>5 DEF RInv, Redirected
<1>7. redirect' = [q \in DOMAIN redirect |-> IF q \in {p} THEN s ELSE redirect[q]]
  BY <1>2, <1>4, <1>5
<1>8. Descends(redirect', Nobody)
  <2>1. /\ s \in DOMAIN redirect /\ s \notin Gone(redirect, Nobody) /\ s \notin {p}
        /\ {p} \in SUBSET (DOMAIN redirect \ Gone(redirect, Nobody))
    BY <1>4, <1>5, <1>6 DEF Gone
  <2>2. IsFiniteSet({p}) /\ Descends(redirect, Nobody)
    BY FS_Singleton DEF RInv
  <2> QED BY <1>5, <1>7, <2>1, <2>2, DescendsStep
<1>9. ASSUME NEW q \in People, redirect'[q] # Nobody
      PROVE  q \notin live' /\ (redirect'[q] \in live' \/ redirect'[q] \in Gone(redirect', Nobody))
  <2>1. p \in Gone(redirect', Nobody) /\ \A x \in Gone(redirect, Nobody) : x \in Gone(redirect', Nobody)
    BY <1>5, <1>6, <1>7 DEF Gone
  <2>2. CASE q = p
    BY <1>2, <1>4, <1>5, <1>7, <2>2
  <2>3. CASE q # p
    <3>1. redirect'[q] = redirect[q] /\ redirect[q] # Nobody
      BY <1>5, <1>7, <1>9, <2>3
    <3>2. q \notin live /\ (redirect[q] \in live \/ redirect[q] \in Gone(redirect, Nobody))
      BY <3>1 DEF RInv, Redirected
    <3> QED BY <1>2, <1>4, <2>1, <3>1, <3>2
  <2> QED BY <2>2, <2>3
<1>10. ASSUME NEW r \in Roots, claim'[r] = Nobody PROVE redirect'[r] = Nobody
  <2>1. r \notin m.claims /\ claim[r] = Nobody
    BY <1>2, <1>4, <1>5, <1>10
  <2>2. r \notin live /\ redirect[r] = Nobody /\ r \in People
    BY <2>1 DEF LateInv, NamedByClaim, RInv, Redirected, People
  <2> QED BY <1>5, <1>7, <2>2
<1> QED BY <1>8, <1>9, <1>10 DEF RInv, Redirected

LEMMA RedirectStep == PersonTInv /\ MInv /\ LateInv /\ RInv /\ [PersonNext]_personVars => RInv'
<1> SUFFICES ASSUME PersonTInv, MInv, LateInv, RInv, [PersonNext]_personVars PROVE RInv'
  OBVIOUS
<1>1. ASSUME UNCHANGED <<live, redirect, claim>> PROVE RInv'
  BY <1>1, RedirectsStay
<1>2. ASSUME NEW r \in Credited, AttachCredit(r) PROVE RInv'
  BY <1>1, <1>2 DEF AttachCredit
<1>3. ASSUME NEW w \in Reconcilers,
             \/ \E r \in Roots : StartEnrichment(w, r) \/ StartReconciliation(w, r)
             \/ QueryPeers(w) \/ Propose(w) \/ Verify(w) \/ AcceptVerified(w) \/ Abandon(w)
      PROVE  RInv'
  BY <1>1, <1>3 DEF StartEnrichment, StartReconciliation, QueryPeers, Propose, Verify, AcceptVerified, Abandon
<1>4. ASSUME NEW w \in Reconcilers, PersistPerson(w) PROVE RInv'
  <2>1. PICK p \in People : p = reconciler[w].person
    BY <1>4 DEF PersistPerson, Step, PersonTInv, Informed
  <2>2. PICK new : new = {i \in LinksOf[reconciler[w].root] : claim[i] = Nobody}
    OBVIOUS
  <2>3. claim' = [i \in Roots \cup Links |-> IF i \in new THEN p ELSE claim[i]] /\ UNCHANGED <<live, redirect>>
    BY <1>4, <2>1, <2>2 DEF PersistPerson
  <2>4. p # Nobody
    BY PersonAssumption DEF People
  <2> QED BY <2>3, <2>4, RedirectsStay
<1>5. ASSUME NEW pair \in Pairs, RejectReconciliation(pair) \/ \E s \in pair : Accept(pair, s) PROVE RInv'
  BY <1>1, <1>5 DEF RejectReconciliation, Accept
<1>6. ASSUME NEW w \in Reconcilers, MergeVerified(w) PROVE RInv'
  BY <1>6, CommitMergeRedirects DEF MergeVerified, Actors
<1>7. ASSUME MergeModerated PROVE RInv'
  BY <1>7, CommitMergeRedirects DEF MergeModerated, Actors
<1>8. CASE UNCHANGED personVars
  BY <1>1, <1>8 DEF personVars
<1> QED BY <1>2, <1>3, <1>4, <1>5, <1>6, <1>7, <1>8, CommitCreditRedirects DEF PersonNext

\* The redirects of every retired person lead to a live one, and CanonicalID finds it within
\* the redirects it follows, for any number of people, merges and reconcilers
\* (AcceptReconciliation, internal/people/moderation.go; CanonicalID, internal/people/service.go).
THEOREM RetiredSafety == PersonSpec => []RetiredResolve
<1>1. PersonTInv /\ RInv => RetiredResolve
  <2> SUFFICES ASSUME PersonTInv, RInv, NEW p \in People, p \in live \/ redirect[p] # Nobody
               PROVE  \E n \in 0..Cardinality(People) :
                         /\ Following(redirect, Nobody)[n][p] \in live
                         /\ n <= RedirectDepth => CanonicalID(p) = Following(redirect, Nobody)[n][p]
    BY Zenon DEF RetiredResolve
  <2>1. /\ redirect \in [People -> People \cup {Nobody}] /\ DOMAIN redirect = People /\ live \subseteq People
        /\ Descends(redirect, Nobody)
    BY DEF PersonTInv, Tables, RInv
  <2>2. PICK C \in SUBSET (DOMAIN redirect) : C = live \cup Gone(redirect, Nobody)
    BY <2>1 DEF Gone
  <2>3. p \in C /\ \A x \in C \cap Gone(redirect, Nobody) : redirect[x] \in C
    BY <2>1, <2>2 DEF RInv, Redirected, Gone
  <2>4. PICK n \in 0..Cardinality(Gone(redirect, Nobody)) :
           Following(redirect, Nobody)[n][p] \in C \ Gone(redirect, Nobody)
    BY <2>1, <2>3, ChainsEnd
  <2>5. n \in 0..Cardinality(People)
    <3>1. Gone(redirect, Nobody) \subseteq People /\ IsFiniteSet(People)
      BY <2>1, PersonAssumption DEF Gone, People
    <3>2. IsFiniteSet(Gone(redirect, Nobody)) /\ Cardinality(Gone(redirect, Nobody)) <= Cardinality(People)
      BY <3>1, FS_Subset
    <3>3. Cardinality(Gone(redirect, Nobody)) \in Nat /\ Cardinality(People) \in Nat
      BY <3>1, <3>2, FS_CardinalityType
    <3> QED BY <3>2, <3>3
  <2>6. Following(redirect, Nobody)[n][p] \in live
    BY <2>2, <2>4
  <2>7. ASSUME n <= RedirectDepth PROVE CanonicalID(p) = Following(redirect, Nobody)[n][p]
    <3>1. n \in 0..RedirectDepth
      BY <2>5, <2>7 DEF RedirectDepth
    <3>2. Following(redirect, Nobody)[n][p] \notin Gone(redirect, Nobody) /\ p \in DOMAIN redirect
      BY <2>1, <2>4
    <3>3. Canonical(redirect, Nobody, p) = Following(redirect, Nobody)[n][p]
      BY <2>1, <3>1, <3>2, CanonicalIs
    <3> QED BY <2>6, <3>3 DEF CanonicalID
  <2> QED BY <2>5, <2>6, <2>7
<1>2. PersonInit => RInv
  BY InitRedirects
<1>3. PersonTInv /\ MInv /\ LateInv /\ [PersonNext]_personVars => LateInv'
  BY LateStep
<1> QED BY <1>1, <1>2, <1>3, InitLate, RedirectStep, MergeInvariance, PTL DEF PersonSpec

-----------------------------------------------------------------------------
(* Together with the provider cache, which shares no variable with people *)

\* A behaviour of both components is one of each.
LEMMA RecordsComposition ==
    RecordsSpec => CacheSpec /\ PersonSpec /\ [](subject \in {"cache", "people"})
<1>1. RecordsInit => CacheInit /\ PersonInit /\ subject \in {"cache", "people"}
  BY DEF RecordsInit
<1>2. [RecordsNext]_<<cacheVars, personVars, subject>> =>
        [CacheNext]_cacheVars /\ [PersonNext]_personVars /\ UNCHANGED subject
  BY DEF RecordsNext
<1>3. subject \in {"cache", "people"} /\ UNCHANGED subject => (subject \in {"cache", "people"})'
  OBVIOUS
<1> QED BY <1>1, <1>2, <1>3, PTL DEF RecordsSpec, CacheSpec, PersonSpec

\* Every variable of the cache (providercache/cache.go) and of people (people/service.go,
\* moderation.go) has its type, in any behaviour of both.
THEOREM RecordsTypeSafety == RecordsSpec => []RecordsTypeOK
BY RecordsComposition, CacheTypeSafety, PersonTypeSafety, PTL DEF RecordsTypeOK
==============================================================================
