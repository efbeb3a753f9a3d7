---------------------------- MODULE PersonMerge ----------------------------
(***************************************************************************)
(* People (internal/people, jobs/person.go): a person is created when a     *)
(* credit first names its identity at a provider; enrichment adds other     *)
(* identifiers; a reconciler proposes pairs of people that may be the same  *)
(* and accepts the proposals with enough evidence, moderators decide the    *)
(* others. Accepting merges one person into the other and leaves a          *)
(* redirect.                                                                *)
(***************************************************************************)
EXTENDS Naturals, FiniteSets, Redirects

CONSTANTS
    Roots,       \* identities at providers; the person created for one is named by it
    ProviderOf,  \* the provider of each
    Credited,    \* those a title credits; the people of the others were created before
    Links,       \* other external identifiers of people
    LinksOf,     \* those the provider gives for each of Roots
    Reconcilers, \* enrichment jobs and passes of the reconciliation job
    Nobody

Moderator == "moderator"
Actors == Reconcilers \cup {Moderator}

ASSUME PersonAssumption ==
    /\ IsFiniteSet(Roots) /\ Credited \subseteq Roots
    /\ LinksOf \in [Roots -> SUBSET Links] /\ Roots \cap Links = {}
    /\ Moderator \notin Reconcilers /\ Nobody \notin Roots

VARIABLES
    live,       \* entities: the people that are not deleted
    redirect,   \* entity_redirects
    claim,      \* external_id_claims: the person each identifier belongs to
    credit,     \* entity_credit_projections: the person behind a title's credit of a root
    projection, \* the person an open projection transaction has found for that credit
    candidates, \* person_reconciliation_candidates, by pair
    reconciler, \* local state of each of Reconcilers
    merge,      \* the open merge transaction of each of Actors
    late        \* history: what was written for a person while or after it was retired

personVars == <<live, redirect, claim, credit, projection, candidates, reconciler, merge, late>>

People == Roots
Pairs == {pair \in SUBSET People : Cardinality(pair) = 2}

\* The person a chain of redirects leads to, when it is live.
CanonicalID(p) == LET q == Canonical(redirect, Nobody, p) IN IF q \in live THEN q ELSE Nobody

RootsOf(p) == {r \in Roots : claim[r] = p}
ProvidersOf(p) == {ProviderOf[r] : r \in RootsOf(p)}
SameProvider(p, q) == ProvidersOf(p) \cap ProvidersOf(q) # {}

NotMerging == [pair |-> {}, survivor |-> Nobody, claims |-> {}, credits |-> {}, proposals |-> {}]
Retired(m) == m.pair \ {m.survivor}
Retiring == UNION {Retired(merge[a]) : a \in Actors}
TooLate(p) == p \notin live \/ p \in Retiring

Idle == [pc |-> "idle", root |-> Nobody, person |-> Nobody, todo |-> {}, verified |-> {}, pair |-> {}, survivor |-> Nobody]

PersonInit ==
    /\ live = Roots \ Credited /\ redirect = [p \in People |-> Nobody]
    /\ claim = [i \in Roots \cup Links |-> IF i \in live THEN i ELSE Nobody]
    /\ credit = [r \in Credited |-> Nobody] /\ projection = [r \in Credited |-> Nobody]
    /\ candidates = [pair \in Pairs |-> "none"]
    /\ reconciler = [w \in Reconcilers |-> Idle] /\ merge = [a \in Actors |-> NotMerging] /\ late = {}

-----------------------------------------------------------------------------
(* Credits. The projection of a title deletes its credits and inserts them again;
   a trigger finds the person by the claim, without its redirects, or creates it. *)

AttachCredit(r) ==
    /\ projection[r] = Nobody /\ \A a \in Actors : r \notin merge[a].credits
    /\ projection' = [projection EXCEPT ![r] = IF claim[r] = Nobody THEN r ELSE claim[r]]
    /\ UNCHANGED <<live, redirect, claim, credit, candidates, reconciler, merge, late>>

CommitCredit(r) ==
    LET p == projection[r]
    IN /\ p # Nobody /\ projection' = [projection EXCEPT ![r] = Nobody]
       /\ credit' = [credit EXCEPT ![r] = p]
       /\ IF claim[r] = Nobody
          THEN /\ claim' = [claim EXCEPT ![r] = p] /\ live' = live \cup {p}
               /\ late' = late \ {<<"credit", r>>}
          ELSE /\ UNCHANGED <<claim, live>>
               /\ late' = IF TooLate(p) THEN late \cup {<<"credit", r>>} ELSE late \ {<<"credit", r>>}
       /\ UNCHANGED <<redirect, candidates, reconciler, merge>>

-----------------------------------------------------------------------------
(* Enrichment and reconciliation. *)

Step(w, from, to) == reconciler[w].pc = from /\ reconciler' = [reconciler EXCEPT ![w] = to]

\* The job follows the redirects of its person and checks that it has the identity
\* it is about to fetch.
StartEnrichment(w, r) ==
    /\ claim[r] \in live
    /\ Step(w, "idle", [Idle EXCEPT !.pc = "fetched", !.root = r, !.person = claim[r]])
    /\ UNCHANGED <<live, redirect, claim, credit, projection, candidates, merge, late>>

\* The transaction checks nothing of the kind again. An identifier of somebody else is
\* noted as a conflict.
PersistPerson(w) ==
    LET p == reconciler[w].person
        new == {i \in LinksOf[reconciler[w].root] : claim[i] = Nobody}
    IN /\ Step(w, "fetched", [Idle EXCEPT !.pc = "query", !.person = p])
       /\ claim' = [i \in Roots \cup Links |-> IF i \in new THEN p ELSE claim[i]]
       /\ late' = IF TooLate(p) THEN late \cup {<<"claim", i>> : i \in new} ELSE late
       /\ UNCHANGED <<live, redirect, credit, projection, candidates, merge>>

\* The reconciliation job lists people and reconciles them one after the other.
StartReconciliation(w, p) ==
    /\ p \in live /\ Step(w, "idle", [Idle EXCEPT !.pc = "query", !.person = p])
    /\ UNCHANGED <<live, redirect, claim, credit, projection, candidates, merge, late>>

\* Names, dates, titles and identifiers of two people: too little, enough for a review,
\* or enough to accept, which two identities at one provider never are.
Verdicts(p, q) == {"none", "review"} \cup (IF SameProvider(p, q) THEN {} ELSE {"automatic"})

\* The peers are live, the person itself need not be.
QueryPeers(w) ==
    LET p == reconciler[w].person
    IN /\ \E verdict \in [live \ {p} -> {"none", "review", "automatic"}] :
             /\ \A q \in live \ {p} : verdict[q] \in Verdicts(p, q)
             /\ Step(w, "query", [reconciler[w] EXCEPT !.pc = "propose",
                     !.todo = {<<q, verdict[q]>> : q \in {x \in live \ {p} : verdict[x] # "none"}}])
       /\ UNCHANGED <<live, redirect, claim, credit, projection, candidates, merge, late>>

\* A merge holds its own row and the rows of the proposals it carries over.
RowLocked(pair) == \E a \in Actors : pair = merge[a].pair \/ pair \in merge[a].proposals

\* Mutated form: the upsert writes the row in any state.
AnyState(pair) == TRUE

Open(pair) == candidates[pair] \in {"none", "proposed"}

\* One row after the other; a decided pair stays decided.
Propose(w) ==
    \E t \in reconciler[w].todo :
        LET pair == {reconciler[w].person, t[1]}
        IN /\ ~RowLocked(pair)
           /\ Step(w, "propose", [reconciler[w] EXCEPT !.todo = @ \ {t},
                   !.verified = IF Open(pair) /\ t[2] = "automatic" THEN @ \cup {pair} ELSE @])
           /\ candidates' = IF Open(pair) THEN [candidates EXCEPT ![pair] = "proposed"] ELSE candidates
           /\ late' = IF candidates[pair] = "none" /\ \E p \in pair : TooLate(p)
                      THEN late \cup {<<"proposal", pair>>} ELSE late
           /\ UNCHANGED <<live, redirect, claim, credit, projection, merge>>

\* preferredPersonSurvivor: an identity at TMDB, then the number of providers; what else
\* decides (credits, age) is either of them.
Rank(p) == Cardinality(ProvidersOf(p)) + (IF "tmdb" \in ProvidersOf(p) THEN 10 ELSE 0)
Preferred(pair) == {p \in pair \cap live : \A q \in pair \cap live : Rank(q) <= Rank(p)}

\* acceptVerifiedReconciliation: the two people as they are called now.
Verify(w) ==
    /\ reconciler[w].todo = {}
    /\ IF reconciler[w].verified = {} THEN Step(w, "propose", Idle)
       ELSE \E pair \in reconciler[w].verified :
            LET now == {CanonicalID(p) : p \in pair}
                rest == [reconciler[w] EXCEPT !.verified = @ \ {pair}]
            IN IF Nobody \in now \/ Cardinality(now) = 1 THEN Step(w, "propose", rest)
               ELSE \E s \in Preferred(now) :
                       Step(w, "propose", [rest EXCEPT !.pc = "accept", !.pair = now, !.survivor = s])
    /\ UNCHANGED <<live, redirect, claim, credit, projection, candidates, merge, late>>

\* A crash, or an error that makes River run the job again.
Abandon(w) ==
    /\ reconciler[w].pc # "idle" /\ reconciler' = [reconciler EXCEPT ![w] = Idle]
    /\ merge' = [merge EXCEPT ![w] = NotMerging]
    /\ UNCHANGED <<live, redirect, claim, credit, projection, candidates, late>>

-----------------------------------------------------------------------------
(* Decisions. *)

\* Mutated form: the people are not looked at.
AnyPair(pair) == TRUE

Active(pair) == pair \subseteq live

\* AcceptReconciliation under its lock, up to the statements that move what belongs to
\* the person to retire: what is written for it afterwards stays with it. The credits
\* of a title whose projection is open are replaced by it.
OpenMerge(a, pair, s) ==
    /\ \A b \in Actors : merge[b] = NotMerging
    /\ candidates[pair] = "proposed" /\ Active(pair)
    /\ \E p \in pair \ {s} :
          merge' = [merge EXCEPT ![a] =
              [pair |-> pair, survivor |-> s,
               claims |-> {i \in Roots \cup Links : claim[i] = p},
               credits |-> {r \in Credited : credit[r] = p /\ projection[r] = Nobody},
               proposals |-> {x \in Pairs \ {pair} : p \in x /\ candidates[x] = "proposed"}]]

\* Mutated form: the proposals of the retired person stay.
Kept(m) == [candidates EXCEPT ![m.pair] = "accepted"]

\* A proposal of the retired person is carried over to the survivor.
CarriedOver(x, m) == (x \ Retired(m)) \cup {m.survivor}

\* The proposals of the retired person are superseded.
Carried(m) ==
    [pair \in Pairs |->
        IF pair = m.pair THEN "accepted"
        ELSE IF pair \in m.proposals THEN "superseded"
        ELSE IF candidates[pair] = "none" /\ \E x \in m.proposals : pair = CarriedOver(x, m)
             THEN "proposed" ELSE candidates[pair]]

\* Carrying over does not look at the other person: what was late stays so.
CarriedLate(m) ==
    {<<"proposal", CarriedOver(x, m)>> : x \in {y \in m.proposals :
        <<"proposal", y>> \in late /\ candidates[CarriedOver(y, m)] = "none"}}

CommitMerge(a) ==
    LET m == merge[a]
    IN /\ m # NotMerging /\ merge' = [merge EXCEPT ![a] = NotMerging]
       /\ ~\E r \in Credited : credit[r] \in Retired(m) /\ projection[r] # Nobody
       /\ claim' = [i \in Roots \cup Links |-> IF i \in m.claims THEN m.survivor ELSE claim[i]]
       /\ credit' = [r \in Credited |-> IF r \in m.credits THEN m.survivor ELSE credit[r]]
       /\ candidates' = Carried(m)
       /\ live' = live \ Retired(m)
       /\ redirect' = [p \in People |-> IF p \in Retired(m) THEN m.survivor ELSE redirect[p]]
       /\ late' = late \cup CarriedLate(m)
       /\ UNCHANGED projection

\* The reconciler's merge: a pair decided meanwhile is passed over, one that is not
\* active any more is an error (Abandon).
AcceptVerified(w) ==
    LET pair == reconciler[w].pair s == reconciler[w].survivor
        next == [reconciler[w] EXCEPT !.pc = "propose", !.pair = {}, !.survivor = Nobody]
    IN \/ /\ Step(w, "accept", [next EXCEPT !.pc = "merge"]) /\ OpenMerge(w, pair, s)
          /\ UNCHANGED <<live, redirect, claim, credit, projection, candidates, late>>
       \/ /\ Step(w, "accept", next) /\ candidates[pair] # "proposed"
          /\ \A b \in Actors : merge[b] = NotMerging
          /\ UNCHANGED <<live, redirect, claim, credit, projection, candidates, merge, late>>

MergeVerified(w) == CommitMerge(w) /\ Step(w, "merge", [reconciler[w] EXCEPT !.pc = "propose"])

Accept(pair, s) ==
    /\ OpenMerge(Moderator, pair, s)
    /\ UNCHANGED <<live, redirect, claim, credit, projection, candidates, reconciler, late>>

MergeModerated == CommitMerge(Moderator) /\ UNCHANGED reconciler

RejectReconciliation(pair) ==
    /\ candidates[pair] = "proposed" /\ ~RowLocked(pair)
    /\ candidates' = [candidates EXCEPT ![pair] = "rejected"]
    /\ UNCHANGED <<live, redirect, claim, credit, projection, reconciler, merge, late>>

PersonNext ==
    \/ \E r \in Credited : AttachCredit(r) \/ CommitCredit(r)
    \/ \E w \in Reconcilers :
          \/ \E r \in Roots : StartEnrichment(w, r) \/ StartReconciliation(w, r)
          \/ PersistPerson(w) \/ QueryPeers(w) \/ Propose(w) \/ Verify(w)
          \/ AcceptVerified(w) \/ MergeVerified(w) \/ Abandon(w)
    \/ \E pair \in Pairs : RejectReconciliation(pair) \/ \E s \in pair : Accept(pair, s)
    \/ MergeModerated

PersonSpec == PersonInit /\ [][PersonNext]_personVars

-----------------------------------------------------------------------------
(* Properties *)

PersonTypeOK ==
    /\ live \subseteq People /\ redirect \in [People -> People \cup {Nobody}]
    /\ claim \in [Roots \cup Links -> People \cup {Nobody}]
    /\ credit \in [Credited -> People \cup {Nobody}] /\ projection \in [Credited -> People \cup {Nobody}]
    /\ candidates \in [Pairs -> {"none", "proposed", "accepted", "rejected", "superseded"}]
    /\ \A w \in Reconcilers : reconciler[w].pc \in {"idle", "fetched", "query", "propose", "accept", "merge"}
    /\ DOMAIN merge = Actors

\* Everybody who was ever created is found: the redirects of a retired person lead to a live
\* one, however merges, enrichments and decisions followed each other, and CanonicalID finds
\* that one unless it is farther away than the query looks.
RetiredResolve == \A p \in People : p \in live \/ redirect[p] # Nobody =>
    \E n \in 0..Cardinality(People) :
        LET q == Following(redirect, Nobody)[n][p]
        IN  q \in live /\ (n <= RedirectDepth => CanonicalID(p) = q)

\* Nothing is left with a retired person: its identifiers and credits belong to live
\* people and its proposals are closed, but for what was written while or after it was
\* retired by somebody who had looked it up before, and for what a later merge carried
\* over from such a proposal.
NothingLeftBehind ==
    /\ \A i \in Roots \cup Links : claim[i] # Nobody => claim[i] \in live \/ <<"claim", i>> \in late
    /\ \A r \in Credited : credit[r] # Nobody => credit[r] \in live \/ <<"credit", r>> \in late
    /\ \A pair \in Pairs : candidates[pair] = "proposed" => pair \subseteq live \/ <<"proposal", pair>> \in late

\* "Conflicting repeat decisions fail rather than changing history" (docs/person-reconciliation.md:47).
DecisionsStand ==
    [][\A pair \in Pairs : candidates[pair] \in {"accepted", "rejected", "superseded"}
          => candidates'[pair] = candidates[pair]]_personVars

\* "Two different IDs from the same provider are never accepted automatically"
\* (docs/person-reconciliation.md:22).
SameProviderIsReviewed ==
    [][\A w \in Reconcilers : reconciler[w].pc = "accept" /\ reconciler'[w].pc = "merge"
          => ~(\A p, q \in merge'[w].pair : p # q => SameProvider(p, q))]_personVars
=============================================================================
