------------------------------ MODULE Redirects ------------------------------
(***************************************************************************)
(* Redirects that merges leave behind (entity_redirects): every retired      *)
(* entity names the one it was merged into, which may be retired later.      *)
(***************************************************************************)
EXTENDS Naturals

\* Those that were merged into another one.
Gone(redirect, nobody) == {e \in DOMAIN redirect : redirect[e] # nobody}

\* Where up to n redirects lead from each entity.
Following(redirect, nobody) ==
    LET after[n \in Nat] ==
            [e \in DOMAIN redirect |->
                IF n = 0 \/ redirect[e] = nobody THEN e ELSE after[n - 1][redirect[e]]]
    IN  after

\* CanonicalID of people and of artists gives up after so many.
RedirectDepth == 16
Canonical(redirect, nobody, e) == Following(redirect, nobody)[RedirectDepth][e]
==============================================================================
