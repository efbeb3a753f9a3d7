--------------------------- MODULE Redirects_proofs ---------------------------
(***************************************************************************)
(* Chains of redirects, for any number of entities: they end when every merge *)
(* has two entities that are not merged into others, in whatever order merges  *)
(* follow each other, and CanonicalID finds the end that is near enough.       *)
(***************************************************************************)
EXTENDS Redirects, Integers, FiniteSetTheorems, WellFoundedInduction, TLAPS

\* A set of numbers has a smallest one: induction, for a predicate that is written as a set.
LEMMA SmallestExists ==
    ASSUME NEW S, S \subseteq Nat, S # {}
    PROVE  \E m \in S : \A x \in S : m <= x
<1> DEFINE Less == {p \in Nat \X Nat : p[1] < p[2]}
<1>1. IsWellFoundedOn(Less, Nat)
  BY NatLessThanWellFounded, Zenon DEF OpToRel
<1>2. PICK m \in S : \A x \in S : ~(<<x, m>> \in Less)
  <2> HIDE DEF Less
  <2> QED BY <1>1, WFMin, Zenon
<1>3. ASSUME NEW x \in S PROVE m <= x
  <2>1. x \in Nat /\ m \in Nat /\ <<x, m>> \notin Less
    BY <1>2
  <2>2. ~(x < m)
    BY <2>1
  <2> QED BY <2>1, <2>2
<1> QED BY <1>3

\* Of a set of numbers up to n some are the largest.
LEMMA LargestExists ==
    ASSUME NEW n \in Nat, NEW T, T \subseteq 1 .. n, T # {}
    PROVE  \E m \in T : \A x \in T : x <= m
<1> DEFINE Below == {d \in Nat : n - d \in T}
<1>1. Below \subseteq Nat /\ Below # {}
  <2>1. PICK x \in T : TRUE
    OBVIOUS
  <2>2. n - x \in Nat /\ n - (n - x) = x
    BY <2>1
  <2> QED BY <2>1, <2>2
<1>2. PICK d \in Below : \A y \in Below : ~(y < d)
  <2>1. PICK d \in Below : \A y \in Below : d <= y
    <3> HIDE DEF Below
    <3> QED BY <1>1, SmallestExists
  <2> QED BY <1>1, <2>1
<1>3. ASSUME NEW x \in T PROVE x <= n - d
  <2>1. n - x \in Nat /\ n - (n - x) = x
    OBVIOUS
  <2>2. ~(n - x < d)
    BY <1>2, <2>1
  <2> QED BY <2>1, <2>2
<1> QED BY <1>2, <1>3

-----------------------------------------------------------------------------
(* The definition by recursion defines what it says *)

\* One more redirect, when there are steps left and a redirect to follow.
Further(after, redirect, nobody, n) ==
    [e \in DOMAIN redirect |-> IF n = 0 \/ redirect[e] = nobody THEN e ELSE after[n - 1][redirect[e]]]

Follows(after, redirect, nobody, steps) == after = [n \in steps |-> Further(after, redirect, nobody, n)]

LEMMA FollowsUpTo ==
    ASSUME NEW redirect, NEW nobody, NEW depth \in Nat
    PROVE  \E after : Follows(after, redirect, nobody, 0..depth)
<1> DEFINE Bad == {d \in Nat : ~\E after : Follows(after, redirect, nobody, 0..d)}
<1>1. SUFFICES ASSUME Bad # {} PROVE FALSE
  OBVIOUS
<1>2. PICK d \in Bad : \A x \in Bad : d <= x
  <2>1. Bad \subseteq Nat
    OBVIOUS
  <2> HIDE DEF Bad
  <2> QED BY <1>1, <2>1, SmallestExists
<1>3. CASE d = 0
  <2> DEFINE start == [n \in 0..0 |-> [e \in DOMAIN redirect |-> e]]
  <2>1. Follows(start, redirect, nobody, 0..0)
    BY DEF Follows, Further
  <2> QED BY <1>2, <1>3, <2>1
<1>4. CASE d # 0
  <2>1. d - 1 \in Nat /\ d - 1 \notin Bad
    BY <1>2, <1>4
  <2>2. PICK a : Follows(a, redirect, nobody, 0..(d - 1))
    BY <2>1
  <2> DEFINE b == [n \in 0..d |-> Further(a, redirect, nobody, n)]
  <2>3. ASSUME NEW n \in 0..d PROVE Further(b, redirect, nobody, n) = Further(a, redirect, nobody, n)
    <3>1. CASE n = 0
      BY <3>1 DEF Further
    <3>2. CASE n # 0
      <4>1. n - 1 \in 0..(d - 1) /\ n - 1 \in 0..d
        BY <2>1, <3>2
      <4>2. a[n - 1] = Further(a, redirect, nobody, n - 1)
        <5> HIDE DEF b
        <5> QED BY <2>2, <4>1 DEF Follows
      <4>3. b[n - 1] = a[n - 1]
        BY <4>1, <4>2
      <4> HIDE DEF b
      <4> QED BY <4>3 DEF Further
    <3> QED BY <3>1, <3>2
  <2>4. Follows(b, redirect, nobody, 0..d)
    BY <2>3, Zenon DEF Follows
  <2> QED BY <1>2, <2>4
<1> QED BY <1>3, <1>4

\* How far ahead the steps go does not change the first ones.
LEMMA FollowsAgree ==
    ASSUME NEW redirect, NEW nobody, NEW c \in Nat, NEW d \in Nat, NEW a, NEW b,
           Follows(a, redirect, nobody, 0..c), Follows(b, redirect, nobody, 0..d),
           NEW n \in Nat, n <= c, n <= d
    PROVE  a[n] = b[n]
<1> DEFINE Bad == {k \in 0..n : a[k] # b[k]}
<1>1. SUFFICES ASSUME Bad # {} PROVE FALSE
  OBVIOUS
<1>2. PICK k \in Bad : \A x \in Bad : k <= x
  <2>1. Bad \subseteq Nat
    OBVIOUS
  <2> HIDE DEF Bad
  <2> QED BY <1>1, <2>1, SmallestExists
<1>3. k \in 0..c /\ k \in 0..d
  BY <1>2
<1>4. a[k] = Further(a, redirect, nobody, k) /\ b[k] = Further(b, redirect, nobody, k)
  BY <1>3 DEF Follows
<1>5. CASE k = 0
  <2>1. Further(a, redirect, nobody, 0) = Further(b, redirect, nobody, 0)
    BY DEF Further
  <2> QED BY <1>2, <1>4, <1>5, <2>1
<1>6. CASE k # 0
  <2>1. k - 1 \in 0..n /\ k - 1 \notin Bad
    BY <1>2, <1>6
  <2>2. a[k - 1] = b[k - 1]
    BY <2>1
  <2>3. Further(a, redirect, nobody, k) = Further(b, redirect, nobody, k)
    BY <2>2 DEF Further
  <2> QED BY <1>2, <1>4, <2>3
<1> QED BY <1>5, <1>6

LEMMA FollowsEver ==
    ASSUME NEW redirect, NEW nobody
    PROVE  \E after : Follows(after, redirect, nobody, Nat)
<1> DEFINE upTo == [d \in Nat |-> CHOOSE after : Follows(after, redirect, nobody, 0..d)]
<1> DEFINE ever == [n \in Nat |-> upTo[n][n]]
<1>1. ASSUME NEW d \in Nat PROVE Follows(upTo[d], redirect, nobody, 0..d)
  BY FollowsUpTo
<1> HIDE DEF upTo
<1>2. ASSUME NEW n \in Nat PROVE ever[n] = Further(ever, redirect, nobody, n)
  <2>1. upTo[n][n] = Further(upTo[n], redirect, nobody, n)
    <3>1. PICK u : u = upTo[n]
      OBVIOUS
    <3>2. Follows(u, redirect, nobody, 0..n)
      BY <1>1, <3>1
    <3>3. u[n] = Further(u, redirect, nobody, n)
      BY <3>2 DEF Follows
    <3> QED BY <3>1, <3>3
  <2>2. CASE n = 0
    <3>1. Further(upTo[n], redirect, nobody, 0) = Further(ever, redirect, nobody, 0)
      BY DEF Further
    <3> QED BY <2>1, <2>2, <3>1
  <2>3. CASE n # 0
    <3>1. n - 1 \in Nat /\ n - 1 <= n - 1 /\ n - 1 <= n
      BY <2>3
    <3>2. upTo[n][n - 1] = upTo[n - 1][n - 1]
      <4>1. PICK u, v : u = upTo[n] /\ v = upTo[n - 1]
        OBVIOUS
      <4>2. Follows(u, redirect, nobody, 0..n) /\ Follows(v, redirect, nobody, 0..(n - 1))
        BY <1>1, <3>1, <4>1
      <4>3. u[n - 1] = v[n - 1]
        BY <3>1, <4>2, FollowsAgree
      <4> QED BY <4>1, <4>3
    <3>3. ever[n - 1] = upTo[n][n - 1]
      BY <3>1, <3>2
    <3>4. Further(upTo[n], redirect, nobody, n) = Further(ever, redirect, nobody, n)
      <4> HIDE DEF ever
      <4> QED BY <3>3 DEF Further
    <3> QED BY <2>1, <3>4
  <2> QED BY <2>2, <2>3
<1>3. Follows(ever, redirect, nobody, Nat)
  BY <1>2, Zenon DEF Follows
<1> QED BY <1>3

\* What Following is, without the recursion.
LEMMA FollowingIs ==
    ASSUME NEW redirect, NEW nobody, NEW n \in Nat, NEW e \in DOMAIN redirect
    PROVE  Following(redirect, nobody)[n][e] =
              IF n = 0 \/ redirect[e] = nobody THEN e ELSE Following(redirect, nobody)[n - 1][redirect[e]]
<1>1. PICK after : after = Following(redirect, nobody)
  OBVIOUS
<1>2. Follows(after, redirect, nobody, Nat)
  <2>1. \E f : f = [k \in Nat |-> [x \in DOMAIN redirect |->
                                    IF k = 0 \/ redirect[x] = nobody THEN x ELSE f[k - 1][redirect[x]]]]
    <3>1. PICK f : Follows(f, redirect, nobody, Nat)
      BY FollowsEver
    <3>2. f = [k \in Nat |-> [x \in DOMAIN redirect |->
                                  IF k = 0 \/ redirect[x] = nobody THEN x ELSE f[k - 1][redirect[x]]]]
      BY <3>1, Zenon DEF Follows, Further
    <3> QED BY <3>2
  <2>2. after = [k \in Nat |-> [x \in DOMAIN redirect |->
                                    IF k = 0 \/ redirect[x] = nobody THEN x ELSE after[k - 1][redirect[x]]]]
    BY <1>1, <2>1 DEF Following
  <2> QED BY <2>2, Zenon DEF Follows, Further
<1>3. after[n] = Further(after, redirect, nobody, n)
  BY <1>2 DEF Follows
<1>4. after[n][e] = IF n = 0 \/ redirect[e] = nobody THEN e ELSE after[n - 1][redirect[e]]
  BY <1>3 DEF Further
<1> QED BY <1>1, <1>4

-----------------------------------------------------------------------------
(* Chains *)

\* Following more redirects from the end of a chain leads nowhere else.
LEMMA EndStays ==
    ASSUME NEW redirect, NEW nobody, NEW n \in Nat, NEW m \in Nat, n <= m, NEW e \in DOMAIN redirect,
           \A x \in DOMAIN redirect : redirect[x] \in DOMAIN redirect \cup {nobody},
           Following(redirect, nobody)[n][e] \notin Gone(redirect, nobody)
    PROVE  Following(redirect, nobody)[m][e] = Following(redirect, nobody)[n][e]
<1>1. PICK after : after = Following(redirect, nobody)
  OBVIOUS
<1>2. \A k \in Nat, x \in DOMAIN redirect :
         after[k][x] = IF k = 0 \/ redirect[x] = nobody THEN x ELSE after[k - 1][redirect[x]]
  BY <1>1, FollowingIs
<1> DEFINE Moves(k) == \E x \in DOMAIN redirect, l \in Nat :
                          k <= l /\ after[k][x] \notin Gone(redirect, nobody) /\ after[l][x] # after[k][x]
<1> DEFINE Bad == {k \in Nat : Moves(k)}
<1>3. SUFFICES ASSUME Bad # {} PROVE FALSE
  BY <1>1
<1>4. PICK k \in Bad : \A x \in Bad : k <= x
  <2>1. Bad \subseteq Nat
    OBVIOUS
  <2> HIDE DEF Bad
  <2> QED BY <1>3, <2>1, SmallestExists
<1>5. PICK x \in DOMAIN redirect, l \in Nat :
         k <= l /\ after[k][x] \notin Gone(redirect, nobody) /\ after[l][x] # after[k][x]
  BY <1>4
<1>6. k # 0 /\ redirect[x] # nobody
  <2>1. CASE redirect[x] = nobody
    BY <1>2, <1>4, <1>5, <2>1
  <2>2. CASE k = 0 /\ redirect[x] # nobody
    BY <1>2, <1>5, <2>2 DEF Gone
  <2> QED BY <2>1, <2>2
<1>7. PICK y \in DOMAIN redirect : y = redirect[x]
  BY <1>6
<1>8. l # 0 /\ k - 1 \in Nat /\ l - 1 \in Nat /\ k - 1 <= l - 1
  BY <1>4, <1>5, <1>6
<1>9. after[k][x] = after[k - 1][y] /\ after[l][x] = after[l - 1][y]
  BY <1>2, <1>4, <1>5, <1>6, <1>7, <1>8
<1>10. Moves(k - 1)
  BY <1>5, <1>8, <1>9
<1>11. k - 1 \in Bad
  BY <1>8, <1>10
<1> QED BY <1>4, <1>8, <1>11

\* The merges can be numbered so that whatever an entity was merged into, if it was merged
\* as well, was merged later.
LaterOn(redirect, nobody, order) ==
    \A e \in Gone(redirect, nobody) :
        redirect[e] \in Gone(redirect, nobody) => order[e] < order[redirect[e]]

Descends(redirect, nobody) ==
    /\ IsFiniteSet(Gone(redirect, nobody))
    /\ \A e \in Gone(redirect, nobody) : redirect[e] \in DOMAIN redirect
    /\ \E order \in [Gone(redirect, nobody) -> 1..Cardinality(Gone(redirect, nobody))] :
          LaterOn(redirect, nobody, order)

LEMMA DescendsFrom ==
    ASSUME NEW redirect, NEW nobody, Gone(redirect, nobody) = {}
    PROVE  Descends(redirect, nobody)
<1>1. IsFiniteSet({}) /\ Cardinality({}) = 0
  BY FS_EmptySet
<1>2. PICK order : order = [e \in {} |-> 1]
  OBVIOUS
<1>3. order \in [{} -> 1..0]
  BY <1>2
<1> QED BY <1>1, <1>3 DEF Descends, LaterOn

\* Merging entities that were not merged into one that was not, and is not among them.
LEMMA DescendsStep ==
    ASSUME NEW redirect, NEW nobody, Descends(redirect, nobody),
           NEW survivor \in DOMAIN redirect, survivor # nobody, survivor \notin Gone(redirect, nobody),
           NEW retired \in SUBSET (DOMAIN redirect \ Gone(redirect, nobody)), survivor \notin retired,
           IsFiniteSet(retired), NEW after,
           after = [e \in DOMAIN redirect |-> IF e \in retired THEN survivor ELSE redirect[e]]
    PROVE  Descends(after, nobody)
<1>1. PICK old : old = Gone(redirect, nobody)
  OBVIOUS
<1>2. Gone(after, nobody) = old \cup retired /\ DOMAIN after = DOMAIN redirect
  BY <1>1 DEF Gone
<1>3. IsFiniteSet(old) /\ \A e \in old : redirect[e] \in DOMAIN redirect
  BY <1>1 DEF Descends
<1>4. CASE retired = {}
  <2>1. after = [e \in DOMAIN redirect |-> redirect[e]]
    BY <1>4
  <2>2. Gone(after, nobody) = Gone(redirect, nobody) /\ \A e \in DOMAIN redirect : after[e] = redirect[e]
    BY <1>1, <1>2, <1>4
  <2>3. PICK order \in [old -> 1..Cardinality(old)] : LaterOn(redirect, nobody, order)
    BY <1>1 DEF Descends
  <2>4. old \subseteq DOMAIN redirect
    BY <1>1 DEF Gone
  <2>5. LaterOn(after, nobody, order)
    BY <1>1, <2>2, <2>3, <2>4 DEF LaterOn
  <2> QED BY <1>1, <1>2, <1>3, <2>2, <2>3, <2>4, <2>5 DEF Descends
<1>5. CASE retired # {}
  <2>1. /\ IsFiniteSet(old \cup retired) /\ Cardinality(old) \in Nat /\ Cardinality(retired) \in Nat
        /\ Cardinality(old \cup retired) = Cardinality(old) + Cardinality(retired)
    <3>1. Cardinality(old \cap retired) = 0
      <4>1. old \cap retired = {}
        BY <1>1
      <4> QED BY <4>1, FS_EmptySet
    <3>2. Cardinality(old) \in Nat /\ Cardinality(retired) \in Nat
      BY <1>3, FS_CardinalityType
    <3>3. /\ IsFiniteSet(old \cup retired)
          /\ Cardinality(old \cup retired) = Cardinality(old) + Cardinality(retired) - Cardinality(old \cap retired)
      BY <1>3, FS_Union
    <3> QED BY <3>1, <3>2, <3>3
  <2>2. Cardinality(retired) >= 1
    BY <1>5, <2>1, FS_EmptySet
  <2>3. PICK order \in [old -> 1..Cardinality(old)] : LaterOn(redirect, nobody, order)
    BY <1>1 DEF Descends
  <2>4. PICK new : new = [e \in old \cup retired |-> IF e \in retired THEN Cardinality(old) + 1 ELSE order[e]]
    OBVIOUS
  <2>5. new \in [old \cup retired -> 1..Cardinality(old \cup retired)]
    <3>1. \A e \in old : order[e] \in 1..Cardinality(old)
      OBVIOUS
    <3>2. \A e \in old \cup retired : new[e] \in 1..Cardinality(old \cup retired)
      BY <2>1, <2>2, <2>4, <3>1
    <3> QED BY <2>4, <3>2
  <2>6. ASSUME NEW e \in old \cup retired, after[e] \in old \cup retired PROVE new[e] < new[after[e]]
    <3>1. e \in old /\ e \notin retired
      BY <1>1, <2>6 DEF Gone
    <3>2. after[e] = redirect[e]
      BY <1>1, <3>1 DEF Gone
    <3>3. CASE redirect[e] \in retired
      <4>1. new[e] \in 1..Cardinality(old) /\ new[after[e]] = Cardinality(old) + 1
        BY <2>4, <3>1, <3>2, <3>3
      <4> QED BY <2>1, <4>1
    <3>4. CASE redirect[e] \notin retired
      <4>1. redirect[e] \in old /\ order[e] < order[redirect[e]]
        BY <1>1, <2>3, <2>6, <3>1, <3>2, <3>4 DEF LaterOn
      <4> QED BY <2>4, <3>1, <3>2, <3>4, <4>1
    <3> QED BY <3>3, <3>4
  <2>7. LaterOn(after, nobody, new)
    BY <1>2, <2>6 DEF LaterOn
  <2>8. \A e \in old \cup retired : after[e] \in DOMAIN after
    BY <1>1, <1>2, <1>3 DEF Gone
  <2> QED BY <1>2, <2>1, <2>5, <2>7, <2>8 DEF Descends
<1> QED BY <1>4, <1>5

\* From every entity the redirects lead to one that was not merged into another, in no more
\* steps than entities were merged, and to one that exists when redirects name only such.
THEOREM ChainsEnd ==
    ASSUME NEW redirect, NEW nobody, Descends(redirect, nobody), NEW C \in SUBSET (DOMAIN redirect),
           \A x \in C \cap Gone(redirect, nobody) : redirect[x] \in C, NEW e \in C
    PROVE  \E n \in 0..Cardinality(Gone(redirect, nobody)) :
              Following(redirect, nobody)[n][e] \in C \ Gone(redirect, nobody)
<1>1. PICK gone, N : gone = Gone(redirect, nobody) /\ N = Cardinality(gone)
  OBVIOUS
<1>2. N \in Nat
  BY <1>1, FS_CardinalityType DEF Descends
<1>3. PICK order \in [gone -> 1..N] : LaterOn(redirect, nobody, order)
  BY <1>1 DEF Descends
<1>4. PICK after : after = Following(redirect, nobody)
  OBVIOUS
<1>5. \A k \in Nat, x \in DOMAIN redirect :
         after[k][x] = IF k = 0 \/ redirect[x] = nobody THEN x ELSE after[k - 1][redirect[x]]
  <2>1. ASSUME NEW k \in Nat, NEW x \in DOMAIN redirect
        PROVE  after[k][x] = IF k = 0 \/ redirect[x] = nobody THEN x ELSE after[k - 1][redirect[x]]
    BY <1>4, FollowingIs
  <2> QED BY <2>1
<1>6. \A x \in gone : x \in DOMAIN redirect /\ redirect[x] # nobody
  BY <1>1 DEF Gone
<1>7. \A x \in DOMAIN redirect \ gone : redirect[x] = nobody
  BY <1>1 DEF Gone
<1> DEFINE Astray(k) == \E x \in gone \cap C : order[x] >= N + 1 - k /\ after[k][x] \notin C \ gone
<1> DEFINE Bad == {k \in 0..N : Astray(k)}
<1>8. Bad = {}
  <2>1. SUFFICES ASSUME Bad # {} PROVE FALSE
    OBVIOUS
  <2>2. PICK k \in Bad : \A x \in Bad : k <= x
    <3>1. Bad \subseteq Nat
      OBVIOUS
    <3> HIDE DEF Bad
    <3> QED BY <2>1, <3>1, SmallestExists
  <2>3. PICK x \in gone \cap C : order[x] >= N + 1 - k /\ after[k][x] \notin C \ gone
    BY <2>2
  <2>4. k \in 0..N /\ k # 0 /\ order[x] \in 1..N
    BY <1>2, <2>2, <2>3
  <2>5. PICK y \in C : y = redirect[x]
    BY <1>1
  <2>6. k - 1 \in 0..N /\ k \in Nat
    BY <1>2, <2>4
  <2>7. after[k][x] = after[k - 1][y]
    BY <1>5, <1>6, <2>4, <2>5, <2>6
  <2>8. CASE y \notin gone
    <3>1. after[k - 1][y] = y
      BY <1>5, <1>7, <2>6, <2>8
    <3> QED BY <2>3, <2>7, <2>8, <3>1
  <2>9. CASE y \in gone
    <3>1. order[x] < order[y] /\ order[y] \in 1..N
      BY <1>1, <1>3, <2>5, <2>9 DEF LaterOn
    <3>2. order[y] >= N + 1 - (k - 1)
      BY <1>2, <2>3, <2>4, <3>1
    <3>3. Astray(k - 1)
      BY <2>3, <2>7, <2>9, <3>2
    <3>4. k - 1 \in Bad
      BY <2>6, <3>3
    <3> QED BY <2>2, <2>4, <3>4
  <2> QED BY <2>8, <2>9
<1>9. CASE e \in gone
  <2>1. order[e] \in 1..N /\ N \in 0..N /\ order[e] >= N + 1 - N
    BY <1>2, <1>9
  <2>2. after[N][e] \in C \ gone
    BY <1>8, <1>9, <2>1
  <2> QED BY <1>1, <1>4, <2>1, <2>2
<1>10. CASE e \notin gone
  <2>1. 0 \in 0..N /\ after[0][e] = e
    BY <1>2, <1>5
  <2> QED BY <1>1, <1>4, <1>10, <2>1
<1> QED BY <1>9, <1>10

\* CanonicalID finds the end of a chain that is no longer than it looks.
LEMMA CanonicalIs ==
    ASSUME NEW redirect, NEW nobody, Descends(redirect, nobody), NEW e \in DOMAIN redirect,
           NEW n \in 0..RedirectDepth, Following(redirect, nobody)[n][e] \notin Gone(redirect, nobody)
    PROVE  Canonical(redirect, nobody, e) = Following(redirect, nobody)[n][e]
<1>1. \A x \in DOMAIN redirect : redirect[x] \in DOMAIN redirect \cup {nobody}
  BY DEF Descends, Gone
<1>2. n \in Nat /\ RedirectDepth \in Nat /\ n <= RedirectDepth
  BY DEF RedirectDepth
<1>3. Following(redirect, nobody)[RedirectDepth][e] = Following(redirect, nobody)[n][e]
  BY <1>1, <1>2, EndStays
<1> QED BY <1>3 DEF Canonical
===============================================================================
