----------------------- MODULE SymmetrySearch_proofs -----------------------
(***************************************************************************)
(* Proofs about SymmetrySearch for every task, group of symmetries and     *)
(* heuristic: first what the operators on permutations compute, then the   *)
(* invariant of the search and of the reconstruction of the plan.          *)
(***************************************************************************)
EXTENDS SymmetrySearch, TLAPS, FiniteSetTheorems, SequenceTheorems,
        WellFoundedInduction

-----------------------------------------------------------------------------
(***************************************************************************)
(* Recursive functions                                                     *)
(***************************************************************************)

\* Every set of numbers that is not empty has a least element.
LEMMA LeastNumber ==
    ASSUME NEW S \in SUBSET Nat, S # {}
    PROVE  \E n \in S : \A m \in S : n <= m
  <1>1. PICK n \in S : \A m \in S : <<m, n>> \notin OpToRel(<, Nat)
    BY NatLessThanWellFounded, WFMin
  <1>2. \A m \in S : ~(m < n)
    BY <1>1 DEF OpToRel
  <1> QED
    BY <1>2

\* Induction, for a set of numbers.
LEMMA Induct ==
    ASSUME NEW N \in Nat, NEW S, 0 \in S,
           \A i \in 1..N : i - 1 \in S => i \in S
    PROVE  \A i \in 0..N : i \in S
  <1> SUFFICES ASSUME NEW k \in 0..N, k \notin S PROVE FALSE
    OBVIOUS
  <1> DEFINE Out == {i \in 0..N : i \notin S}
  <1>1. PICK n \in Out : \A m \in Out : n <= m
    <2>1. Out \in SUBSET Nat /\ Out # {}
      OBVIOUS
    <2> HIDE DEF Out
    <2> QED
      BY <2>1, LeastNumber
  <1>2. n \in 1..N /\ n - 1 \notin Out
    BY <1>1
  <1>3. n - 1 \in S
    BY <1>2
  <1> QED
    BY <1>1, <1>2, <1>3

\* A function on 0..N that starts with base and goes on with F.
Rules(N, T) == [(1..N) \X T -> T]
Follows(f, N, T, base, F) ==
    /\ f \in [0..N -> T]
    /\ f[0] = base
    /\ \A i \in 1..N : f[i] = F[<<i, f[i-1]>>]

\* A function defined by recursion over 0..N exists.
LEMMA Recursion ==
    ASSUME NEW N \in Nat, NEW T, NEW base \in T, NEW F \in Rules(N, T)
    PROVE  \E f : Follows(f, N, T, base, F)
  <1> USE DEF Rules
  <1> DEFINE Is(f, n) == f[0] = base /\ \A i \in 1..n : f[i] = F[<<i, f[i-1]>>]
             S == {n \in Nat : \E f \in [0..n -> T] : Is(f, n)}
  <1>1. 0 \in S
    <2>1. [i \in 0..0 |-> base] \in [0..0 -> T] /\ Is([i \in 0..0 |-> base], 0)
      OBVIOUS
    <2> QED
      BY <2>1
  <1>2. ASSUME NEW n \in 1..N, n - 1 \in S PROVE n \in S
    <2>1. PICK f \in [0..(n-1) -> T] : Is(f, n-1)
      BY <1>2
    <2> DEFINE e == [i \in 0..n |-> IF i = n THEN F[<<n, f[n-1]>>] ELSE f[i]]
    <2>2. f[n-1] \in T /\ F[<<n, f[n-1]>>] \in T
      OBVIOUS
    <2>3. e \in [0..n -> T]
      BY <2>2
    <2>4. e[0] = base
      BY <2>1
    <2>5. ASSUME NEW i \in 1..n PROVE e[i] = F[<<i, e[i-1]>>]
      <3>1. e[i-1] = f[i-1]
        OBVIOUS
      <3>2. CASE i = n
        <4>1. e[n] = F[<<n, f[n-1]>>]
          OBVIOUS
        <4> HIDE DEF e
        <4> QED
          BY <3>1, <3>2, <4>1
      <3>3. CASE i # n
        <4>1. i \in 1..(n-1) /\ e[i] = f[i]
          BY <3>3
        <4> QED
          BY <2>1, <3>1, <4>1
      <3> QED
        BY <3>2, <3>3
    <2> HIDE DEF e
    <2> QED
      BY <2>3, <2>4, <2>5
  <1>3. N \in S
    <2> HIDE DEF S
    <2> QED
      BY <1>1, <1>2, Induct
  <1> QED
    BY <1>3 DEF Follows

\* There is only one.
AgreeByRecursion(e, f, N) ==
    e[0] = f[0] /\ \A i \in 1..N : e[i-1] = f[i-1] => e[i] = f[i]
Agree(e, f, N) == \A i \in 0..N : e[i] = f[i]

LEMMA RecursionUnique ==
    ASSUME NEW N \in Nat, NEW e, NEW f, AgreeByRecursion(e, f, N)
    PROVE  Agree(e, f, N)
  <1> USE DEF AgreeByRecursion, Agree
  <1> DEFINE S == {i \in 0..N : e[i] = f[i]}
  <1>1. 0 \in S /\ \A i \in 1..N : i - 1 \in S => i \in S
    OBVIOUS
  <1>2. \A i \in 0..N : i \in S
    <2> HIDE DEF S
    <2> QED
      BY <1>1, Induct
  <1> QED
    BY <1>2

\* A finite set of numbers is bounded.
LEMMA Bounded ==
    ASSUME NEW S \in SUBSET Nat, IsFiniteSet(S)
    PROVE  \E N \in Nat : \A s \in S : s <= N
  <1>1. PICK q : q \in Surjection(1..Cardinality(S), S)
    BY FS_CardinalityType DEF ExistsBijection, Bijection
  <1> DEFINE K == Cardinality(S)
             B == {k \in Nat : \E N \in Nat : \A j \in 1..k : j <= K => q[j] <= N}
  <1>2. K \in Nat
    BY FS_CardinalityType
  <1>3. 0 \in B
    OBVIOUS
  <1>4. ASSUME NEW k \in 1..K, k - 1 \in B PROVE k \in B
    <2>1. PICK N \in Nat : \A j \in 1..(k-1) : j <= K => q[j] <= N
      BY <1>4
    <2>2. q[k] \in Nat
      BY <1>1 DEF Surjection
    <2> DEFINE M == N + q[k]
    <2>3. \A j \in 1..k : j <= K => q[j] <= M
      <3> SUFFICES ASSUME NEW j \in 1..k PROVE q[j] <= M
        OBVIOUS
      <3>1. q[j] \in Nat
        <4>1. j \in 1..K
          BY <1>2
        <4> QED
          BY <1>1, <4>1 DEF Surjection
      <3> QED
        BY <1>2, <2>1, <2>2, <3>1
    <2> QED
      BY <2>2, <2>3
  <1>5. K \in B
    <2> HIDE DEF B, K
    <2> QED
      BY <1>2, <1>3, <1>4, Induct
  <1>6. PICK N \in Nat : \A j \in 1..K : q[j] <= N
    BY <1>2, <1>5
  <1> QED
    BY <1>1, <1>6 DEF Surjection

\* A function on a finite set of numbers may refer to its value for a smaller
\* one.
Descending(S) == {next \in [S -> S] : \A s \in S : next[s] <= s}
DescentRules(S, T) == [S \X T -> T]
Descends(f, S, T, next, base, F) ==
    /\ f \in [S -> T]
    /\ \A s \in S : f[s] = IF next[s] = s THEN base[s] ELSE F[<<s, f[next[s]]>>]

LEMMA Descent ==
    ASSUME NEW S \in SUBSET Nat, IsFiniteSet(S), NEW T, NEW next \in Descending(S),
           NEW base, base \in [S -> T], NEW F \in DescentRules(S, T)
    PROVE  \E f : Descends(f, S, T, next, base, F)
  <1> USE DEF Descending, DescentRules
  <1> DEFINE Upto(n) == {s \in S : s <= n}
             Is(f, n) == \A s \in Upto(n) :
                f[s] = IF next[s] = s THEN base[s] ELSE F[<<s, f[next[s]]>>]
             D == {n \in Nat : \E f \in [Upto(n) -> T] : Is(f, n)}
  <1>1. ASSUME NEW n \in Nat, n = 0 \/ n - 1 \in D PROVE n \in D
    <2>1. PICK f : \A s \in S : s < n =>
             f[s] \in T /\ f[s] = IF next[s] = s THEN base[s] ELSE F[<<s, f[next[s]]>>]
      <3>1. CASE n = 0
        BY <3>1
      <3>2. CASE n # 0
        <4>1. PICK d \in [Upto(n-1) -> T] : Is(d, n-1)
          BY <1>1, <3>2
        <4>2. \A s \in S : s < n => s \in Upto(n-1)
          OBVIOUS
        <4> QED
          BY <4>1, <4>2
      <3> QED
        BY <3>1, <3>2
    <2> DEFINE e == [s \in Upto(n) |-> IF next[s] = s THEN base[s]
                                       ELSE F[<<s, f[next[s]]>>]]
    <2>2. ASSUME NEW s \in Upto(n), next[s] # s
          PROVE  next[s] \in S /\ next[s] < n /\ next[s] \in Upto(n)
      <3>1. s \in S /\ s <= n /\ s \in Nat /\ next[s] \in S /\ next[s] \in Nat
        OBVIOUS
      <3> QED
        BY <2>2, <3>1
    <2>3. e \in [Upto(n) -> T]
      BY <2>1, <2>2
    <2>4. \A s \in Upto(n) : s < n => e[s] = f[s]
      BY <2>1
    <2>5. ASSUME NEW s \in Upto(n)
          PROVE  e[s] = IF next[s] = s THEN base[s] ELSE F[<<s, e[next[s]]>>]
      <3>1. CASE next[s] = s
        BY <3>1
      <3>2. CASE next[s] # s
        <4>1. e[next[s]] = f[next[s]]
          BY <2>2, <2>4, <3>2
        <4> QED
          BY <3>2, <4>1
      <3> QED
        BY <3>1, <3>2
    <2> HIDE DEF e
    <2> QED
      BY <2>3, <2>5
  <1>2. PICK N \in Nat : \A s \in S : s <= N
    BY Bounded
  <1>3. N \in D
    <2> HIDE DEF D
    <2>1. 0 \in D /\ \A i \in 1..N : i - 1 \in D => i \in D
      BY <1>1
    <2> QED
      BY <2>1, Induct
  <1>4. Upto(N) = S
    BY <1>2
  <1> QED
    BY <1>3, <1>4 DEF Descends

-----------------------------------------------------------------------------
(***************************************************************************)
(* Automorphisms                                                           *)
(***************************************************************************)

LEMMA AutomorphismFacts ==
    ASSUME NEW p, IsAutomorphism(p)
    PROVE  /\ p \in [State -> State]
           /\ \A s \in State : \A t \in State : p[s] = p[t] => s = t
           /\ \A t \in State : \E s \in State : p[s] = t
           /\ \A s \in State : s \in Goal <=> p[s] \in Goal
  BY DEF IsAutomorphism, Bijection, Injection, Surjection, IsInjective

\* How to show that a function is one.
LEMMA IsOne ==
    ASSUME NEW p \in [State -> State],
           \A s \in State : \A t \in State : p[s] = p[t] => s = t,
           \A t \in State : \E s \in State : p[s] = t,
           \A s \in State : s \in Goal <=> p[s] \in Goal,
           \A s \in State : \A o \in Applicable[s] : \E q \in Applicable[p[s]] :
              Result[p[s]][q] = p[Result[s][o]] /\ Cost[q] = Cost[o],
           \A s \in State : \A q \in Applicable[p[s]] : \E o \in Applicable[s] :
              Result[p[s]][q] = p[Result[s][o]] /\ Cost[q] = Cost[o]
    PROVE  IsAutomorphism(p)
  <1>1. p \in Bijection(State, State)
    BY DEF Bijection, Injection, Surjection, IsInjective
  <1> QED
    BY <1>1 DEF IsAutomorphism

LEMMA IdentityIsAutomorphism == IsAutomorphism(Identity)
  <1>1. Identity \in [State -> State] /\ \A s \in State : Identity[s] = s
    BY DEF Identity
  <1>2. \A s \in State : \A o \in Applicable[s] : Result[s][o] \in State
    BY TaskAssumption
  <1> QED
    BY <1>1, <1>2, IsOne

LEMMA ComposeIsAutomorphism ==
    ASSUME NEW p, NEW q, IsAutomorphism(p), IsAutomorphism(q)
    PROVE  /\ IsAutomorphism(Compose(p, q))
           /\ \A s \in State : Compose(p, q)[s] = q[p[s]]
  <1> DEFINE c == Compose(p, q)
  <1>1. /\ p \in [State -> State] /\ q \in [State -> State]
        /\ c \in [State -> State] /\ \A s \in State : c[s] = q[p[s]]
    BY AutomorphismFacts DEF Compose
  <1>2. \A s \in State : \A t \in State : c[s] = c[t] => s = t
    BY <1>1, AutomorphismFacts
  <1>3. \A t \in State : \E s \in State : c[s] = t
    BY <1>1, AutomorphismFacts
  <1>4. ASSUME NEW s \in State PROVE s \in Goal <=> c[s] \in Goal
    <2>1. p[s] \in State /\ c[s] = q[p[s]]
      BY <1>1
    <2>2. s \in Goal <=> p[s] \in Goal
      BY AutomorphismFacts
    <2>3. p[s] \in Goal <=> q[p[s]] \in Goal
      BY <2>1, AutomorphismFacts
    <2> QED
      BY <2>1, <2>2, <2>3
  <1>5. ASSUME NEW s \in State, NEW o \in Applicable[s]
        PROVE  \E r \in Applicable[c[s]] :
                  Result[c[s]][r] = c[Result[s][o]] /\ Cost[r] = Cost[o]
    <2>1. Result[s][o] \in State /\ p[s] \in State
      BY <1>1, TaskAssumption
    <2>2. PICK r \in Applicable[p[s]] :
             Result[p[s]][r] = p[Result[s][o]] /\ Cost[r] = Cost[o]
      BY DEF IsAutomorphism
    <2>3. PICK u \in Applicable[q[p[s]]] :
             Result[q[p[s]]][u] = q[Result[p[s]][r]] /\ Cost[u] = Cost[r]
      <3>1. \A x \in State : \A y \in Applicable[x] : \E z \in Applicable[q[x]] :
                Result[q[x]][z] = q[Result[x][y]] /\ Cost[z] = Cost[y]
        BY DEF IsAutomorphism
      <3> QED
        BY <2>1, <3>1
    <2>4. c[s] = q[p[s]] /\ c[Result[s][o]] = q[p[Result[s][o]]]
      BY <1>1, <2>1
    <2> HIDE DEF c
    <2>5. /\ u \in Applicable[c[s]] /\ Result[c[s]][u] = c[Result[s][o]]
          /\ Cost[u] = Cost[o]
      BY <2>2, <2>3, <2>4
    <2> QED
      BY <2>5
  <1>6. ASSUME NEW s \in State, NEW r \in Applicable[c[s]]
        PROVE  \E o \in Applicable[s] :
                  Result[c[s]][r] = c[Result[s][o]] /\ Cost[r] = Cost[o]
    <2>1. p[s] \in State /\ c[s] = q[p[s]]
      BY <1>1
    <2>2. PICK u \in Applicable[p[s]] :
             Result[q[p[s]]][r] = q[Result[p[s]][u]] /\ Cost[r] = Cost[u]
      BY <2>1 DEF IsAutomorphism
    <2>3. PICK o \in Applicable[s] :
             Result[p[s]][u] = p[Result[s][o]] /\ Cost[u] = Cost[o]
      BY <2>2 DEF IsAutomorphism
    <2>4. Result[s][o] \in State
      BY <2>3, TaskAssumption
    <2> QED
      BY <1>1, <2>1, <2>2, <2>3, <2>4
  <1>7. IsAutomorphism(c)
    <2> HIDE DEF c
    <2> QED
      BY <1>1, <1>2, <1>3, <1>4, <1>5, <1>6, IsOne
  <1> QED
    BY <1>1, <1>7

LEMMA InverseIsAutomorphism ==
    ASSUME NEW p, IsAutomorphism(p)
    PROVE  /\ IsAutomorphism(InverseOf(p))
           /\ \A s \in State : InverseOf(p)[p[s]] = s
           /\ \A s \in State : p[InverseOf(p)[s]] = s
  <1> DEFINE c == InverseOf(p)
  <1>1. /\ p \in [State -> State]
        /\ \A s \in State : \A t \in State : p[s] = p[t] => s = t
        /\ \A t \in State : \E s \in State : p[s] = t
    BY AutomorphismFacts
  <1>2. \A t \in State : c[t] \in State /\ p[c[t]] = t
    BY <1>1 DEF InverseOf
  <1>3. \A s \in State : c[p[s]] = s
    BY <1>1, <1>2
  <1>4. c \in [State -> State]
    BY <1>2 DEF InverseOf
  <1> HIDE DEF c
  <1>5. \A s \in State : \A t \in State : c[s] = c[t] => s = t
    BY <1>2
  <1>6. \A t \in State : \E s \in State : c[s] = t
    BY <1>1, <1>3
  <1>7. ASSUME NEW s \in State PROVE s \in Goal <=> c[s] \in Goal
    <2>1. c[s] \in State /\ p[c[s]] = s
      BY <1>2
    <2>2. c[s] \in Goal <=> p[c[s]] \in Goal
      BY <2>1, AutomorphismFacts
    <2> QED
      BY <2>1, <2>2
  <1>8. ASSUME NEW s \in State, NEW o \in Applicable[s]
        PROVE  \E q \in Applicable[c[s]] :
                  Result[c[s]][q] = c[Result[s][o]] /\ Cost[q] = Cost[o]
    <2>1. c[s] \in State /\ p[c[s]] = s
      BY <1>2
    <2>2. PICK q \in Applicable[c[s]] :
             Result[s][o] = p[Result[c[s]][q]] /\ Cost[q] = Cost[o]
      BY <2>1 DEF IsAutomorphism
    <2>3. Result[c[s]][q] \in State
      BY <2>1, <2>2, TaskAssumption
    <2> QED
      BY <1>3, <2>2, <2>3
  <1>9. ASSUME NEW s \in State, NEW q \in Applicable[c[s]]
        PROVE  \E o \in Applicable[s] :
                  Result[c[s]][q] = c[Result[s][o]] /\ Cost[q] = Cost[o]
    <2>1. c[s] \in State /\ p[c[s]] = s
      BY <1>2
    <2>2. PICK o \in Applicable[s] :
             Result[s][o] = p[Result[c[s]][q]] /\ Cost[q] = Cost[o]
      BY <2>1 DEF IsAutomorphism
    <2>3. Result[c[s]][q] \in State
      BY <2>1, TaskAssumption
    <2> QED
      BY <1>3, <2>2, <2>3
  <1>10. IsAutomorphism(c)
    BY <1>4, <1>5, <1>6, <1>7, <1>8, <1>9, IsOne
  <1> QED
    BY <1>2, <1>3, <1>10 DEF c

\* Two states are symmetric if an automorphism takes one to the other.
Symmetric(s, t) == \E p : IsAutomorphism(p) /\ p[s] = t

LEMMA SymmetricIsEquivalence ==
    ASSUME NEW s \in State, NEW t \in State, NEW u \in State
    PROVE  /\ Symmetric(s, s)
           /\ Symmetric(s, t) => Symmetric(t, s)
           /\ Symmetric(s, t) /\ Symmetric(t, u) => Symmetric(s, u)
  <1>1. Symmetric(s, s)
    BY IdentityIsAutomorphism DEF Symmetric, Identity
  <1>2. ASSUME Symmetric(s, t) PROVE Symmetric(t, s)
    BY <1>2, InverseIsAutomorphism DEF Symmetric
  <1>3. ASSUME Symmetric(s, t), Symmetric(t, u) PROVE Symmetric(s, u)
    BY <1>3, ComposeIsAutomorphism DEF Symmetric
  <1> QED
    BY <1>1, <1>2, <1>3

\* The transitions of a state are those of a symmetric one.
LEMMA SymmetricTransition ==
    ASSUME NEW s \in State, NEW t \in State, Symmetric(s, t),
           NEW o \in Applicable[s]
    PROVE  \E q \in Applicable[t] :
              Symmetric(Result[s][o], Result[t][q]) /\ Cost[q] = Cost[o]
  <1>1. PICK p : IsAutomorphism(p) /\ p[s] = t
    BY DEF Symmetric
  <1>2. PICK q \in Applicable[p[s]] :
           Result[p[s]][q] = p[Result[s][o]] /\ Cost[q] = Cost[o]
    BY <1>1 DEF IsAutomorphism
  <1> QED
    BY <1>1, <1>2 DEF Symmetric

LEMMA SymmetricGoal ==
    ASSUME NEW s \in State, NEW t \in State, Symmetric(s, t)
    PROVE  s \in Goal <=> t \in Goal
  BY DEF Symmetric, IsAutomorphism

\* Symmetric states are as far from the goal.
LEMMA SymmetricNoFarther ==
    ASSUME NEW s \in Solvable, NEW t \in State, Symmetric(s, t)
    PROVE  t \in Solvable /\ Dist[t] <= Dist[s]
  <1> DEFINE Bad == {n \in Nat : \E m \in Solvable : \E u \in State :
                       /\ Symmetric(m, u) /\ Rank[m] = n
                       /\ ~(u \in Solvable /\ Dist[u] <= Dist[m])}
  <1>0. Solvable \subseteq State /\ \A m \in State : Dist[m] \in Nat /\ Rank[m] \in Nat
    BY DistanceAssumption
  <1>1. SUFFICES ASSUME Bad # {} PROVE FALSE
    BY <1>0
  <1>2. PICK n \in Bad : \A k \in Bad : n <= k
    <2>1. Bad \in SUBSET Nat
      OBVIOUS
    <2> HIDE DEF Bad
    <2> QED
      BY <1>1, <2>1, LeastNumber
  <1>3. PICK m \in Solvable, u \in State :
           /\ Symmetric(m, u) /\ Rank[m] = n
           /\ ~(u \in Solvable /\ Dist[u] <= Dist[m])
    OBVIOUS
  <1>4. CASE m \in Goal
    <2>1. u \in Goal
      BY <1>0, <1>3, <1>4, SymmetricGoal
    <2> QED
      BY <1>3, <1>4, <2>1, DistanceAssumption
  <1>5. CASE m \notin Goal
    <2>1. PICK o \in Applicable[m] : /\ Result[m][o] \in Solvable
                                     /\ Dist[m] = Cost[o] + Dist[Result[m][o]]
                                     /\ Rank[Result[m][o]] < Rank[m]
      BY <1>5, DistanceAssumption
    <2>2. PICK q \in Applicable[u] : /\ Symmetric(Result[m][o], Result[u][q])
                                     /\ Cost[q] = Cost[o]
      BY <1>0, <1>3, SymmetricTransition
    <2>3. Result[u][q] \in State /\ Cost[o] \in Nat
      BY <1>0, <2>1, <2>2, TaskAssumption
    <2>4. Result[u][q] \in Solvable /\ Dist[Result[u][q]] <= Dist[Result[m][o]]
      <3>1. Rank[Result[m][o]] \notin Bad
        BY <1>0, <1>2, <1>3, <2>1
      <3> QED
        BY <1>0, <2>1, <2>2, <2>3, <3>1
    <2>5. u \in Solvable /\ Dist[u] <= Cost[q] + Dist[Result[u][q]]
      BY <2>2, <2>4, DistanceAssumption
    <2> QED
      BY <1>0, <1>3, <2>1, <2>2, <2>3, <2>4, <2>5
  <1> QED
    BY <1>4, <1>5

-----------------------------------------------------------------------------
(***************************************************************************)
(* Canonical representatives                                               *)
(***************************************************************************)

\* What is closed under the generators.
Closed(S) == \A i \in DOMAIN generators : \A t \in S : generators[i][t] \in S

\* The generators as the assumptions describe them.
GeneratorsOK == generators \in GeneratorLists

LEMMA GeneratorFacts ==
    ASSUME GeneratorsOK
    PROVE  /\ Len(generators) \in Nat
           /\ \A i \in 1..Len(generators) :
                 /\ IsAutomorphism(generators[i])
                 /\ \A S : Closed(S) => \A t \in S : generators[i][t] \in S
  BY SymmetryAssumption DEF GeneratorsOK, Closed

\* One turn of the loop over the generators takes a state to one of its orbit
\* that is not larger.
LEMMA ReduceOnceFacts ==
    ASSUME GeneratorsOK, NEW s \in State
    PROVE  /\ IsAutomorphism(ReduceOnce(s))
           /\ ReduceOnce(s)[s] \in State
           /\ ReduceOnce(s)[s] <= s
           /\ \A S \in SUBSET State : Closed(S) /\ s \in S => ReduceOnce(s)[s] \in S
  <1> DEFINE N == Len(generators)
             Turn(i, p) == IF generators[i][p[s]] < p[s]
                           THEN Compose(p, generators[i]) ELSE p
             Is(f) == f = [i \in 0..N |-> IF i = 0 THEN Identity ELSE Turn(i, f[i-1])]
             f == CHOOSE f : Is(f)
             P == {p \in [State -> State] : IsAutomorphism(p)}
  <1>1. /\ N \in Nat
        /\ \A i \in 1..N : IsAutomorphism(generators[i])
        /\ \A i \in 1..N : \A S : Closed(S) => \A t \in S : generators[i][t] \in S
    BY GeneratorFacts
  <1>2. Identity \in P
    BY IdentityIsAutomorphism, AutomorphismFacts
  <1>3. \A i \in 1..N : \A p \in P : Turn(i, p) \in P
    BY <1>1, ComposeIsAutomorphism, AutomorphismFacts
  <1>4. Is(f)
    <2> DEFINE F == [x \in (1..N) \X P |-> Turn(x[1], x[2])]
    <2>1. F \in Rules(N, P)
      BY <1>3 DEF Rules
    <2>0. PICK r : Follows(r, N, P, Identity, F)
      <3>1. N \in Nat
        BY <1>1
      <3> HIDE DEF F, P, N
      <3> QED
        BY <1>2, <2>1, <3>1, Recursion
    <2>2. /\ r \in [0..N -> P] /\ r[0] = Identity
          /\ \A i \in 1..N : r[i] = F[<<i, r[i-1]>>]
      BY <2>0 DEF Follows
    <2>3. ASSUME NEW i \in 1..N PROVE r[i] = Turn(i, r[i-1])
      <3>1. r[i-1] \in P
        <4>1. i \in 1..N /\ N \in Nat
          BY <1>1
        <4> HIDE DEF P, N, F
        <4>2. i - 1 \in 0..N
          BY <4>1
        <4> QED
          BY <2>2, <4>2
      <3>2. F[<<i, r[i-1]>>] = Turn(i, r[i-1])
        BY <3>1
      <3> QED
        BY <2>2, <3>2
    <2>4. Is(r)
      <3>1. ASSUME NEW i \in 0..N
            PROVE  r[i] = IF i = 0 THEN Identity ELSE Turn(i, r[i-1])
        <4>1. CASE i = 0
          BY <2>2, <4>1
        <4>2. CASE i # 0
          BY <1>1, <2>3, <4>2
        <4> QED
          BY <4>1, <4>2
      <3> HIDE DEF Turn
      <3> QED
        BY <2>2, <3>1
    <2> HIDE DEF Is
    <2> QED
      BY <2>4
  <1>5. ReduceOnce(s) = f[N]
    BY DEF ReduceOnce
  <1> DEFINE S0 == {i \in 0..N : /\ f[i] \in P /\ f[i][s] <= s
                                 /\ \A S \in SUBSET State :
                                       Closed(S) /\ s \in S => f[i][s] \in S}
  <1> HIDE DEF f
  <1>6. 0 \in S0
    <2>1. f[0] = Identity /\ Identity[s] = s /\ s \in Nat
      BY <1>1, <1>4, SymmetryAssumption DEF Identity
    <2>2. f[0] \in P /\ f[0][s] <= s /\ 0 \in 0..N
      BY <1>1, <1>2, <2>1
    <2>3. \A S \in SUBSET State : Closed(S) /\ s \in S => f[0][s] \in S
      BY <2>1
    <2> HIDE DEF P
    <2> QED
      BY <2>2, <2>3
  <1>7. ASSUME NEW i \in 1..N, i - 1 \in S0 PROVE i \in S0
    <2> DEFINE p == f[i-1]
               gen == generators[i]
    <2>1. f[i] = Turn(i, p)
      <3>1. N \in Nat
        BY <1>1
      <3> HIDE DEF N, Turn
      <3> QED
        BY <1>4, <3>1
    <2>2. /\ p \in P /\ p[s] \in State /\ p[s] <= s
          /\ \A S \in SUBSET State : Closed(S) /\ s \in S => p[s] \in S
      BY <1>7
    <2>3. IsAutomorphism(gen) /\ IsAutomorphism(p)
      BY <1>1, <2>2
    <2>6. gen[p[s]] \in State /\ gen[p[s]] \in Nat /\ p[s] \in Nat /\ s \in Nat
      <3> HIDE DEF p, gen
      <3>1. gen \in [State -> State]
        BY <2>3, AutomorphismFacts
      <3> QED
        BY <2>2, <3>1, SymmetryAssumption
    <2>4. CASE ~(gen[p[s]] < p[s])
      BY <1>7, <2>1, <2>4
    <2>5. CASE gen[p[s]] < p[s]
      <3>1. f[i] = Compose(p, gen) /\ f[i] \in P
        BY <1>3, <2>1, <2>2, <2>5
      <3>2. f[i][s] = gen[p[s]]
        BY <2>2, <2>3, <3>1, ComposeIsAutomorphism
      <3>3. gen[p[s]] <= s
        <4> HIDE DEF p, gen
        <4> QED
          BY <2>2, <2>5, <2>6
      <3>4. \A S \in SUBSET State : Closed(S) /\ s \in S => gen[p[s]] \in S
        BY <1>1, <2>2
      <3> QED
        BY <3>1, <3>2, <3>3, <3>4
    <2> HIDE DEF S0, p, gen
    <2> QED
      BY <2>4, <2>5
  <1>8. N \in S0
    <2>1. N \in Nat
      BY <1>1
    <2> HIDE DEF S0, N
    <2> QED
      BY <2>1, <1>6, <1>7, Induct
  <1> QED
    BY <1>5, <1>8

\* What ToCanonical computes for one state in terms of another.
LEMMA ToCanonicalStep ==
    ASSUME GeneratorsOK, NEW s \in State
    PROVE  ToCanonical(s) = IF ReduceOnce(s)[s] = s THEN ReduceOnce(s)
                            ELSE Compose(ReduceOnce(s), ToCanonical(ReduceOnce(s)[s]))
  <1> DEFINE T == [State -> State]
             Is(to) == to = [r \in State |->
                               LET p == ReduceOnce(r)
                               IN  IF p[r] = r THEN p ELSE Compose(p, to[p[r]])]
             to == CHOOSE to : Is(to)
             next == [r \in State |-> ReduceOnce(r)[r]]
             base == [r \in State |-> ReduceOnce(r)]
             F == [x \in State \X T |-> Compose(ReduceOnce(x[1]), x[2])]
  <1>1. \A r \in State : /\ ReduceOnce(r) \in T /\ ReduceOnce(r)[r] \in State
                          /\ ReduceOnce(r)[r] <= r
    BY ReduceOnceFacts, AutomorphismFacts
  <1>2. next \in Descending(State)
    BY <1>1 DEF Descending
  <1>3. base \in [State -> T]
    BY <1>1
  <1>4. \A r \in State : \A q \in T : Compose(ReduceOnce(r), q) \in T
    BY <1>1 DEF Compose
  <1>5. F \in DescentRules(State, T)
    BY <1>4 DEF DescentRules
  <1>6. PICK f : Descends(f, State, T, next, base, F)
    <2> HIDE DEF next, base, F, T
    <2> QED
      BY <1>2, <1>3, <1>5, Descent, SymmetryAssumption
  <1>7. ASSUME NEW r \in State
        PROVE  f[r] = LET p == ReduceOnce(r)
                      IN  IF p[r] = r THEN p ELSE Compose(p, f[p[r]])
    <2>1. f \in [State -> T] /\ f[r] = IF next[r] = r THEN base[r] ELSE F[<<r, f[next[r]]>>]
      BY <1>6 DEF Descends
    <2>2. next[r] = ReduceOnce(r)[r] /\ base[r] = ReduceOnce(r) /\ next[r] \in State
      BY <1>1
    <2>3. f[next[r]] \in T
      BY <2>1, <2>2
    <2>4. F[<<r, f[next[r]]>>] = Compose(ReduceOnce(r), f[next[r]])
      BY <2>3
    <2> HIDE DEF F, next, base, T
    <2> QED
      BY <2>1, <2>2, <2>4
  <1>8. Is(f)
    <2>1. f \in [State -> T]
      BY <1>6 DEF Descends
    <2> QED
      BY <1>7, <2>1
  <1>9. Is(to)
    <2> HIDE DEF Is
    <2> QED
      BY <1>8
  <1>10. \A r \in State : ToCanonical(r) = to[r]
    BY DEF ToCanonical
  <1> HIDE DEF to
  <1>11. to[s] = LET p == ReduceOnce(s)
                 IN  IF p[s] = s THEN p ELSE Compose(p, to[p[s]])
    BY <1>9
  <1> QED
    BY <1>1, <1>10, <1>11

\* The permutation to the canonical representative is an automorphism, the
\* representative is in whatever is closed under the generators and holds the
\* state, and it is its own representative.
LEMMA ToCanonicalFacts ==
    ASSUME GeneratorsOK, NEW s \in State
    PROVE  /\ IsAutomorphism(ToCanonical(s))
           /\ Canonical(s) \in State
           /\ Canonical(Canonical(s)) = Canonical(s)
           /\ \A S \in SUBSET State : Closed(S) /\ s \in S => Canonical(s) \in S
  <1> DEFINE Facts(r) ==
               /\ IsAutomorphism(ToCanonical(r))
               /\ Canonical(r) \in State
               /\ Canonical(Canonical(r)) = Canonical(r)
               /\ \A S \in SUBSET State : Closed(S) /\ r \in S => Canonical(r) \in S
             Bad == {r \in State : ~Facts(r)}
  <1>1. SUFFICES ASSUME Bad # {} PROVE FALSE
    OBVIOUS
  <1>2. PICK r \in Bad : \A m \in Bad : r <= m
    <2>1. Bad \in SUBSET Nat
      BY SymmetryAssumption
    <2> HIDE DEF Bad
    <2> QED
      BY <1>1, <2>1, LeastNumber
  <1> DEFINE p == ReduceOnce(r)
  <1>3. /\ r \in State /\ IsAutomorphism(p) /\ p[r] \in State /\ p[r] <= r
        /\ \A S \in SUBSET State : Closed(S) /\ r \in S => p[r] \in S
    BY ReduceOnceFacts
  <1> HIDE DEF p
  <1>4. CASE p[r] = r
    <2>1. ToCanonical(r) = p /\ Canonical(r) = r
      BY <1>3, <1>4, ToCanonicalStep DEF p, Canonical
    <2>2. Facts(r)
      BY <1>3, <1>4, <2>1
    <2> QED
      BY <2>2
  <1>5. CASE p[r] # r
    <2> DEFINE m == p[r]
    <2>0. m \in Nat /\ r \in Nat /\ m < r
      <3>1. m \in State /\ r \in State /\ m <= r /\ m # r
        BY <1>3, <1>5
      <3> HIDE DEF m
      <3> QED
        BY <3>1, SymmetryAssumption
    <2>1. m \in State /\ m \notin Bad
      <3> HIDE DEF Bad
      <3> QED
        BY <1>2, <1>3, <2>0
    <2>2. Facts(m)
      BY <2>1
    <2>3. ToCanonical(r) = Compose(p, ToCanonical(m))
      BY <1>3, <1>5, ToCanonicalStep DEF p
    <2>4. IsAutomorphism(ToCanonical(r)) /\ ToCanonical(r)[r] = ToCanonical(m)[m]
      BY <1>3, <2>2, <2>3, ComposeIsAutomorphism
    <2>5. Canonical(r) = Canonical(m)
      BY <2>4 DEF Canonical
    <2>6. Facts(r)
      BY <1>3, <2>2, <2>4, <2>5
    <2> QED
      BY <2>6
  <1> QED
    BY <1>4, <1>5

\* The permutation from one state to another that has the same representative.
LEMMA FromToFacts ==
    ASSUME GeneratorsOK, NEW s \in State, NEW t \in State
    PROVE  /\ IsAutomorphism(FromTo(s, t))
           /\ Canonical(s) = Canonical(t) => FromTo(s, t)[s] = t
  <1>1. IsAutomorphism(ToCanonical(s)) /\ IsAutomorphism(ToCanonical(t))
    BY ToCanonicalFacts
  <1>2. /\ IsAutomorphism(InverseOf(ToCanonical(t)))
        /\ InverseOf(ToCanonical(t))[ToCanonical(t)[t]] = t
    BY <1>1, InverseIsAutomorphism
  <1>3. /\ IsAutomorphism(FromTo(s, t))
        /\ FromTo(s, t)[s] = InverseOf(ToCanonical(t))[ToCanonical(s)[s]]
    BY <1>1, <1>2, ComposeIsAutomorphism DEF FromTo
  <1> QED
    BY <1>2, <1>3 DEF Canonical

LEMMA SameCanonicalIsSymmetric ==
    ASSUME GeneratorsOK, NEW s \in State, NEW t \in State, Canonical(s) = Canonical(t)
    PROVE  Symmetric(s, t)
  BY FromToFacts DEF Symmetric

\* A generator that maps a finite set into itself maps nothing else into it.
LEMMA ComplementIsClosed ==
    ASSUME GeneratorsOK, NEW S \in SUBSET State, Closed(S)
    PROVE  Closed(State \ S)
  <1> SUFFICES ASSUME NEW i \in DOMAIN generators, NEW t \in State \ S,
                      generators[i][t] \in S
               PROVE  FALSE
    <2>1. \A i \in DOMAIN generators : generators[i] \in [State -> State]
      BY SymmetryAssumption, AutomorphismFacts DEF GeneratorsOK
    <2> QED
      BY <2>1 DEF Closed
  <1> DEFINE gen == generators[i]
             f == [s \in S |-> gen[s]]
  <1>1. IsAutomorphism(gen) /\ \A s \in S : gen[s] \in S
    BY SymmetryAssumption DEF GeneratorsOK, Closed
  <1>2. \A s \in State : \A r \in State : gen[s] = gen[r] => s = r
    BY <1>1, AutomorphismFacts
  <1> HIDE DEF gen
  <1>3. f \in Injection(S, S)
    BY <1>1, <1>2 DEF Injection, IsInjective
  <1>4. IsFiniteSet(S)
    BY FS_Subset, SymmetryAssumption
  <1>5. f \in Surjection(S, S)
    BY <1>3, <1>4, FS_Injection
  <1>6. PICK s \in S : f[s] = gen[t]
    BY <1>5 DEF Surjection, gen
  <1> QED
    BY <1>2, <1>6

\* A state with the same representative is in the orbit: it is in no set that
\* is closed without being so in its complement.
LEMMA SameCanonicalIsInOrbit ==
    ASSUME GeneratorsOK, NEW s \in State, NEW t \in State, Canonical(s) = Canonical(t)
    PROVE  t \in Orbit(s)
  <1>1. ASSUME NEW S \in SUBSET State, Closed(S), s \in S PROVE t \in S
    <2>1. Canonical(s) \in S
      BY <1>1, ToCanonicalFacts
    <2> SUFFICES ASSUME t \in State \ S PROVE FALSE
      OBVIOUS
    <2>2. Canonical(t) \in State \ S
      BY <1>1, ComplementIsClosed, ToCanonicalFacts
    <2> QED
      BY <2>1, <2>2
  <1>2. Orbits[generators][s] =
          {u \in State : \A S \in ClosedSets(generators) : s \in S => u \in S}
    BY DEF Orbits, GeneratorsOK
  <1> QED
    BY <1>1, <1>2 DEF Orbit, ClosedSets, Closed

-----------------------------------------------------------------------------
(***************************************************************************)
(* The reconstruction of a plan                                            *)
(***************************************************************************)

\* reverse_permutations: each is an automorphism, the next one starts with one
\* permutation more.
LEMMA ReversePermutationFacts ==
    ASSUME permutations \in Seq([State -> State]),
           \A i \in 1..Len(permutations) : IsAutomorphism(permutations[i])
    PROVE  /\ \A k \in 0..Len(permutations) : IsAutomorphism(ReversePermutation(k))
           /\ ReversePermutation(0) = Identity
           /\ \A k \in 1..Len(permutations) :
                 ReversePermutation(k) = Compose(permutations[Len(permutations) + 1 - k],
                                                 ReversePermutation(k-1))
  <1> DEFINE N == Len(permutations)
             perm(j) == permutations[N + 1 - j]
             Is(f) == f = [j \in 0..N |-> IF j = 0 THEN Identity
                                         ELSE Compose(perm(j), f[j-1])]
             f == CHOOSE f : Is(f)
             P == {p \in [State -> State] : IsAutomorphism(p)}
             F == [x \in (1..N) \X P |-> Compose(perm(x[1]), x[2])]
  <1>1. N \in Nat
    OBVIOUS
  <1>2. \A j \in 1..N : IsAutomorphism(perm(j))
    <2> TAKE j \in 1..N
    <2>1. N + 1 - j \in 1..N
      BY <1>1
    <2> QED
      BY <2>1
  <1>3. Identity \in P
    BY IdentityIsAutomorphism, AutomorphismFacts
  <1> HIDE DEF perm, N
  <1>4. \A j \in 1..N : \A p \in P : Compose(perm(j), p) \in P
    BY <1>2, ComposeIsAutomorphism, AutomorphismFacts
  <1>5. F \in Rules(N, P)
    BY <1>4 DEF Rules
  <1>6. PICK r : Follows(r, N, P, Identity, F)
    <2> HIDE DEF P, F
    <2> QED
      BY <1>1, <1>3, <1>5, Recursion
  <1>7. r \in [0..N -> P] /\ r[0] = Identity /\ \A i \in 1..N : r[i] = F[<<i, r[i-1]>>]
    BY <1>6 DEF Follows
  <1>8. ASSUME NEW j \in 1..N PROVE r[j] = Compose(perm(j), r[j-1])
    <2>1. r[j-1] \in P
      <3> HIDE DEF P, F
      <3>1. j - 1 \in 0..N
        BY <1>1
      <3> QED
        BY <1>7, <3>1
    <2>2. F[<<j, r[j-1]>>] = Compose(perm(j), r[j-1])
      BY <2>1
    <2> QED
      BY <1>7, <2>2
  <1>9. Is(r)
    <2>1. ASSUME NEW j \in 0..N
          PROVE  r[j] = IF j = 0 THEN Identity ELSE Compose(perm(j), r[j-1])
      <3>1. CASE j = 0
        BY <1>7, <3>1
      <3>2. CASE j # 0
        BY <1>1, <1>8, <3>2
      <3> QED
        BY <3>1, <3>2
    <2> HIDE DEF P
    <2> QED
      BY <1>7, <2>1
  <1>10. Is(f)
    <2> HIDE DEF Is
    <2> QED
      BY <1>9
  <1>11. \A k : ReversePermutation(k) = f[k]
    BY DEF ReversePermutation, perm, N
  <1> HIDE DEF f
  <1>12. f[0] = Identity /\ \A j \in 1..N : f[j] = Compose(perm(j), f[j-1])
    BY <1>1, <1>10
  <1> DEFINE S == {j \in 0..N : IsAutomorphism(f[j])}
  <1>13. 0 \in S
    BY <1>1, <1>12, IdentityIsAutomorphism
  <1>14. \A j \in 1..N : j - 1 \in S => j \in S
    BY <1>1, <1>2, <1>12, ComposeIsAutomorphism
  <1>15. \A j \in 0..N : j \in S
    <2> HIDE DEF S
    <2> QED
      BY <1>1, <1>13, <1>14, Induct
  <1> QED
    BY <1>11, <1>12, <1>15 DEF perm, N

\* What executing a sequence of operators does, one operator after the other.
Executed(s, ops, r) ==
    /\ r \in [0..Len(ops) -> State \cup {NoState}]
    /\ r[0] = s
    /\ \A i \in 1..Len(ops) :
          r[i] = IF r[i-1] = NoState THEN NoState
                 ELSE IF ops[i] \notin Applicable[r[i-1]] THEN NoState
                 ELSE Result[r[i-1]][ops[i]]

LEMMA ExecuteIsExecuted ==
    ASSUME NEW s \in State, NEW ops \in Seq(Op)
    PROVE  \E r : Executed(s, ops, r) /\ Execute(s, ops) = r[Len(ops)]
  <1> DEFINE N == Len(ops)
             T == State \cup {NoState}
             Turn(i, r) == IF r = NoState THEN NoState
                           ELSE IF ops[i] \notin Applicable[r] THEN NoState
                           ELSE Result[r][ops[i]]
             Is(f) == f = [i \in 0..N |-> IF i = 0 THEN s ELSE Turn(i, f[i-1])]
             F == [x \in (1..N) \X T |-> Turn(x[1], x[2])]
             f == CHOOSE f : Is(f)
  <1>1. N \in Nat /\ \A i \in 1..N : ops[i] \in Op
    OBVIOUS
  <1>2. \A i \in 1..N : \A r \in T : Turn(i, r) \in T
    BY <1>1, TaskAssumption
  <1>3. F \in Rules(N, T)
    BY <1>2 DEF Rules
  <1>4. PICK r : Follows(r, N, T, s, F)
    <2>1. s \in T
      OBVIOUS
    <2> HIDE DEF T, F, N
    <2> QED
      BY <1>1, <1>3, <2>1, Recursion
  <1>5. r \in [0..N -> T] /\ r[0] = s /\ \A i \in 1..N : r[i] = F[<<i, r[i-1]>>]
    BY <1>4 DEF Follows
  <1>6. ASSUME NEW i \in 1..N PROVE r[i] = Turn(i, r[i-1])
    <2>1. r[i-1] \in T
      <3> HIDE DEF T, F, N
      <3>1. i - 1 \in 0..N
        BY <1>1
      <3> QED
        BY <1>5, <3>1
    <2>2. F[<<i, r[i-1]>>] = Turn(i, r[i-1])
      BY <2>1
    <2> QED
      BY <1>5, <2>2
  <1>7. ASSUME NEW i \in 0..N PROVE r[i] = IF i = 0 THEN s ELSE Turn(i, r[i-1])
    <2> HIDE DEF Turn
    <2>1. CASE i = 0
      BY <1>5, <2>1
    <2>2. CASE i # 0
      BY <1>1, <1>6, <2>2
    <2> QED
      BY <2>1, <2>2
  <1>8. Is(r)
    <2> HIDE DEF Turn, N, T
    <2> QED
      BY <1>5, <1>7
  <1>9. Is(f)
    <2> HIDE DEF Is
    <2> QED
      BY <1>8
  <1>10. Execute(s, ops) = f[N]
    BY DEF Execute
  <1> HIDE DEF f
  <1>11. f[0] = s /\ \A i \in 1..N : f[i] = Turn(i, f[i-1])
    <2> HIDE DEF Turn
    <2> QED
      BY <1>1, <1>9
  <1>12. \A i \in 0..N : f[i] = r[i]
    <2>1. \A i \in 1..N : f[i-1] = r[i-1] => f[i] = r[i]
      BY <1>6, <1>11
    <2>2. f[0] = r[0] /\ N \in Nat
      BY <1>1, <1>5, <1>11
    <2> HIDE DEF N
    <2>3. AgreeByRecursion(f, r, N)
      BY <2>1, <2>2 DEF AgreeByRecursion
    <2> QED
      BY <2>2, <2>3, RecursionUnique DEF Agree
  <1>13. Executed(s, ops, r)
    BY <1>5, <1>6 DEF Executed
  <1> QED
    BY <1>1, <1>10, <1>12, <1>13

\* One operator more.
LEMMA ExecuteAppend ==
    ASSUME NEW s \in State, NEW ops \in Seq(Op), NEW o \in Op,
           Execute(s, ops) \in State, o \in Applicable[Execute(s, ops)]
    PROVE  Execute(s, Append(ops, o)) = Result[Execute(s, ops)][o]
  <1> DEFINE N == Len(ops)
             longer == Append(ops, o)
  <1>1. /\ N \in Nat /\ longer \in Seq(Op) /\ Len(longer) = N + 1
        /\ longer[N+1] = o /\ \A i \in 1..N : longer[i] = ops[i]
    BY AppendProperties
  <1>2. PICK r : Executed(s, ops, r) /\ Execute(s, ops) = r[N]
    BY ExecuteIsExecuted
  <1> HIDE DEF longer
  <1>3. PICK e : Executed(s, longer, e) /\ Execute(s, longer) = e[N+1]
    BY <1>1, ExecuteIsExecuted
  <1> HIDE DEF N
  <1>4. ASSUME NEW i \in 1..N PROVE r[i-1] = e[i-1] => r[i] = e[i]
    <2>1. i \in 1..Len(ops) /\ i \in 1..Len(longer) /\ longer[i] = ops[i]
      BY <1>1 DEF N
    <2>2. r[i] = IF r[i-1] = NoState THEN NoState
                 ELSE IF ops[i] \notin Applicable[r[i-1]] THEN NoState
                 ELSE Result[r[i-1]][ops[i]]
      BY <1>2, <2>1 DEF Executed
    <2>3. e[i] = IF e[i-1] = NoState THEN NoState
                 ELSE IF longer[i] \notin Applicable[e[i-1]] THEN NoState
                 ELSE Result[e[i-1]][longer[i]]
      BY <1>3, <2>1 DEF Executed
    <2> QED
      BY <2>1, <2>2, <2>3
  <1>5. AgreeByRecursion(r, e, N)
    BY <1>2, <1>3, <1>4 DEF Executed, AgreeByRecursion
  <1>6. \A i \in 0..N : r[i] = e[i]
    BY <1>1, <1>5, RecursionUnique DEF Agree
  <1>7. e[N] = Execute(s, ops)
    BY <1>1, <1>2, <1>6
  <1>8. e[N+1] = IF e[N] = NoState THEN NoState
                 ELSE IF o \notin Applicable[e[N]] THEN NoState
                 ELSE Result[e[N]][o]
    <2>1. N + 1 \in 1..(N+1) /\ (N + 1) - 1 = N
      BY <1>1
    <2> QED
      BY <1>1, <1>3, <2>1 DEF Executed
  <1> QED
    BY <1>3, <1>7, <1>8, SymmetryAssumption DEF longer

LEMMA ExecuteNothing ==
    ASSUME NEW s \in State
    PROVE  Execute(s, <<>>) = s
  <1>1. <<>> \in Seq(Op) /\ Len(<<>>) = 0
    OBVIOUS
  <1>2. PICK r : Executed(s, <<>>, r) /\ Execute(s, <<>>) = r[Len(<<>>)]
    BY <1>1, ExecuteIsExecuted
  <1> QED
    BY <1>1, <1>2 DEF Executed

\* The same for the cost of the operators.
Added(ops, r) ==
    /\ r \in [0..Len(ops) -> Nat]
    /\ r[0] = 0
    /\ \A i \in 1..Len(ops) : r[i] = r[i-1] + Cost[ops[i]]

LEMMA PathCostIsAdded ==
    ASSUME NEW ops \in Seq(Op)
    PROVE  \E r : Added(ops, r) /\ PathCost(ops) = r[Len(ops)]
  <1> DEFINE N == Len(ops)
             Is(f) == f = [i \in 0..N |-> IF i = 0 THEN 0 ELSE f[i-1] + Cost[ops[i]]]
             F == [x \in (1..N) \X Nat |-> x[2] + Cost[ops[x[1]]]]
             f == CHOOSE f : Is(f)
  <1>1. N \in Nat /\ \A i \in 1..N : Cost[ops[i]] \in Nat
    BY TaskAssumption
  <1>2. F \in Rules(N, Nat)
    BY <1>1 DEF Rules
  <1>3. PICK r : Follows(r, N, Nat, 0, F)
    <2> HIDE DEF F, N
    <2> QED
      BY <1>1, <1>2, Recursion
  <1>4. r \in [0..N -> Nat] /\ r[0] = 0 /\ \A i \in 1..N : r[i] = F[<<i, r[i-1]>>]
    BY <1>3 DEF Follows
  <1>5. ASSUME NEW i \in 1..N PROVE r[i] = r[i-1] + Cost[ops[i]]
    <2>1. r[i-1] \in Nat
      BY <1>1, <1>4
    <2>2. F[<<i, r[i-1]>>] = r[i-1] + Cost[ops[i]]
      BY <2>1
    <2> QED
      BY <1>4, <2>2
  <1> HIDE DEF F, N
  <1>6. ASSUME NEW i \in 0..N PROVE r[i] = IF i = 0 THEN 0 ELSE r[i-1] + Cost[ops[i]]
    <2>1. CASE i = 0
      BY <1>4, <2>1
    <2>2. CASE i # 0
      BY <1>1, <1>5, <2>2
    <2> QED
      BY <2>1, <2>2
  <1>7. Is(r)
    BY <1>4, <1>6
  <1>8. Is(f)
    <2> HIDE DEF Is
    <2> QED
      BY <1>7
  <1>9. PathCost(ops) = f[N]
    BY DEF PathCost, N
  <1> HIDE DEF f
  <1>10. f[0] = 0 /\ \A i \in 1..N : f[i] = f[i-1] + Cost[ops[i]]
    BY <1>1, <1>8
  <1>11. \A i \in 0..N : f[i] = r[i]
    <2>1. \A i \in 1..N : f[i-1] = r[i-1] => f[i] = r[i]
      BY <1>5, <1>10
    <2>2. AgreeByRecursion(f, r, N)
      BY <1>4, <1>10, <2>1 DEF AgreeByRecursion
    <2> QED
      BY <1>1, <2>2, RecursionUnique DEF Agree
  <1>12. Added(ops, r)
    BY <1>4, <1>5 DEF Added, N
  <1> QED
    BY <1>1, <1>9, <1>11, <1>12 DEF N

LEMMA PathCostAppend ==
    ASSUME NEW ops \in Seq(Op), NEW o \in Op
    PROVE  /\ PathCost(ops) \in Nat
           /\ PathCost(Append(ops, o)) = PathCost(ops) + Cost[o]
  <1> DEFINE N == Len(ops)
             longer == Append(ops, o)
  <1>1. /\ N \in Nat /\ longer \in Seq(Op) /\ Len(longer) = N + 1
        /\ longer[N+1] = o /\ \A i \in 1..N : longer[i] = ops[i]
    BY AppendProperties
  <1>2. PICK r : Added(ops, r) /\ PathCost(ops) = r[N]
    BY PathCostIsAdded
  <1> HIDE DEF longer
  <1>3. PICK e : Added(longer, e) /\ PathCost(longer) = e[N+1]
    BY <1>1, PathCostIsAdded
  <1> HIDE DEF N
  <1>4. ASSUME NEW i \in 1..N PROVE r[i-1] = e[i-1] => r[i] = e[i]
    <2>1. i \in 1..Len(ops) /\ i \in 1..Len(longer) /\ longer[i] = ops[i]
      BY <1>1 DEF N
    <2>2. r[i] = r[i-1] + Cost[ops[i]]
      BY <1>2, <2>1 DEF Added
    <2>3. e[i] = e[i-1] + Cost[longer[i]]
      BY <1>3, <2>1 DEF Added
    <2> QED
      BY <2>1, <2>2, <2>3
  <1>5. AgreeByRecursion(r, e, N)
    BY <1>2, <1>3, <1>4 DEF Added, AgreeByRecursion
  <1>6. \A i \in 0..N : r[i] = e[i]
    BY <1>1, <1>5, RecursionUnique DEF Agree
  <1>7. e[N] = PathCost(ops)
    BY <1>1, <1>2, <1>6
  <1>8. e[N+1] = e[N] + Cost[o]
    <2>1. N + 1 \in 1..(N+1) /\ (N + 1) - 1 = N
      BY <1>1
    <2> QED
      BY <1>1, <1>3, <2>1 DEF Added
  <1>9. PathCost(ops) \in Nat
    BY <1>1, <1>2 DEF Added, N
  <1> QED
    BY <1>3, <1>7, <1>8, <1>9 DEF longer

LEMMA PathCostNothing == PathCost(<<>>) = 0
  <1>1. <<>> \in Seq(Op) /\ Len(<<>>) = 0
    OBVIOUS
  <1> QED
    BY <1>1, PathCostIsAdded DEF Added
-----------------------------------------------------------------------------
(***************************************************************************)
(* The invariant                                                           *)
(***************************************************************************)
Status == {"NEW", "OPEN", "CLOSED", "DEAD_END"}
NodeInfo == [status : Status, g : Int, parent : State \cup {NoState}, op : Op \cup {NoOp}]
Searching == {"fetch", "expand"}
Tracing == {"trace", "rebuild", "solved", "error"}

TypeOK ==
    /\ h \in Heuristics
    /\ search_symmetries \in {"OSS", "DKS"}
    /\ GeneratorsOK
    /\ registry \in Seq(State)
    /\ node \in [State -> NodeInfo]
    /\ open \subseteq [state : State, g : Nat]
    /\ phase \in Searching \cup Tracing \cup {"failed"}
    /\ todo \subseteq Op
    /\ state_trace \in Seq(State)
    /\ permutations \in Seq([State -> State])
    /\ mixed \in BOOLEAN
    /\ path \in Seq(Op)

Reached == {s \in State : node[s].status \in {"OPEN", "CLOSED"}}

\* A node with a parent stands for a successor of the parent: it has the same
\* representative, and its g is no smaller than that of the successor.
HasParent(s) ==
    /\ node[s].parent \in Reached
    /\ node[s].op \in Applicable[node[s].parent]
    /\ Canonical(Result[node[s].parent][node[s].op]) = Canonical(s)
    /\ node[node[s].parent].g + Cost[node[s].op] <= node[s].g

NodesOK ==
    \A s \in Reached :
        /\ h[s] # Infty
        /\ node[s].g \in Nat
        /\ node[s].g = 0 \/ node[s].g < Bound
        /\ node[s].op = NoOp => s = InitialNode /\ node[s].g = 0
        /\ node[s].op # NoOp => HasParent(s)

DeadEndsOK == \A s \in State : node[s].status = "DEAD_END" => h[s] = Infty

InitialOK == h[InitialNode] # Infty => InitialNode \in Reached /\ node[InitialNode].g = 0

\* Open nodes are in the open list with their g, and no entry is about a node
\* that is not reached.
QueueOK ==
    /\ \A e \in open : e.state \in Reached /\ node[e.state].g <= e.g
    /\ \A s \in State : node[s].status = "OPEN" =>
          \E e \in open : e.state = s /\ e.g = node[s].g

ExpansionOK ==
    phase = "expand" =>
        /\ current \in State /\ node[current].status = "CLOSED"
        /\ todo \subseteq Applicable[current]

\* Some node stands for the state r, with a g of at most c unless it is a
\* dead end.
Settled(r, c) ==
    \E t \in State :
        /\ Canonical(t) = Canonical(r)
        /\ \/ node[t].status = "DEAD_END"
           \/ node[t].status \in {"OPEN", "CLOSED"} /\ node[t].g <= c

\* The successors of a closed node are settled, except those above the bound
\* and those the loop over the operators still has to generate.
ClosedOK ==
    phase \in Searching =>
        \A s \in State : node[s].status = "CLOSED" =>
            /\ s \notin Goal
            /\ \A o \in Applicable[s] :
                  \/ phase = "expand" /\ s = current /\ o \in todo
                  \/ Bound <= node[s].g + Cost[o]
                  \/ Settled(Result[s][o], node[s].g + Cost[o])

SearchInv == TypeOK /\ NodesOK /\ DeadEndsOK /\ InitialOK /\ QueueOK /\ ExpansionOK /\ ClosedOK

-----------------------------------------------------------------------------
(***************************************************************************)
(* The search keeps the invariant                                          *)
(***************************************************************************)

\* The options do not change, and with them nothing defined from them alone.
LEMMA OptionsStay ==
    ASSUME UNCHANGED options
    PROVE  /\ h' = h /\ search_symmetries' = search_symmetries
           /\ generators' = generators
           /\ GeneratorsOK' = GeneratorsOK
           /\ InitialNode' = InitialNode
           /\ \A s : Canonical(s)' = Canonical(s)
           /\ \A s, t : FromTo(s, t)' = FromTo(s, t)
  BY DEF options, GeneratorsOK, InitialNode, Canonical, FromTo, ToCanonical,
         ReduceOnce, Compose, Identity, InverseOf

LEMMA StoredFacts ==
    ASSUME TypeOK, NEW s \in State
    PROVE  /\ Stored(registry, s) \in State
           /\ Canonical(Stored(registry, s)) = Canonical(s)
  <1>1. GeneratorsOK /\ registry \in Seq(State)
    BY DEF TypeOK
  <1>2. \A t \in Range(registry) : t \in State
    BY <1>1 DEF Range
  <1>3. Canonical(s) \in State /\ Canonical(Canonical(s)) = Canonical(s)
    BY <1>1, ToCanonicalFacts
  <1> QED
    BY <1>2, <1>3 DEF Stored

LEMMA RegisterType ==
    ASSUME NEW reg \in Seq(State), NEW s \in State
    PROVE  Register(reg, s) \in Seq(State)
  BY DEF Register

LEMMA InitialNodeType == TypeOK => InitialNode \in State
  BY ToCanonicalFacts, TaskAssumption DEF TypeOK, InitialNode

LEMMA SearchInvInit == Init => SearchInv
  <1> SUFFICES ASSUME Init PROVE SearchInv
    OBVIOUS
  <1>1. GeneratorsOK /\ InitialState \in State
    BY TaskAssumption DEF Init, GeneratorsOK
  <1>2. InitialNode \in State
    BY <1>1, ToCanonicalFacts DEF InitialNode
  <1>3. ASSUME NEW s \in State
        PROVE  node[s] = IF s = InitialNode /\ h[InitialNode] # Infty
                         THEN OpenNode(0, NoState, NoOp) ELSE NewNode
    BY DEF Init
  <1>4. ASSUME NEW s \in State
        PROVE  /\ node[s] \in NodeInfo /\ node[s].op = NoOp
               /\ IF s = InitialNode /\ h[InitialNode] # Infty
                  THEN node[s].status = "OPEN" /\ node[s].g = 0
                  ELSE node[s].status = "NEW"
    <2>1. /\ NewNode \in NodeInfo /\ NewNode.op = NoOp /\ NewNode.status = "NEW"
      BY DEF NewNode, NodeInfo, Status
    <2> DEFINE opened == OpenNode(0, NoState, NoOp)
    <2>2. /\ opened \in NodeInfo /\ opened.op = NoOp /\ opened.status = "OPEN"
          /\ opened.g = 0
      BY DEF OpenNode, NodeInfo, Status
    <2> HIDE DEF opened
    <2>3. CASE s = InitialNode /\ h[InitialNode] # Infty
      BY <1>3, <2>2, <2>3 DEF opened
    <2>4. CASE ~(s = InitialNode /\ h[InitialNode] # Infty)
      BY <1>3, <2>1, <2>4
    <2> QED
      BY <2>3, <2>4
  <1>5. /\ open = IF h[InitialNode] = Infty THEN {} ELSE {[state |-> InitialNode, g |-> 0]}
        /\ DOMAIN node = State /\ node = [s \in State |-> node[s]]
        /\ phase = "fetch"
    BY DEF Init
  <1>6. TypeOK
    <2>1. registry \in Seq(State)
      <3>1. <<InitialState>> \in Seq(State)
        BY <1>1
      <3> QED
        BY <1>2, <3>1, RegisterType DEF Init
    <2>2. node \in [State -> NodeInfo]
      BY <1>4, <1>5
    <2>3. open \subseteq [state : State, g : Nat]
      BY <1>2, <1>5
    <2>4. /\ h \in Heuristics /\ search_symmetries \in {"OSS", "DKS"} /\ todo = {}
          /\ state_trace = <<>> /\ permutations = <<>> /\ path = <<>> /\ mixed \in BOOLEAN
      BY DEF Init
    <2>5. state_trace \in Seq(State) /\ permutations \in Seq([State -> State]) /\ path \in Seq(Op)
      BY <2>4
    <2>6. phase \in Searching \cup Tracing \cup {"failed"} /\ todo \subseteq Op
      BY <1>5, <2>4 DEF Searching
    <2> QED
      BY <1>1, <2>1, <2>2, <2>3, <2>4, <2>5, <2>6 DEF TypeOK
  <1>7. NodesOK
    <2> SUFFICES ASSUME NEW s \in Reached
                 PROVE  /\ h[s] # Infty /\ s = InitialNode
                        /\ node[s].g = 0 /\ node[s].op = NoOp
      BY DEF NodesOK
    <2>1. s \in State /\ node[s].status # "NEW"
      BY DEF Reached
    <2> QED
      BY <1>4, <2>1
  <1>8. InitialOK
    BY <1>2, <1>4 DEF InitialOK, Reached
  <1>9. DeadEndsOK /\ ExpansionOK /\ ClosedOK
    BY <1>4, <1>5 DEF DeadEndsOK, ExpansionOK, ClosedOK
  <1>10. QueueOK
    <2>1. \A s \in State : node[s].status = "OPEN" =>
             s = InitialNode /\ h[InitialNode] # Infty /\ node[s].g = 0
      BY <1>4
    <2>2. h[InitialNode] # Infty => InitialNode \in Reached /\ node[InitialNode].g = 0
      BY <1>8 DEF InitialOK
    <2>3. CASE h[InitialNode] = Infty
      BY <1>5, <2>1, <2>3 DEF QueueOK
    <2>4. CASE h[InitialNode] # Infty
      <3> DEFINE e == [state |-> InitialNode, g |-> 0]
      <3>1. open = {e} /\ e.state = InitialNode /\ e.g = 0
        BY <1>5, <2>4
      <3> HIDE DEF e
      <3> QED
        BY <2>1, <2>2, <2>4, <3>1 DEF QueueOK
    <2> QED
      BY <2>3, <2>4
  <1> QED
    BY <1>6, <1>7, <1>8, <1>9, <1>10 DEF SearchInv

LEMMA ReachedFacts ==
    ASSUME SearchInv, NEW s \in Reached
    PROVE  /\ s \in State /\ node[s].g \in Nat /\ h[s] # Infty
           /\ node[s].op # NoOp =>
                 /\ node[s].op \in Op /\ Cost[node[s].op] \in Nat
                 /\ Result[node[s].parent][node[s].op] \in State
           /\ Origin(s) \in State
  <1>1. s \in State /\ node[s].g \in Nat /\ h[s] # Infty
    BY DEF SearchInv, NodesOK, Reached
  <1>2. ASSUME node[s].op # NoOp
        PROVE  /\ node[s].op \in Op /\ Cost[node[s].op] \in Nat
               /\ Result[node[s].parent][node[s].op] \in State
    <2>1. node[s].parent \in State /\ node[s].op \in Applicable[node[s].parent]
      BY <1>2 DEF SearchInv, NodesOK, HasParent, Reached
    <2> QED
      BY <2>1, TaskAssumption
  <1>3. Origin(s) \in State
    BY <1>2, TaskAssumption DEF Origin
  <1> QED
    BY <1>1, <1>2, <1>3

\* What the loop over the operators works on.
LEMMA ExpansionFacts ==
    ASSUME SearchInv, phase = "expand", NEW o \in todo
    PROVE  /\ current \in Reached /\ current \in State
           /\ node[current].status = "CLOSED" /\ node[current].g \in Nat
           /\ o \in Applicable[current] /\ o \in Op /\ o # NoOp
           /\ Cost[o] \in Nat
           /\ Result[current][o] \in State
           /\ Stored(registry, Result[current][o]) \in State
           /\ Canonical(Stored(registry, Result[current][o])) = Canonical(Result[current][o])
  <1>1. /\ current \in Reached /\ node[current].status = "CLOSED" /\ current \in State
        /\ o \in Applicable[current] /\ o \in Op
    BY DEF SearchInv, TypeOK, ExpansionOK, Reached
  <1>2. node[current].g \in Nat
    BY <1>1, ReachedFacts
  <1>3. Cost[o] \in Nat /\ Result[current][o] \in State
    BY <1>1, TaskAssumption
  <1>4. o # NoOp
    BY <1>1, SymmetryAssumption
  <1> QED
    BY <1>1, <1>2, <1>3, <1>4, StoredFacts DEF SearchInv

\* As long as no node changes but for its status, parents stay what they are.
LEMMA FieldsStay ==
    ASSUME SearchInv, UNCHANGED options, Reached' = Reached,
           \A s \in State : /\ node'[s].g = node[s].g
                            /\ node'[s].parent = node[s].parent
                            /\ node'[s].op = node[s].op
    PROVE  NodesOK' /\ InitialOK'
  <1>1. /\ h' = h /\ InitialNode' = InitialNode
        /\ \A s : Canonical(s)' = Canonical(s)
    BY OptionsStay
  <1>2. InitialOK'
    BY <1>1, InitialNodeType DEF SearchInv, InitialOK
  <1>3. ASSUME NEW s \in Reached, HasParent(s) PROVE HasParent(s)'
    <2>1. s \in State /\ node[s].parent \in State
      BY <1>3 DEF HasParent, Reached
    <2>2. /\ node'[s].g = node[s].g /\ node'[s].parent = node[s].parent
          /\ node'[s].op = node[s].op /\ node'[node[s].parent].g = node[node[s].parent].g
      BY <2>1
    <2> QED
      BY <1>1, <1>3, <2>2 DEF HasParent
  <1>4. NodesOK'
    <2> SUFFICES ASSUME NEW s \in Reached
                 PROVE  /\ h'[s] # Infty
                        /\ node'[s].g \in Nat
                        /\ node'[s].g = 0 \/ node'[s].g < Bound
                        /\ node'[s].op = NoOp => s = InitialNode' /\ node'[s].g = 0
                        /\ node'[s].op # NoOp => HasParent(s)'
      BY DEF NodesOK, Infty
    <2>1. s \in State
      BY DEF Reached
    <2>2. /\ h[s] # Infty
          /\ node[s].g \in Nat
          /\ node[s].g = 0 \/ node[s].g < Bound
          /\ node[s].op = NoOp => s = InitialNode /\ node[s].g = 0
          /\ node[s].op # NoOp => HasParent(s)
      BY DEF SearchInv, NodesOK
    <2> QED
      BY <1>1, <1>3, <2>1, <2>2
  <1> QED
    BY <1>2, <1>4

\* Actions that leave nodes and open list alone.
LEMMA NodesStay ==
    ASSUME SearchInv, UNCHANGED <<options, node>>
    PROVE  /\ NodesOK' /\ DeadEndsOK' /\ InitialOK'
           /\ Reached' = Reached
           /\ \A r, c : Settled(r, c) => Settled(r, c)'
  <1>1. Reached' = Reached
    BY DEF Reached
  <1>2. NodesOK' /\ InitialOK'
    BY <1>1, FieldsStay
  <1>3. DeadEndsOK'
    BY OptionsStay DEF SearchInv, DeadEndsOK, Infty
  <1>4. \A r, c : Settled(r, c) => Settled(r, c)'
    BY OptionsStay DEF Settled
  <1> QED
    BY <1>1, <1>2, <1>3, <1>4

\* The invariant but for the types and the expansion of closed nodes.
NodeInv == NodesOK /\ DeadEndsOK /\ InitialOK /\ QueueOK

LEMMA Elsewhere ==
    ASSUME SearchInv, UNCHANGED <<options, node, open>>
    PROVE  NodeInv'
  <1>1. NodesOK' /\ DeadEndsOK' /\ InitialOK' /\ Reached' = Reached
    BY NodesStay
  <1>2. QueueOK'
    BY <1>1 DEF SearchInv, QueueOK
  <1> QED
    BY <1>1, <1>2 DEF NodeInv

\* The end of the search and of the expansion of a node, and the steps of the
\* reconstruction.
LEMMA OtherNext ==
    ASSUME SearchInv,
           OpenListEmpty \/ ExpansionDone \/ TraceBack \/ Rebuild \/ UNCHANGED vars
    PROVE  (NodeInv /\ ExpansionOK /\ ClosedOK)'
  <1>1. UNCHANGED <<options, node, open>>
    BY DEF OpenListEmpty, ExpansionDone, TraceBack, Rebuild, vars
  <1>2. NodeInv' /\ \A r, c : Settled(r, c) => Settled(r, c)'
    BY <1>1, Elsewhere, NodesStay
  <1>3. CASE phase' \notin Searching
    BY <1>2, <1>3 DEF ExpansionOK, ClosedOK, Searching
  <1>4. CASE phase' \in Searching
    <2>1. \/ phase = "expand" /\ todo = {} /\ phase' = "fetch"
          \/ UNCHANGED <<phase, current, todo>>
      BY <1>4 DEF OpenListEmpty, ExpansionDone, TraceBack, Rebuild, vars, Searching
    <2>2. phase \in Searching
      BY <1>4, <2>1 DEF Searching
    <2>3. ExpansionOK'
      BY <1>1, <2>1 DEF SearchInv, ExpansionOK
    <2>4. ClosedOK'
      BY <1>1, <1>2, <2>1, <2>2 DEF SearchInv, ClosedOK
    <2> QED
      BY <1>2, <2>3, <2>4
  <1> QED
    BY <1>3, <1>4

LEMMA FetchNext ==
    ASSUME SearchInv, NEW e \in open, Fetch(e)
    PROVE  (NodeInv /\ ExpansionOK /\ ClosedOK)'
  <1>0. /\ phase = "fetch" /\ open' = open \ {e} /\ UNCHANGED options
        /\ e.state \in Reached /\ e.state \in State /\ node[e.state].g <= e.g
    BY DEF Fetch, SearchInv, QueueOK, Reached
  <1>1. CASE node[e.state].status = "CLOSED"
    <2>1. UNCHANGED <<node, phase, current, todo>>
      BY <1>1 DEF Fetch
    <2>2. /\ NodesOK' /\ DeadEndsOK' /\ InitialOK' /\ Reached' = Reached
          /\ \A r, c : Settled(r, c) => Settled(r, c)'
      BY <1>0, <2>1, NodesStay
    <2>3. QueueOK'
      BY <1>0, <1>1, <2>1, <2>2 DEF SearchInv, QueueOK
    <2>4. ExpansionOK'
      BY <1>0, <2>1 DEF ExpansionOK
    <2>5. ClosedOK'
      BY <1>0, <2>1, <2>2 DEF SearchInv, ClosedOK, Searching
    <2> QED
      BY <2>2, <2>3, <2>4, <2>5 DEF NodeInv
  <1>2. CASE node[e.state].status # "CLOSED"
    <2>1. /\ node[e.state].status = "OPEN"
          /\ node' = [node EXCEPT ![e.state].status = "CLOSED"]
          /\ current' = e.state
          /\ IF e.state \in Goal
             THEN phase' = "trace" /\ todo' = {}
             ELSE phase' = "expand" /\ todo' = Applicable[e.state]
      BY <1>0, <1>2 DEF Fetch, Reached
    <2>2. /\ \A s \in State : /\ node'[s].g = node[s].g
                              /\ node'[s].parent = node[s].parent
                              /\ node'[s].op = node[s].op
                              /\ s # e.state => node'[s].status = node[s].status
          /\ node'[e.state].status = "CLOSED"
      BY <1>0, <2>1 DEF SearchInv, TypeOK, NodeInfo
    <2>3. Reached' = Reached
      BY <1>0, <2>2 DEF Reached
    <2>4. NodesOK' /\ InitialOK'
      BY <1>0, <2>2, <2>3, FieldsStay
    <2>5. DeadEndsOK'
      BY <1>0, <2>2, OptionsStay DEF SearchInv, DeadEndsOK, Infty
    <2>6. QueueOK'
      <3>1. \A d \in open' : d.state \in Reached' /\ node'[d.state].g <= d.g
        BY <1>0, <2>2, <2>3 DEF SearchInv, QueueOK, Reached
      <3>2. ASSUME NEW s \in State, node'[s].status = "OPEN"
            PROVE  \E d \in open' : d.state = s /\ d.g = node'[s].g
        <4>1. s # e.state /\ node[s].status = "OPEN"
          BY <2>2, <3>2
        <4> QED
          BY <1>0, <2>2, <4>1 DEF SearchInv, QueueOK
      <3> QED
        BY <3>1, <3>2 DEF QueueOK
    <2>7. \A r, c : Settled(r, c) => Settled(r, c)'
      <3>1. \A t \in State :
               /\ node[t].status = "DEAD_END" => node'[t].status = "DEAD_END"
               /\ node[t].status \in {"OPEN", "CLOSED"} =>
                     node'[t].status \in {"OPEN", "CLOSED"}
        BY <2>1, <2>2
      <3> QED
        BY <1>0, <2>2, <3>1, OptionsStay DEF Settled
    <2>8. ExpansionOK' /\ ClosedOK'
      <3>1. CASE e.state \in Goal
        BY <2>1, <3>1 DEF ExpansionOK, ClosedOK, Searching
      <3>2. CASE e.state \notin Goal
        <4>1. phase' = "expand" /\ todo' = Applicable[e.state] /\ current' = e.state
          BY <2>1, <3>2
        <4>2. ExpansionOK'
          BY <1>0, <2>2, <4>1 DEF ExpansionOK
        <4>3. ASSUME NEW s \in State, node'[s].status = "CLOSED"
              PROVE  /\ s \notin Goal
                     /\ \A o \in Applicable[s] :
                           \/ phase' = "expand" /\ s = current' /\ o \in todo'
                           \/ Bound <= node'[s].g + Cost[o]
                           \/ Settled(Result[s][o], node[s].g + Cost[o])'
          <5>1. CASE s = e.state
            BY <3>2, <4>1, <5>1
          <5>2. CASE s # e.state
            <6>1. node[s].status = "CLOSED" /\ node'[s].g = node[s].g
              BY <2>2, <4>3, <5>2
            <6>2. s \notin Goal
              BY <1>0, <6>1 DEF SearchInv, ClosedOK, Searching
            <6>3. ASSUME NEW o \in Applicable[s]
                  PROVE  \/ Bound <= node'[s].g + Cost[o]
                         \/ Settled(Result[s][o], node[s].g + Cost[o])'
              <7>1. \/ Bound <= node[s].g + Cost[o]
                    \/ Settled(Result[s][o], node[s].g + Cost[o])
                BY <1>0, <6>1 DEF SearchInv, ClosedOK, Searching
              <7> QED
                BY <2>7, <6>1, <7>1
            <6> QED
              BY <6>2, <6>3
          <5> QED
            BY <5>1, <5>2
        <4> QED
          BY <4>2, <4>3 DEF ClosedOK
      <3> QED
        BY <3>1, <3>2
    <2> QED
      BY <2>4, <2>5, <2>6, <2>8 DEF NodeInv
  <1> QED
    BY <1>1, <1>2

\* One iteration of the loop settles the successor, or it is above the bound;
\* what else was settled stays so.
LEMMA GeneratedIsSettled ==
    ASSUME SearchInv, NEW o \in todo, Generating(o), phase = "expand",
           \A s \in State : node'[s].status = "CLOSED" =>
              node[s].status = "CLOSED" /\ node'[s].g = node[s].g,
           node'[current].g = node[current].g,
           \A r, c : c \in Int /\ Settled(r, c) => Settled(r, c)',
           NEW succ, succ = Result[current][o],
           NEW g, g = node[current].g + Cost[o],
           Bound <= g \/ Settled(succ, g)'
    PROVE  ClosedOK'
  <1>1. /\ phase' = "expand" /\ current' = current /\ todo' = todo \ {o}
    BY DEF Generating
  <1> SUFFICES ASSUME NEW s \in State, node'[s].status = "CLOSED"
               PROVE  /\ s \notin Goal
                      /\ \A q \in Applicable[s] :
                           \/ phase' = "expand" /\ s = current' /\ q \in todo'
                           \/ Bound <= node'[s].g + Cost[q]
                           \/ Settled(Result[s][q], node[s].g + Cost[q])'
    BY DEF ClosedOK
  <1>2. node[s].status = "CLOSED" /\ node'[s].g = node[s].g
    OBVIOUS
  <1>3. s \notin Goal
    BY <1>2 DEF SearchInv, ClosedOK, Searching
  <1>4. ASSUME NEW q \in Applicable[s]
        PROVE  \/ phase' = "expand" /\ s = current' /\ q \in todo'
               \/ Bound <= node'[s].g + Cost[q]
               \/ Settled(Result[s][q], node[s].g + Cost[q])'
    <2>1. \/ s = current /\ q \in todo
          \/ Bound <= node[s].g + Cost[q]
          \/ Settled(Result[s][q], node[s].g + Cost[q])
      BY <1>2 DEF SearchInv, ClosedOK, Searching
    <2>2. s \in Reached /\ node[s].g \in Nat /\ Cost[q] \in Nat
      BY <1>2, ReachedFacts, TaskAssumption DEF Reached
    <2> QED
      BY <1>1, <1>2, <2>1, <2>2
  <1> QED
    BY <1>3, <1>4

LEMMA CutOffNext ==
    ASSUME SearchInv, NEW o \in todo, CutOff(o)
    PROVE  (NodeInv /\ ExpansionOK /\ ClosedOK)'
  <1>1. /\ phase = "expand" /\ Generating(o) /\ UNCHANGED <<options, node, open>>
        /\ ~WithinBound(o)
    BY DEF CutOff, Generating
  <1>2. NodeInv' /\ \A r, c : Settled(r, c) => Settled(r, c)'
    BY <1>1, Elsewhere, NodesStay
  <1>3. ExpansionOK'
    BY <1>1 DEF SearchInv, ExpansionOK, Generating
  <1>4. PICK succ, g : succ = Result[current][o] /\ g = node[current].g + Cost[o]
    OBVIOUS
  <1>5. Bound <= g
    BY <1>1, <1>4, ExpansionFacts, TaskAssumption DEF WithinBound
  <1>6. ClosedOK'
    BY <1>1, <1>2, <1>4, <1>5, GeneratedIsSettled
  <1> QED
    BY <1>2, <1>3, <1>6

\* A successor whose orbit has no node yet and that is a dead end.
LEMMA GenerateDeadEnd ==
    ASSUME SearchInv, NEW t \in State, UNCHANGED <<options, open>>,
           node[t].status = "NEW", h[t] = Infty,
           node' = [node EXCEPT ![t].status = "DEAD_END"]
    PROVE  /\ NodeInv'
           /\ \A s \in State : s # t => node'[s] = node[s]
           /\ node'[t].status = "DEAD_END"
           /\ \A r, c : Settled(r, c) => Settled(r, c)'
  <1>1. \A s \in State : /\ node'[s].g = node[s].g
                         /\ node'[s].parent = node[s].parent
                         /\ node'[s].op = node[s].op
                         /\ s # t => node'[s] = node[s]
    BY DEF SearchInv, TypeOK, NodeInfo
  <1>2. node'[t].status = "DEAD_END"
    BY DEF SearchInv, TypeOK, NodeInfo
  <1>3. Reached' = Reached
    BY <1>1, <1>2 DEF Reached
  <1>4. NodesOK' /\ InitialOK'
    BY <1>1, <1>3, FieldsStay
  <1>5. DeadEndsOK'
    BY <1>1, OptionsStay DEF SearchInv, DeadEndsOK, Infty
  <1>6. QueueOK'
    <2>1. \A e \in open : e.state \in State
      BY DEF SearchInv, QueueOK, Reached
    <2>2. \A e \in open' : e.state \in Reached' /\ node'[e.state].g <= e.g
      BY <1>1, <1>3, <2>1 DEF SearchInv, QueueOK
    <2>3. \A s \in State : node'[s].status = "OPEN" =>
             \E e \in open' : e.state = s /\ e.g = node'[s].g
      BY <1>1, <1>2 DEF SearchInv, QueueOK
    <2> QED
      BY <2>2, <2>3 DEF QueueOK
  <1>7. \A r, c : Settled(r, c) => Settled(r, c)'
    BY <1>1, OptionsStay DEF Settled
  <1> QED
    BY <1>1, <1>2, <1>4, <1>5, <1>6, <1>7 DEF NodeInv

\* A successor that is open from now on, for the first time or again.
LEMMA GenerateOpen ==
    ASSUME SearchInv, UNCHANGED options, phase = "expand", NEW o \in todo,
           NEW t \in State, Canonical(t) = Canonical(Result[current][o]),
           NEW g \in Nat, g = node[current].g + Cost[o], g < Bound,
           (node[t].status = "NEW" /\ h[t] # Infty) \/ IsCheaper(t, g),
           node' = [node EXCEPT ![t] = OpenNode(g, current, o)],
           InsertEntry(t, g)
    PROVE  /\ NodeInv'
           /\ t # current
           /\ \A s \in State : s # t => node'[s] = node[s]
           /\ node'[t].status = "OPEN" /\ node'[t].g = g
           /\ \A r, c : c \in Int /\ Settled(r, c) => Settled(r, c)'
  <1>1. /\ current \in Reached /\ current \in State /\ node[current].status = "CLOSED"
        /\ node[current].g \in Nat /\ o \in Applicable[current] /\ o # NoOp
        /\ Cost[o] \in Nat
    BY ExpansionFacts
  <1>2. t # current
    BY <1>1 DEF IsCheaper
  <1>3. /\ node'[t] = OpenNode(g, current, o)
        /\ \A s \in State : s # t => node'[s] = node[s]
    BY DEF SearchInv, TypeOK
  <1>4. /\ node'[t].status = "OPEN" /\ node'[t].g = g
        /\ node'[t].parent = current /\ node'[t].op = o
    BY <1>3 DEF OpenNode
  <1>5. t \in Reached => g < node[t].g
    BY DEF IsCheaper, Reached
  <1>6. /\ t \notin Reached => node[t].status = "NEW" /\ h[t] # Infty
        /\ node[t].status # "DEAD_END"
    BY DEF IsCheaper, Reached
  <1>7. h[t] # Infty
    BY <1>6, ReachedFacts
  <1>8. Reached' = Reached \cup {t}
    BY <1>3, <1>4 DEF Reached
  <1>9. \A s \in Reached : node'[s].g <= node[s].g /\ node'[s].g \in Nat
    BY <1>3, <1>4, <1>5, ReachedFacts
  <1>10. t # InitialNode
    <2>1. CASE t \in Reached
      BY <1>5, <1>7, <2>1 DEF SearchInv, InitialOK
    <2>2. CASE t \notin Reached
      BY <1>7, <2>2 DEF SearchInv, InitialOK
    <2> QED
      BY <2>1, <2>2
  <1>11. /\ h' = h /\ InitialNode' = InitialNode
         /\ \A s : Canonical(s)' = Canonical(s)
    BY OptionsStay
  <1>12. InitialOK'
    BY <1>3, <1>8, <1>10, <1>11, InitialNodeType DEF SearchInv, InitialOK, Infty
  <1>13. DeadEndsOK'
    BY <1>3, <1>4, <1>11 DEF SearchInv, DeadEndsOK, Infty
  <1>14. ASSUME NEW s \in Reached, s # t, HasParent(s) PROVE HasParent(s)'
    <2> DEFINE p == node[s].parent
    <2>1. s \in State /\ p \in Reached /\ node'[s] = node[s]
      BY <1>3, <1>14 DEF HasParent, Reached
    <2>2. node'[p].g <= node[p].g /\ node'[p].g \in Nat /\ node[p].g \in Nat
      BY <1>9, <2>1, ReachedFacts
    <2>3. node[s].op \in Applicable[p] /\ p \in State
      BY <1>14, <2>1 DEF HasParent, Reached
    <2>4. Cost[node[s].op] \in Nat /\ node[s].g \in Nat
      BY <2>3, TaskAssumption, ReachedFacts
    <2>5. /\ Canonical(Result[p][node[s].op]) = Canonical(s)
          /\ node[p].g + Cost[node[s].op] <= node[s].g
      BY <1>14 DEF HasParent
    <2>6. node'[p].g + Cost[node[s].op] <= node[s].g
      BY <2>2, <2>4, <2>5
    <2>7. p \in Reached'
      BY <1>8, <2>1
    <2> QED
      BY <1>11, <2>1, <2>3, <2>5, <2>6, <2>7 DEF HasParent
  <1>15. HasParent(t)'
    BY <1>1, <1>2, <1>3, <1>4, <1>8, <1>11 DEF HasParent
  <1>16. NodesOK'
    <2> SUFFICES ASSUME NEW s \in Reached'
                 PROVE  /\ h'[s] # Infty
                        /\ node'[s].g \in Nat
                        /\ node'[s].g = 0 \/ node'[s].g < Bound
                        /\ node'[s].op = NoOp => s = InitialNode' /\ node'[s].g = 0
                        /\ node'[s].op # NoOp => HasParent(s)'
      BY DEF NodesOK, Infty
    <2>1. CASE s = t
      BY <1>1, <1>4, <1>7, <1>11, <1>15, <2>1
    <2>2. CASE s # t
      <3>1. s \in Reached /\ s \in State
        BY <1>8, <2>2 DEF Reached
      <3>2. node'[s] = node[s]
        BY <1>3, <2>2, <3>1
      <3>3. /\ h[s] # Infty
            /\ node[s].g \in Nat
            /\ node[s].g = 0 \/ node[s].g < Bound
            /\ node[s].op = NoOp => s = InitialNode /\ node[s].g = 0
            /\ node[s].op # NoOp => HasParent(s)
        BY <3>1 DEF SearchInv, NodesOK
      <3> QED
        BY <1>11, <1>14, <2>2, <3>1, <3>2, <3>3
    <2> QED
      BY <2>1, <2>2
  <1>17. QueueOK'
    <2>1. ASSUME NEW e \in open' PROVE e.state \in Reached' /\ node'[e.state].g <= e.g
      <3>1. CASE e \in open
        <4>1. e.state \in Reached /\ node[e.state].g <= e.g /\ e.g \in Nat
          BY <3>1 DEF SearchInv, QueueOK, TypeOK
        <4>2. node'[e.state].g <= node[e.state].g /\ node[e.state].g \in Nat
              /\ node'[e.state].g \in Nat
          BY <1>9, <4>1, ReachedFacts
        <4> QED
          BY <1>8, <4>1, <4>2
      <3>2. CASE e \notin open
        <4>1. e = [state |-> t, g |-> g]
          BY <3>2 DEF InsertEntry
        <4> QED
          BY <1>4, <1>8, <4>1
      <3> QED
        BY <3>1, <3>2
    <2>2. ASSUME NEW s \in State, node'[s].status = "OPEN"
          PROVE  \E e \in open' : e.state = s /\ e.g = node'[s].g
      <3>1. CASE s = t
        <4> DEFINE e == [state |-> t, g |-> g]
        <4>1. e \in open' /\ e.state = t /\ e.g = g
          BY DEF InsertEntry
        <4> HIDE DEF e
        <4> QED
          BY <1>4, <3>1, <4>1
      <3>2. CASE s # t
        BY <1>3, <2>2, <3>2 DEF SearchInv, QueueOK, InsertEntry
      <3> QED
        BY <3>1, <3>2
    <2> QED
      BY <2>1, <2>2 DEF QueueOK
  <1>18. ASSUME NEW r, NEW c, c \in Int, Settled(r, c) PROVE Settled(r, c)'
    <2>1. PICK s \in State : /\ Canonical(s) = Canonical(r)
                             /\ \/ node[s].status = "DEAD_END"
                                \/ node[s].status \in {"OPEN", "CLOSED"} /\ node[s].g <= c
      BY <1>18 DEF Settled
    <2>2. CASE s = t
      <3>1. node'[s].status \in {"OPEN", "CLOSED"} /\ node[s].g <= c /\ s \in Reached
        BY <1>4, <1>6, <2>1, <2>2 DEF Reached
      <3>2. node'[s].g <= c
        BY <1>9, <1>18, <3>1, ReachedFacts
      <3> QED
        BY <1>11, <2>1, <3>1, <3>2 DEF Settled
    <2>3. CASE s # t
      BY <1>3, <1>11, <2>1, <2>3 DEF Settled
    <2> QED
      BY <2>2, <2>3
  <1> QED
    BY <1>2, <1>3, <1>4, <1>12, <1>13, <1>16, <1>17, <1>18 DEF NodeInv

LEMMA GenerateNext ==
    ASSUME SearchInv, NEW o \in todo, Generate(o)
    PROVE  (NodeInv /\ ExpansionOK /\ ClosedOK)'
  <1>0. PICK succ, t, g : /\ succ = Result[current][o]
                          /\ t = Stored(registry, succ)
                          /\ g = node[current].g + Cost[o]
    OBVIOUS
  <1>1. /\ phase = "expand" /\ Generating(o) /\ WithinBound(o)
        /\ UNCHANGED options /\ current' = current /\ todo' = todo \ {o}
        /\ phase' = "expand"
    BY DEF Generate, Generating
  <1>2. /\ current \in Reached /\ current \in State /\ node[current].status = "CLOSED"
        /\ node[current].g \in Nat /\ o \in Applicable[current] /\ Cost[o] \in Nat
        /\ t \in State /\ Canonical(t) = Canonical(succ)
    BY <1>0, <1>1, ExpansionFacts
  <1>3. g \in Nat /\ g < Bound
    BY <1>0, <1>1, <1>2 DEF WithinBound
  <1>4. \/ /\ node[t].status = "NEW" /\ h[t] = Infty
           /\ node' = [node EXCEPT ![t].status = "DEAD_END"]
           /\ UNCHANGED open
        \/ /\ (node[t].status = "NEW" /\ h[t] # Infty) \/ IsCheaper(t, g)
           /\ node' = [node EXCEPT ![t] = OpenNode(g, current, o)]
           /\ InsertEntry(t, g)
        \/ /\ node[t].status # "NEW" /\ ~IsCheaper(t, g)
           /\ UNCHANGED <<node, open>>
    BY <1>0 DEF Generate
  <1>5. \A s : Canonical(s)' = Canonical(s)
    BY <1>1, OptionsStay
  <1>6. /\ NodeInv' /\ node'[current] = node[current]
        /\ \A s \in State : node'[s].status = "CLOSED" => node'[s] = node[s]
        /\ \A r, c : c \in Int /\ Settled(r, c) => Settled(r, c)'
        /\ \/ node'[t].status = "DEAD_END"
           \/ node'[t].status \in {"OPEN", "CLOSED"} /\ node'[t].g <= g
    <2>1. CASE /\ node[t].status = "NEW" /\ h[t] = Infty
               /\ node' = [node EXCEPT ![t].status = "DEAD_END"]
               /\ UNCHANGED open
      <3>1. /\ NodeInv'
            /\ \A s \in State : s # t => node'[s] = node[s]
            /\ node'[t].status = "DEAD_END"
            /\ \A r, c : Settled(r, c) => Settled(r, c)'
        BY <1>1, <1>2, <2>1, GenerateDeadEnd
      <3>2. t # current
        BY <1>2, <2>1
      <3> QED
        BY <1>2, <3>1, <3>2
    <2>2. CASE /\ (node[t].status = "NEW" /\ h[t] # Infty) \/ IsCheaper(t, g)
               /\ node' = [node EXCEPT ![t] = OpenNode(g, current, o)]
               /\ InsertEntry(t, g)
      <3>1. /\ NodeInv'
            /\ t # current
            /\ \A s \in State : s # t => node'[s] = node[s]
            /\ node'[t].status = "OPEN" /\ node'[t].g = g
            /\ \A r, c : c \in Int /\ Settled(r, c) => Settled(r, c)'
        <4>1. /\ Canonical(t) = Canonical(Result[current][o])
              /\ g = node[current].g + Cost[o]
          BY <1>0, <1>2
        <4>2. /\ phase = "expand" /\ UNCHANGED options /\ t \in State
              /\ g \in Nat /\ g < Bound
          BY <1>1, <1>2, <1>3
        <4> QED
          BY <2>2, <4>1, <4>2, GenerateOpen, ZenonT(60)
      <3> QED
        BY <1>2, <1>3, <3>1
    <2>3. CASE /\ node[t].status # "NEW" /\ ~IsCheaper(t, g)
               /\ UNCHANGED <<node, open>>
      <3>1. NodeInv' /\ \A r, c : Settled(r, c) => Settled(r, c)'
        BY <1>1, <2>3, Elsewhere, NodesStay
      <3>2. node[t].status \in Status /\ node[t].g \in Int
        BY <1>2 DEF SearchInv, TypeOK, NodeInfo
      <3>3. \/ node[t].status = "DEAD_END"
            \/ node[t].status \in {"OPEN", "CLOSED"} /\ node[t].g <= g
        BY <1>3, <2>3, <3>2 DEF IsCheaper, Status
      <3> QED
        BY <2>3, <3>1, <3>3
    <2> QED
      BY <1>4, <2>1, <2>2, <2>3
  <1>7. ExpansionOK'
    BY <1>1, <1>2, <1>6 DEF SearchInv, ExpansionOK
  <1>8. Settled(succ, g)'
    BY <1>2, <1>5, <1>6 DEF Settled
  <1>9. ClosedOK'
    BY <1>0, <1>1, <1>6, <1>8, GeneratedIsSettled
  <1> QED
    BY <1>6, <1>7, <1>9

-----------------------------------------------------------------------------
(***************************************************************************)
(* The invariant of the reconstruction                                     *)
(***************************************************************************)

\* The goal state the search has found.
Found == IF state_trace = <<>> THEN current ELSE state_trace[1]

\* The state the trace has got to.
TraceOK ==
    /\ Len(permutations) = Len(state_trace)
    /\ \A i \in 1..Len(state_trace) :
          /\ state_trace[i] \in Reached
          /\ IsAutomorphism(permutations[i])
          /\ mixed \/ permutations[i][state_trace[i]] = Origin(state_trace[i])
          /\ i < Len(state_trace) =>
                /\ node[state_trace[i]].op # NoOp
                /\ state_trace[i+1] = node[state_trace[i]].parent
    /\ phase \notin Tracing => state_trace = <<>>
    /\ phase \in Tracing => Found \in Goal
    /\ phase = "trace" =>
          /\ current \in Reached
          /\ state_trace # <<>> =>
                LET last == state_trace[Len(state_trace)]
                IN  node[last].op # NoOp /\ current = node[last].parent
    /\ phase \in Tracing \ {"trace"} =>
          state_trace # <<>> /\ node[state_trace[Len(state_trace)]].op = NoOp

\* The place in the trace of the state the plan has got to.
Place == Len(state_trace) - Len(path)

\* The plan so far is one up to the real state at its place, costs no more
\* than the search has counted, and never is cheaper than the distances say.
PathOK ==
    /\ phase \notin Tracing \ {"trace"} => path = <<>>
    /\ phase \in Tracing \ {"trace"} => Place \in 1..Len(state_trace)
    /\ phase = "solved" => Place = 1
    /\ phase = "error" => mixed
    /\ phase \in Tracing \ {"trace"} /\ ~mixed =>
          /\ Execute(InitialState, path) = RealState(Place)
          /\ PathCost(path) <= node[state_trace[Place]].g
          /\ RealState(Place) \in Solvable =>
                /\ InitialState \in Solvable
                /\ Dist[InitialState] <= PathCost(path) + Dist[RealState(Place)]

IsAdmissible == \A s \in Solvable : h[s] # Infty /\ h[s] <= Dist[s]

\* The goal state that has been found is as near to the initial state as any.
FoundIsNearest ==
    phase \in Tracing /\ IsAdmissible /\ InitialState \in Solvable =>
        node[Found].g <= Dist[InitialState]

Inv == SearchInv /\ TraceOK /\ PathOK /\ FoundIsNearest

\* The state the search starts from and the parent of any other one have the
\* same representative as what they stand for.
LEMMA OriginFacts ==
    ASSUME SearchInv, NEW s \in Reached
    PROVE  /\ s \in State /\ Origin(s) \in State
           /\ Canonical(Origin(s)) = Canonical(s)
           /\ node[s].op # NoOp => HasParent(s)
           /\ node[s].op = NoOp => Origin(s) = InitialState
  <1>1. s \in State /\ Origin(s) \in State
    BY ReachedFacts
  <1>2. CASE node[s].op = NoOp
    <2>1. s = InitialNode /\ GeneratorsOK
      BY <1>2 DEF SearchInv, NodesOK, TypeOK
    <2>2. Canonical(InitialState) = Canonical(s)
      BY <2>1, ToCanonicalFacts, TaskAssumption DEF InitialNode
    <2> QED
      BY <1>1, <1>2, <2>2 DEF Origin
  <1>3. CASE node[s].op # NoOp
    BY <1>1, <1>3 DEF SearchInv, NodesOK, HasParent, Origin
  <1> QED
    BY <1>1, <1>2, <1>3

LEMMA TraceBackFacts ==
    ASSUME SearchInv, TraceOK, TraceBack
    PROVE  /\ phase = "trace" /\ current \in Reached /\ current \in State
           /\ Origin(current) \in State
           /\ UNCHANGED <<options, node, open, todo, path>>
           /\ state_trace' = Append(state_trace, current)
           /\ \E p : /\ permutations' = Append(permutations, p)
                     /\ IsAutomorphism(p)
                     /\ mixed' \/ p[current] = Origin(current)
           /\ mixed \in BOOLEAN /\ mixed' \in BOOLEAN
           /\ mixed => mixed'
           /\ \/ /\ node[current].op = NoOp /\ Origin(current) = InitialState
                 /\ phase' = "rebuild" /\ current' = current
              \/ /\ node[current].op # NoOp /\ HasParent(current)
                 /\ phase' = "trace" /\ current' = node[current].parent
                 /\ current' \in Reached
  <1>1. /\ phase = "trace" /\ current \in Reached
        /\ UNCHANGED <<options, node, open, todo, path>>
        /\ state_trace' = Append(state_trace, current)
        /\ GeneratorsOK /\ mixed \in BOOLEAN
    BY DEF TraceBack, TraceOK, SearchInv, TypeOK
  <1>2. /\ current \in State /\ Origin(current) \in State
        /\ Canonical(Origin(current)) = Canonical(current)
        /\ node[current].op # NoOp => HasParent(current)
        /\ node[current].op = NoOp => Origin(current) = InitialState
    BY <1>1, OriginFacts
  <1>3. mixed' = (mixed \/ (SameID(current) /\ Origin(current) # current))
    BY DEF TraceBack
  <1>4. mixed' \in BOOLEAN /\ (mixed => mixed')
    BY <1>3
  <1>5. \E p : /\ permutations' = Append(permutations, p)
               /\ IsAutomorphism(p)
               /\ mixed' \/ p[current] = Origin(current)
    <2>1. CASE SameID(current)
      <3>1. permutations' = Append(permutations, Identity)
        BY <2>1 DEF TraceBack
      <3>2. mixed' \/ Identity[current] = Origin(current)
        BY <1>2, <1>3, <2>1 DEF Identity
      <3> QED
        BY <3>1, <3>2, IdentityIsAutomorphism
    <2>2. CASE ~SameID(current)
      <3>1. permutations' = Append(permutations, FromTo(current, Origin(current)))
        BY <2>2 DEF TraceBack
      <3>2. /\ IsAutomorphism(FromTo(current, Origin(current)))
            /\ FromTo(current, Origin(current))[current] = Origin(current)
        BY <1>1, <1>2, FromToFacts
      <3> QED
        BY <3>1, <3>2
    <2> QED
      BY <2>1, <2>2
  <1>6. \/ /\ node[current].op = NoOp /\ Origin(current) = InitialState
           /\ phase' = "rebuild" /\ current' = current
        \/ /\ node[current].op # NoOp /\ HasParent(current)
           /\ phase' = "trace" /\ current' = node[current].parent
           /\ current' \in Reached
    BY <1>1, <1>2 DEF TraceBack, HasParent
  <1> QED
    BY <1>1, <1>2, <1>4, <1>5, <1>6

\* The states of the plan are those of the trace, turned by automorphisms: the
\* first is the initial state, the last a goal, and from each an operator
\* leads to the next, at a cost the search has counted in full.
LEMMA RealStateFacts ==
    ASSUME SearchInv, TraceOK
    PROVE  \A i \in 1..Len(state_trace) :
              /\ RealState(i) \in State
              /\ state_trace[i] \in Goal => RealState(i) \in Goal
              /\ i = Len(state_trace) /\ ~mixed =>
                    RealState(i) = Origin(state_trace[i])
              /\ i > 1 /\ ~mixed =>
                    \E q \in Applicable[RealState(i)] :
                       /\ Result[RealState(i)][q] = RealState(i-1)
                       /\ node[state_trace[i]].g + Cost[q] <= node[state_trace[i-1]].g
  <1> DEFINE N == Len(state_trace)
             R(i) == ReversePermutation(N + 1 - i)
  <1>1. /\ N \in Nat /\ N = Len(permutations)
        /\ permutations \in Seq([State -> State])
        /\ \A i \in 1..N : IsAutomorphism(permutations[i])
        /\ \A i \in 1..N : state_trace[i] \in Reached /\ state_trace[i] \in State
    BY DEF SearchInv, TypeOK, TraceOK, Reached
  <1>2. /\ \A k \in 0..N : IsAutomorphism(ReversePermutation(k))
        /\ ReversePermutation(0) = Identity
        /\ \A k \in 1..N : ReversePermutation(k) =
                           Compose(permutations[N + 1 - k], ReversePermutation(k-1))
    BY <1>1, ReversePermutationFacts
  <1>3. \A i \in 1..N : RealState(i) = R(i)[state_trace[i]]
    BY <1>1 DEF RealState
  <1> SUFFICES ASSUME NEW i \in 1..N
               PROVE  /\ RealState(i) \in State
                      /\ state_trace[i] \in Goal => RealState(i) \in Goal
                      /\ i = N /\ ~mixed => RealState(i) = Origin(state_trace[i])
                      /\ i > 1 /\ ~mixed =>
                            \E q \in Applicable[RealState(i)] :
                               /\ Result[RealState(i)][q] = RealState(i-1)
                               /\ node[state_trace[i]].g + Cost[q]
                                    <= node[state_trace[i-1]].g
    OBVIOUS
  <1>4. IsAutomorphism(R(i))
    <2>1. N + 1 - i \in 0..N
      BY <1>1
    <2> QED
      BY <1>2, <2>1
  <1>5. RealState(i) \in State /\ (state_trace[i] \in Goal => RealState(i) \in Goal)
    BY <1>1, <1>3, <1>4, AutomorphismFacts
  <1>6. ASSUME NEW k \in 1..N, ~mixed
        PROVE  /\ RealState(k) = ReversePermutation(N - k)[Origin(state_trace[k])]
               /\ Origin(state_trace[k]) \in State
    <2>1. /\ N + 1 - k \in 1..N /\ N + 1 - (N + 1 - k) = k
          /\ (N + 1 - k) - 1 = N - k /\ N - k \in 0..N
      BY <1>1
    <2>2. R(k) = Compose(permutations[k], ReversePermutation(N - k))
      BY <1>2, <2>1
    <2>3. R(k)[state_trace[k]] = ReversePermutation(N - k)[permutations[k][state_trace[k]]]
      <3>1. IsAutomorphism(permutations[k]) /\ IsAutomorphism(ReversePermutation(N - k))
        BY <1>1, <1>2, <2>1
      <3>2. state_trace[k] \in State
        BY <1>1
      <3> QED
        BY <2>2, <3>1, <3>2, ComposeIsAutomorphism
    <2>4. permutations[k][state_trace[k]] = Origin(state_trace[k])
      BY <1>6 DEF TraceOK
    <2>5. Origin(state_trace[k]) \in State
      BY <1>1, ReachedFacts
    <2> QED
      BY <1>3, <2>3, <2>4, <2>5
  <1>7. ASSUME i = N, ~mixed PROVE RealState(i) = Origin(state_trace[i])
    <2>1. /\ RealState(i) = ReversePermutation(N - i)[Origin(state_trace[i])]
          /\ Origin(state_trace[i]) \in State
      BY <1>6, <1>7
    <2>2. N - i = 0
      BY <1>1, <1>7
    <2> QED
      BY <1>2, <2>1, <2>2 DEF Identity
  <1>8. ASSUME i > 1, ~mixed
        PROVE  \E q \in Applicable[RealState(i)] :
                  /\ Result[RealState(i)][q] = RealState(i-1)
                  /\ node[state_trace[i]].g + Cost[q] <= node[state_trace[i-1]].g
    <2> DEFINE s == state_trace[i-1]
    <2>1. /\ i - 1 \in 1..N /\ i - 1 < N /\ (i - 1) + 1 = i
          /\ N - (i - 1) = N + 1 - i
      BY <1>1, <1>8
    <2>2. /\ s \in Reached /\ node[s].op # NoOp /\ state_trace[i] = node[s].parent
      BY <1>1, <2>1 DEF TraceOK
    <2>3. HasParent(s) /\ Origin(s) = Result[state_trace[i]][node[s].op]
      BY <2>2, OriginFacts DEF Origin
    <2>4. /\ node[s].op \in Applicable[state_trace[i]]
          /\ node[state_trace[i]].g + Cost[node[s].op] <= node[s].g
      BY <2>2, <2>3 DEF HasParent
    <2>5. RealState(i-1) = R(i)[Result[state_trace[i]][node[s].op]]
      BY <1>6, <1>8, <2>1, <2>3
    <2>6. RealState(i) = R(i)[state_trace[i]] /\ state_trace[i] \in State
      BY <1>1, <1>3
    <2> HIDE DEF R, s
    <2>7. PICK q \in Applicable[R(i)[state_trace[i]]] :
             /\ Result[R(i)[state_trace[i]]][q] = R(i)[Result[state_trace[i]][node[s].op]]
             /\ Cost[q] = Cost[node[s].op]
      BY <1>4, <2>4, <2>6 DEF IsAutomorphism
    <2>8. q \in Applicable[RealState(i)] /\ Result[RealState(i)][q] = RealState(i-1)
      BY <2>5, <2>6, <2>7
    <2> QED
      BY <2>4, <2>7, <2>8 DEF s
  <1> QED
    BY <1>5, <1>7, <1>8

LEMMA ConnectingFacts ==
    ASSUME NEW s \in State, NEW t \in State
    PROVE  /\ \A o \in Connecting(s, t) :
                 /\ o \in Applicable[s] /\ o \in Op /\ Result[s][o] = t
                 /\ \A q \in Applicable[s] : Result[s][q] = t => Cost[o] <= Cost[q]
           /\ \A q \in Applicable[s] : Result[s][q] = t => Connecting(s, t) # {}
  <1>1. \A o \in Applicable[s] : o \in Op /\ Cost[o] \in Nat
    BY TaskAssumption
  <1>2. ASSUME NEW q \in Applicable[s], Result[s][q] = t PROVE Connecting(s, t) # {}
    <2> DEFINE ops == {o \in Applicable[s] : Result[s][o] = t}
               costs == {Cost[o] : o \in ops}
    <2>1. costs \in SUBSET Nat /\ costs # {}
      BY <1>1, <1>2
    <2>2. PICK c \in costs : \A d \in costs : c <= d
      <3> HIDE DEF costs
      <3> QED
        BY <2>1, LeastNumber
    <2>3. PICK o \in ops : \A p \in ops : Cost[o] <= Cost[p]
      BY <2>2
    <2> QED
      BY <2>3 DEF Connecting
  <1> QED
    BY <1>1, <1>2 DEF Connecting

\* One turn of the last loop.
LEMMA RebuildFacts ==
    ASSUME SearchInv, TraceOK, PathOK, Rebuild
    PROVE  /\ phase = "rebuild" /\ Place \in 1..Len(state_trace)
           /\ \/ Place = 1 /\ phase' = "solved" /\ path' = path
              \/ mixed /\ phase' = "error" /\ path' = path
              \/ /\ Place > 1 /\ phase' = "rebuild"
                 /\ \E o \in Applicable[RealState(Place)] :
                       /\ path' = Append(path, o)
                       /\ Result[RealState(Place)][o] = RealState(Place - 1)
                       /\ mixed \/ node[state_trace[Place]].g + Cost[o]
                                      <= node[state_trace[Place - 1]].g
           /\ path' = path \/ \E o \in Op : path' = Append(path, o)
  <1>1. /\ phase = "rebuild" /\ Place \in 1..Len(state_trace) /\ Place \in Int
        /\ Len(state_trace) \in Nat /\ mixed \in BOOLEAN
    BY DEF Rebuild, PathOK, Tracing, SearchInv, TypeOK
  <1> DEFINE ops == Connecting(RealState(Place), RealState(Place - 1))
  <1>2. IF Place = 1 THEN phase' = "solved" /\ path' = path
        ELSE IF ops = {} THEN phase' = "error" /\ path' = path
        ELSE (\E o \in ops : path' = Append(path, o)) /\ phase' = phase
    BY DEF Rebuild, Place
  <1> HIDE DEF ops
  <1>3. CASE Place = 1
    BY <1>1, <1>2, <1>3
  <1>4. CASE Place # 1
    <2>1. Place > 1 /\ Place - 1 \in 1..Len(state_trace)
      BY <1>1, <1>4
    <2>2. RealState(Place) \in State /\ RealState(Place - 1) \in State
      BY <1>1, <2>1, RealStateFacts
    <2>3. /\ \A o \in ops :
                 /\ o \in Applicable[RealState(Place)] /\ o \in Op
                 /\ Result[RealState(Place)][o] = RealState(Place - 1)
                 /\ \A q \in Applicable[RealState(Place)] :
                       Result[RealState(Place)][q] = RealState(Place - 1) => Cost[o] <= Cost[q]
          /\ \A q \in Applicable[RealState(Place)] :
                 Result[RealState(Place)][q] = RealState(Place - 1) => ops # {}
      BY <2>2, ConnectingFacts DEF ops
    <2>4. ASSUME ~mixed
          PROVE  \E q \in Applicable[RealState(Place)] :
                    /\ Result[RealState(Place)][q] = RealState(Place - 1)
                    /\ node[state_trace[Place]].g + Cost[q]
                         <= node[state_trace[Place - 1]].g
      BY <1>1, <2>1, <2>4, RealStateFacts
    <2>5. CASE ops = {}
      BY <1>1, <1>2, <1>4, <2>3, <2>4, <2>5
    <2>6. CASE ops # {}
      <3>1. PICK o \in ops : path' = Append(path, o) /\ phase' = phase
        BY <1>2, <1>4, <2>6
      <3>2. /\ o \in Applicable[RealState(Place)] /\ o \in Op
            /\ Result[RealState(Place)][o] = RealState(Place - 1)
        BY <2>3
      <3>3. mixed \/ node[state_trace[Place]].g + Cost[o] <= node[state_trace[Place - 1]].g
        <4> SUFFICES ASSUME ~mixed
                     PROVE  node[state_trace[Place]].g + Cost[o]
                              <= node[state_trace[Place - 1]].g
          BY <1>1
        <4>1. PICK q \in Applicable[RealState(Place)] :
                    /\ Result[RealState(Place)][q] = RealState(Place - 1)
                    /\ node[state_trace[Place]].g + Cost[q]
                         <= node[state_trace[Place - 1]].g
          BY <2>4
        <4>2. Cost[o] <= Cost[q]
          BY <2>3, <4>1
        <4>5. q \in Op
          BY <2>2, <4>1, TaskAssumption
        <4>6. Cost[o] \in Nat /\ Cost[q] \in Nat
          BY <3>2, <4>5, TaskAssumption
        <4>3. /\ state_trace[Place] \in Reached /\ state_trace[Place - 1] \in Reached
          BY <1>1, <2>1 DEF TraceOK
        <4>4. node[state_trace[Place]].g \in Nat /\ node[state_trace[Place - 1]].g \in Nat
          BY <4>3, ReachedFacts
        <4> QED
          BY <4>1, <4>2, <4>4, <4>6
      <3> QED
        BY <1>1, <2>1, <3>1, <3>2, <3>3
    <2> QED
      BY <2>5, <2>6
  <1> QED
    BY <1>3, <1>4

LEMMA TypeNext ==
    ASSUME SearchInv, TraceOK, PathOK, Next \/ UNCHANGED vars
    PROVE  TypeOK'
  <1>0. /\ TypeOK
        /\ h \in Heuristics /\ search_symmetries \in {"OSS", "DKS"}
        /\ GeneratorsOK /\ registry \in Seq(State)
        /\ node \in [State -> NodeInfo] /\ open \subseteq [state : State, g : Nat]
        /\ phase \in Searching \cup Tracing \cup {"failed"}
        /\ todo \subseteq Op /\ state_trace \in Seq(State)
        /\ permutations \in Seq([State -> State]) /\ mixed \in BOOLEAN /\ path \in Seq(Op)
    BY DEF SearchInv, TypeOK
  <1>1. CASE UNCHANGED options /\ UNCHANGED <<registry, node, open, state_trace,
                                    permutations, mixed, path>> /\ todo' \subseteq Op
             /\ phase' \in Searching \cup Tracing \cup {"failed"}
    BY <1>0, <1>1, OptionsStay DEF TypeOK
  <1>2. CASE OpenListEmpty \/ ExpansionDone \/ UNCHANGED vars \/ Finished
    <2>1. /\ UNCHANGED options
          /\ UNCHANGED <<registry, node, open, state_trace, permutations, mixed, path>>
      BY <1>2 DEF OpenListEmpty, ExpansionDone, Finished, vars, trace_vars
    <2>2. todo' \subseteq Op
      BY <1>0, <1>2 DEF OpenListEmpty, ExpansionDone, Finished, vars
    <2>3. phase' \in Searching \cup Tracing \cup {"failed"}
      BY <1>0, <1>2 DEF OpenListEmpty, ExpansionDone, Finished, vars, Searching
    <2> QED
      BY <1>1, <2>1, <2>2, <2>3
  <1>3. ASSUME NEW e \in open, Fetch(e) PROVE TypeOK'
    <2>1. e.state \in State /\ open' \subseteq [state : State, g : Nat]
      BY <1>0, <1>3 DEF Fetch
    <2>2. node' \in [State -> NodeInfo]
      <3>1. ASSUME NEW n \in NodeInfo PROVE [n EXCEPT !.status = "CLOSED"] \in NodeInfo
        BY DEF NodeInfo, Status
      <3>2. node' = node \/ node' = [node EXCEPT ![e.state].status = "CLOSED"]
        BY <1>3 DEF Fetch
      <3>3. ASSUME NEW x \in State
            PROVE  [node EXCEPT ![x].status = "CLOSED"] \in [State -> NodeInfo]
        <4>1. node[x] \in NodeInfo
          BY <1>0
        <4>2. [node[x] EXCEPT !.status = "CLOSED"] \in NodeInfo
          BY <3>1, <4>1
        <4> QED
          BY <1>0, <4>2
      <3> QED
        BY <1>0, <2>1, <3>2, <3>3
    <2>3. phase' \in Searching \cup Tracing \cup {"failed"} /\ todo' \subseteq Op
      BY <1>0, <1>3, <2>1, TaskAssumption DEF Fetch, Searching, Tracing
    <2>4. UNCHANGED <<options, registry, trace_vars>>
      BY <1>3 DEF Fetch
    <2> QED
      BY <1>0, <2>1, <2>2, <2>3, <2>4, OptionsStay DEF TypeOK, trace_vars
  <1>4. ASSUME NEW o \in todo, CutOff(o) PROVE TypeOK'
    BY <1>0, <1>1, <1>4 DEF CutOff, Generating, trace_vars
  <1>5. ASSUME NEW o \in todo, Generate(o) PROVE TypeOK'
    <2>1. PICK t, g : /\ t = Stored(registry, Result[current][o])
                      /\ g = node[current].g + Cost[o]
      OBVIOUS
    <2>2. /\ phase = "expand" /\ g < Bound /\ t \in State /\ g \in Nat
          /\ current \in State /\ o \in Op
      BY <1>5, <2>1, ExpansionFacts DEF Generate, Generating, WithinBound
    <2>3. registry' \in Seq(State)
      BY <1>0, <1>5, <2>1, <2>2, RegisterType DEF Generate
    <2>4. \/ node' = [node EXCEPT ![t].status = "DEAD_END"] /\ UNCHANGED open
          \/ node' = [node EXCEPT ![t] = OpenNode(g, current, o)] /\ InsertEntry(t, g)
          \/ UNCHANGED <<node, open>>
      BY <1>5, <2>1 DEF Generate
    <2>5. node' \in [State -> NodeInfo]
      <3>1. ASSUME NEW n \in NodeInfo PROVE [n EXCEPT !.status = "DEAD_END"] \in NodeInfo
        BY DEF NodeInfo, Status
      <3>2. OpenNode(g, current, o) \in NodeInfo
        BY <2>2 DEF OpenNode, NodeInfo, Status
      <3> QED
        BY <1>0, <2>2, <2>4, <3>1, <3>2
    <2>6. open' \subseteq [state : State, g : Nat]
      BY <1>0, <2>2, <2>4 DEF InsertEntry
    <2>7. UNCHANGED <<options, phase, trace_vars>> /\ todo' \subseteq Op
      BY <1>0, <1>5 DEF Generate, Generating
    <2> QED
      BY <1>0, <2>3, <2>5, <2>6, <2>7, OptionsStay DEF TypeOK, trace_vars
  <1>6. CASE TraceBack
    <2>1. /\ current \in State /\ Origin(current) \in State
          /\ UNCHANGED <<options, node, open, todo, path>>
          /\ state_trace' = Append(state_trace, current)
          /\ mixed' \in BOOLEAN /\ phase' \in {"trace", "rebuild"}
      BY <1>6, TraceBackFacts
    <2>2. PICK p : permutations' = Append(permutations, p) /\ IsAutomorphism(p)
      BY <1>6, TraceBackFacts
    <2>3. permutations' \in Seq([State -> State]) /\ state_trace' \in Seq(State)
      BY <1>0, <2>1, <2>2, AutomorphismFacts
    <2>4. registry' \in Seq(State)
      BY <1>0, <1>6, <2>1, RegisterType DEF TraceBack, MainRegistry
    <2>5. phase' \in Searching \cup Tracing \cup {"failed"}
      BY <2>1 DEF Tracing
    <2> QED
      BY <1>0, <2>1, <2>3, <2>4, <2>5, OptionsStay DEF TypeOK
  <1>7. CASE Rebuild
    <2>1. /\ UNCHANGED <<options, registry, node, open, todo, state_trace,
                         permutations, mixed>>
          /\ phase' \in {"rebuild", "solved", "error"}
      BY <1>7 DEF Rebuild
    <2>2. path' \in Seq(Op)
      <3>1. path' = path \/ \E o \in Op : path' = Append(path, o)
        BY <1>7, RebuildFacts
      <3>2. CASE path' = path
        BY <1>0, <3>2
      <3>3. CASE \E o \in Op : path' = Append(path, o)
        BY <1>0, <3>3, AppendProperties
      <3> QED
        BY <3>1, <3>2, <3>3
    <2>3. phase' \in Searching \cup Tracing \cup {"failed"}
      BY <2>1 DEF Tracing
    <2> QED
      BY <1>0, <2>1, <2>2, <2>3, OptionsStay DEF TypeOK
  <1> QED
    BY <1>2, <1>3, <1>4, <1>5, <1>6, <1>7 DEF Next

LEMMA SearchInvNext ==
    ASSUME SearchInv, TraceOK, PathOK, Next \/ UNCHANGED vars
    PROVE  SearchInv'
  <1>1. TypeOK'
    BY TypeNext
  <1>2. (NodeInv /\ ExpansionOK /\ ClosedOK)'
    BY OtherNext, FetchNext, CutOffNext, GenerateNext DEF Next, Finished
  <1> QED
    BY <1>1, <1>2 DEF SearchInv, NodeInv

\* What the reconstruction keeps, before it starts and while it goes on.
LEMMA TraceInit == Init => TraceOK /\ PathOK /\ FoundIsNearest
  BY DEF Init, TraceOK, PathOK, FoundIsNearest, Tracing

\* Nodes stay what they are for the trace as long as the search has not
\* ended, since there is no trace, and afterwards, since they do not change.
LEMMA TraceUntouched ==
    ASSUME SearchInv, TraceOK, PathOK, FoundIsNearest, phase \notin Tracing,
           phase' \notin Tracing, UNCHANGED <<options, trace_vars>>
    PROVE  TraceOK' /\ PathOK' /\ FoundIsNearest'
  <1>1. state_trace = <<>> /\ path = <<>> /\ Len(permutations) = Len(state_trace)
    BY DEF TraceOK, PathOK
  <1>2. state_trace' = <<>> /\ path' = <<>> /\ Len(permutations') = Len(state_trace')
    BY <1>1 DEF trace_vars
  <1>3. 1..Len(state_trace') = {}
    BY <1>2
  <1>4. phase' # "trace" /\ phase' # "solved" /\ phase' # "error"
    BY DEF Tracing
  <1> QED
    BY <1>2, <1>3, <1>4 DEF TraceOK, PathOK, FoundIsNearest

\* Some node stands for a state on a cheapest plan, at a cost no larger than
\* that of the plan.
OnPath(m, n) ==
    /\ m \in Solvable /\ n \in Reached /\ Symmetric(m, n)
    /\ node[n].g + Dist[m] <= Dist[InitialState]

\* As long as the search goes on, one such node is open.
LEMMA Frontier ==
    ASSUME SearchInv, IsAdmissible, phase = "fetch", InitialState \in Solvable,
           Dist[InitialState] < Bound
    PROVE  \E m, n : OnPath(m, n) /\ node[n].status = "OPEN"
  <1>0. /\ GeneratorsOK /\ Solvable \subseteq State /\ InitialState \in State
        /\ \A s \in State : Dist[s] \in Nat /\ Rank[s] \in Nat
        /\ Bound \in Nat
    BY DistanceAssumption, TaskAssumption DEF SearchInv, TypeOK
  <1>1. OnPath(InitialState, InitialNode)
    <2>1. InitialNode \in State /\ Symmetric(InitialState, InitialNode)
      <3>1. InitialNode \in State
        BY InitialNodeType DEF SearchInv
      <3>2. Canonical(InitialState) = Canonical(InitialNode)
        BY <1>0, ToCanonicalFacts DEF InitialNode
      <3> QED
        BY <1>0, <3>1, <3>2, SameCanonicalIsSymmetric
    <2>2. h[InitialNode] # Infty
      BY <2>1, SymmetricNoFarther DEF IsAdmissible
    <2>3. InitialNode \in Reached /\ node[InitialNode].g = 0
      BY <2>2 DEF SearchInv, InitialOK
    <2> QED
      BY <1>0, <2>1, <2>3 DEF OnPath
  <1> DEFINE P == {m \in Solvable : \E n : OnPath(m, n)}
             Ranks == {Rank[m] : m \in P}
  <1>2. PICK k \in Ranks : \A j \in Ranks : k <= j
    <2>1. Ranks \in SUBSET Nat /\ Ranks # {}
      BY <1>0, <1>1 DEF OnPath
    <2> HIDE DEF Ranks
    <2> QED
      BY <2>1, LeastNumber
  <1>3. PICK m \in P : \A r \in P : Rank[m] <= Rank[r]
    BY <1>2
  <1>4. PICK n : OnPath(m, n)
    BY <1>3
  <1>5. /\ m \in State /\ m \in Solvable /\ n \in State /\ n \in Reached
        /\ node[n].g \in Nat /\ Symmetric(m, n)
        /\ node[n].g + Dist[m] <= Dist[InitialState]
    BY <1>0, <1>4, ReachedFacts DEF OnPath
  <1>6. ASSUME node[n].status = "CLOSED" PROVE FALSE
    <2>1. n \notin Goal
      BY <1>5, <1>6 DEF SearchInv, ClosedOK, Searching
    <2>2. m \in Solvable \ Goal
      BY <1>5, <2>1, SymmetricGoal
    <2>3. PICK o \in Applicable[m] : /\ Result[m][o] \in Solvable
                                     /\ Dist[m] = Cost[o] + Dist[Result[m][o]]
                                     /\ Rank[Result[m][o]] < Rank[m]
      BY <2>2, DistanceAssumption
    <2> DEFINE r == Result[m][o]
    <2>4. o \in Op /\ r \in State /\ Cost[o] \in Nat
      BY <1>5, <2>3, TaskAssumption
    <2>5. PICK q \in Applicable[n] : Symmetric(r, Result[n][q]) /\ Cost[q] = Cost[o]
      BY <1>5, <2>3, SymmetricTransition
    <2>6. Result[n][q] \in State
      BY <1>5, <2>5, TaskAssumption
    <2>7. Settled(Result[n][q], node[n].g + Cost[q])
      <3>1. \/ Bound <= node[n].g + Cost[q]
            \/ Settled(Result[n][q], node[n].g + Cost[q])
        BY <1>5, <1>6, <2>5 DEF SearchInv, ClosedOK, Searching
      <3>2. node[n].g + Cost[q] < Bound
        BY <1>0, <1>5, <2>3, <2>4, <2>5
      <3> QED
        BY <1>0, <1>5, <2>4, <2>5, <3>1, <3>2
    <2>8. PICK t \in State :
             /\ Canonical(t) = Canonical(Result[n][q])
             /\ \/ node[t].status = "DEAD_END"
                \/ /\ node[t].status \in {"OPEN", "CLOSED"}
                   /\ node[t].g <= node[n].g + Cost[q]
      BY <2>7 DEF Settled
    <2> HIDE DEF r
    <2>9. Symmetric(r, t)
      BY <1>0, <2>4, <2>5, <2>6, <2>8, SameCanonicalIsSymmetric, SymmetricIsEquivalence
    <2>10. r \in Solvable
      BY <2>3 DEF r
    <2>11. h[t] # Infty
      BY <2>9, <2>10, SymmetricNoFarther DEF IsAdmissible
    <2>12. t \in Reached /\ node[t].g <= node[n].g + Cost[o]
      BY <2>5, <2>8, <2>11 DEF SearchInv, DeadEndsOK, Reached
    <2>13. node[t].g \in Nat
      BY <2>12, ReachedFacts
    <2>14. OnPath(r, t)
      <3>1. Dist[m] = Cost[o] + Dist[r]
        BY <2>3 DEF r
      <3>2. node[t].g + Dist[r] <= Dist[InitialState]
        BY <1>0, <1>5, <2>4, <2>12, <2>13, <3>1
      <3> QED
        BY <2>9, <2>10, <2>12, <3>2 DEF OnPath
    <2>15. Rank[r] < Rank[m]
      BY <2>3 DEF r
    <2>16. Rank[m] <= Rank[r]
      BY <1>3, <2>10, <2>14
    <2> QED
      BY <1>0, <1>5, <2>4, <2>15, <2>16
  <1>7. node[n].status = "OPEN"
    BY <1>5, <1>6 DEF Reached
  <1> QED
    BY <1>4, <1>7

\* The goal state A* expands is as near to the initial state as any.
LEMMA GoalIsNearest ==
    ASSUME SearchInv, IsAdmissible, phase = "fetch", InitialState \in Solvable,
           NEW e \in open, IsMinimal(e), node[e.state].status # "CLOSED"
    PROVE  node[e.state].g <= Dist[InitialState]
  <1>1. /\ e.state \in Reached /\ node[e.state].g <= e.g /\ e.g \in Nat
    BY DEF SearchInv, QueueOK, TypeOK
  <1>2. /\ node[e.state].g \in Nat /\ h[e.state] # Infty /\ e.state \in State
        /\ node[e.state].g = 0 \/ node[e.state].g < Bound
    BY <1>1, ReachedFacts DEF SearchInv, NodesOK
  <1>3. \A s \in State : h[s] # Infty => h[s] \in Nat
    BY SymmetryAssumption DEF SearchInv, TypeOK
  <1>4. Bound \in Nat /\ Dist[InitialState] \in Nat
    BY TaskAssumption, DistanceAssumption
  <1>5. CASE ~(Dist[InitialState] < Bound)
    BY <1>2, <1>4, <1>5
  <1>6. CASE Dist[InitialState] < Bound
    <2>1. PICK m, n : OnPath(m, n) /\ node[n].status = "OPEN"
      BY <1>6, Frontier
    <2>2. /\ m \in Solvable /\ n \in Reached /\ Symmetric(m, n)
          /\ node[n].g + Dist[m] <= Dist[InitialState]
      BY <2>1 DEF OnPath
    <2>3. n \in State /\ node[n].g \in Nat
      BY <2>2, ReachedFacts
    <2>4. n \in Solvable /\ Dist[n] <= Dist[m]
      BY <2>2, <2>3, SymmetricNoFarther
    <2>5. h[n] # Infty /\ h[n] <= Dist[n] /\ h[n] \in Nat
      BY <1>3, <2>3, <2>4 DEF IsAdmissible
    <2>6. Dist[n] \in Nat /\ Dist[m] \in Nat
      BY <2>2, <2>3, DistanceAssumption
    <2>7. PICK d \in open : d.state = n /\ d.g = node[n].g
      BY <2>1, <2>3 DEF SearchInv, QueueOK
    <2>8. e.g + h[e.state] <= d.g + h[n]
      <3>1. e.g + h[e.state] \in Nat /\ d.g + h[n] \in Nat
        BY <1>1, <1>2, <1>3, <2>3, <2>5, <2>7
      <3>2. \/ EntryKey(e) < EntryKey(d)
            \/ EntryKey(e) = EntryKey(d)
        BY <2>7 DEF IsMinimal
      <3> QED
        BY <2>7, <3>1, <3>2 DEF EntryKey
    <2>9. h[e.state] \in Nat
      BY <1>2, <1>3
    <2> QED
      BY <1>1, <1>2, <1>4, <2>2, <2>3, <2>4, <2>5, <2>6, <2>7, <2>8, <2>9
  <1> QED
    BY <1>5, <1>6

\* The search finds a goal: the trace begins.
LEMMA FetchKeepsTrace ==
    ASSUME SearchInv, TraceOK, PathOK, FoundIsNearest, NEW e \in open, Fetch(e)
    PROVE  TraceOK' /\ PathOK' /\ FoundIsNearest'
  <1>1. /\ phase = "fetch" /\ IsMinimal(e) /\ UNCHANGED <<options, trace_vars>>
        /\ e.state \in Reached /\ e.state \in State
    BY DEF Fetch, SearchInv, QueueOK, Reached
  <1>2. CASE node[e.state].status = "CLOSED" \/ e.state \notin Goal
    <2>1. phase' \in {"fetch", "expand"}
      BY <1>1, <1>2 DEF Fetch
    <2> QED
      BY <1>1, <2>1, TraceUntouched DEF Tracing
  <1>3. CASE node[e.state].status # "CLOSED" /\ e.state \in Goal
    <2>1. /\ phase' = "trace" /\ current' = e.state
          /\ node' = [node EXCEPT ![e.state].status = "CLOSED"]
      BY <1>3 DEF Fetch
    <2>2. node'[e.state].status = "CLOSED" /\ node'[e.state].g = node[e.state].g
      BY <1>1, <2>1 DEF SearchInv, TypeOK, NodeInfo
    <2>3. e.state \in Reached'
      BY <1>1, <2>2 DEF Reached
    <2>4. state_trace = <<>> /\ path = <<>> /\ Len(permutations) = Len(state_trace)
      BY <1>1 DEF TraceOK, PathOK, Tracing
    <2>5. state_trace' = <<>> /\ path' = <<>> /\ Len(permutations') = Len(state_trace')
      BY <1>1, <2>4 DEF trace_vars
    <2>6. 1..Len(state_trace') = {} /\ Found' = e.state
      BY <2>1, <2>5 DEF Found
    <2>7. TraceOK' /\ PathOK'
      BY <1>3, <2>1, <2>3, <2>5, <2>6 DEF TraceOK, PathOK, Tracing
    <2>8. FoundIsNearest'
      <3> SUFFICES ASSUME IsAdmissible', InitialState \in Solvable
                   PROVE  node'[e.state].g <= Dist[InitialState]
        BY <2>6 DEF FoundIsNearest
      <3>1. IsAdmissible
        BY <1>1 DEF IsAdmissible, options
      <3> QED
        BY <1>1, <1>3, <2>2, <3>1, GoalIsNearest
    <2> QED
      BY <2>7, <2>8
  <1> QED
    BY <1>2, <1>3

\* The trace is complete: the plan starts from the initial state.
PlanStarts == phase = "rebuild" /\ path = <<>>

LEMMA PlanStartsRight == SearchInv /\ TraceOK /\ PlanStarts => PathOK
  <1> SUFFICES ASSUME SearchInv, TraceOK, PlanStarts PROVE PathOK
    OBVIOUS
  <1> DEFINE N == Len(state_trace)
  <1>1. /\ phase = "rebuild" /\ path = <<>> /\ Len(path) = 0
        /\ state_trace \in Seq(State) /\ state_trace # <<>>
        /\ node[state_trace[N]].op = NoOp
    BY DEF PlanStarts, TraceOK, Tracing, SearchInv, TypeOK
  <1>2. N \in Nat /\ N \in 1..N /\ Place = N
    BY <1>1, EmptySeq DEF Place
  <1>3. state_trace[N] \in Reached
    BY <1>2 DEF TraceOK
  <1>4. node[state_trace[N]].g \in Nat /\ Origin(state_trace[N]) = InitialState
    BY <1>1, <1>3, ReachedFacts DEF Origin
  <1>5. ~mixed => RealState(N) = InitialState
    BY <1>2, <1>4, RealStateFacts
  <1>6. PathCost(path) = 0 /\ Execute(InitialState, path) = InitialState
    BY <1>1, PathCostNothing, ExecuteNothing, TaskAssumption
  <1>7. Dist[InitialState] \in Nat
    BY DistanceAssumption, TaskAssumption
  <1> HIDE DEF N
  <1>8. /\ Place \in 1..Len(state_trace) /\ Place = N
        /\ phase # "solved" /\ phase # "error"
    BY <1>1, <1>2 DEF N
  <1> QED
    BY <1>1, <1>4, <1>5, <1>6, <1>7, <1>8 DEF PathOK

LEMMA TraceBackKeepsTrace ==
    ASSUME SearchInv, TraceOK, PathOK, FoundIsNearest, TraceBack
    PROVE  TraceOK' /\ PathOK' /\ FoundIsNearest'
  <1> DEFINE N == Len(state_trace)
  <1>1. /\ phase = "trace" /\ current \in Reached /\ current \in State
        /\ UNCHANGED <<options, node, open, todo, path>>
        /\ state_trace' = Append(state_trace, current)
        /\ mixed \in BOOLEAN /\ mixed' \in BOOLEAN /\ (mixed => mixed')
        /\ \/ /\ node[current].op = NoOp /\ Origin(current) = InitialState
              /\ phase' = "rebuild" /\ current' = current
           \/ /\ node[current].op # NoOp /\ HasParent(current)
              /\ phase' = "trace" /\ current' = node[current].parent
              /\ current' \in Reached
    BY TraceBackFacts
  <1>2. PICK p : /\ permutations' = Append(permutations, p)
                 /\ IsAutomorphism(p)
                 /\ mixed' \/ p[current] = Origin(current)
    BY TraceBackFacts
  <1>3. /\ state_trace \in Seq(State) /\ permutations \in Seq([State -> State])
        /\ N \in Nat /\ Len(permutations) = N /\ path = <<>>
        /\ p \in [State -> State]
    BY <1>1, <1>2, AutomorphismFacts DEF SearchInv, TypeOK, TraceOK, PathOK
  <1>4. /\ Len(state_trace') = N + 1 /\ Len(permutations') = N + 1
        /\ state_trace'[N+1] = current /\ permutations'[N+1] = p
        /\ \A i \in 1..N : /\ state_trace'[i] = state_trace[i]
                           /\ permutations'[i] = permutations[i]
        /\ state_trace' # <<>>
    BY <1>1, <1>2, <1>3, AppendProperties
  <1>5. Reached' = Reached /\ \A s \in State : Origin(s)' = Origin(s)
    BY <1>1 DEF Reached, Origin
  <1>6. state_trace = <<>> <=> N = 0
    BY <1>3, EmptySeq
  <1>7. Found' = Found /\ Found \in Goal
    <2>1. CASE N = 0
      BY <1>1, <1>4, <1>6, <2>1 DEF Found, TraceOK, Tracing
    <2>2. CASE N # 0
      BY <1>1, <1>3, <1>4, <1>6, <2>2 DEF Found, TraceOK, Tracing
    <2> QED
      BY <2>1, <2>2
  <1>8. ASSUME NEW i \in 1..(N+1)
        PROVE  /\ state_trace'[i] \in Reached'
               /\ IsAutomorphism(permutations'[i])
               /\ mixed' \/ permutations'[i][state_trace'[i]] = Origin(state_trace[i])'
               /\ i < N + 1 =>
                     /\ node'[state_trace'[i]].op # NoOp
                     /\ state_trace'[i+1] = node'[state_trace'[i]].parent
    <2>1. CASE i = N + 1
      <3>1. state_trace'[i] = current /\ permutations'[i] = p
        BY <1>4, <2>1
      <3>2. Origin(state_trace[i])' = Origin(current)
        BY <1>1, <3>1 DEF Origin
      <3> QED
        BY <1>1, <1>2, <1>3, <1>5, <2>1, <3>1, <3>2
    <2>2. CASE i < N + 1
      <3>1. i \in 1..N
        BY <1>3, <2>2
      <3>2. /\ state_trace[i] \in Reached /\ state_trace[i] \in State
            /\ IsAutomorphism(permutations[i])
            /\ mixed \/ permutations[i][state_trace[i]] = Origin(state_trace[i])
            /\ i < N => /\ node[state_trace[i]].op # NoOp
                        /\ state_trace[i+1] = node[state_trace[i]].parent
        BY <3>1 DEF TraceOK, Reached
      <3>3. state_trace'[i] = state_trace[i] /\ permutations'[i] = permutations[i]
        BY <1>4, <3>1
      <3>4. i = N => /\ node[state_trace[i]].op # NoOp
                     /\ current = node[state_trace[i]].parent
        BY <1>1, <1>6, <3>1 DEF TraceOK
      <3>5. i < N => state_trace'[i+1] = state_trace[i+1]
        BY <1>3, <1>4, <3>1
      <3>6. Origin(state_trace[i])' = Origin(state_trace[i])
        BY <1>1, <3>3 DEF Origin
      <3>7. node'[state_trace'[i]] = node[state_trace[i]]
        BY <1>1, <3>3
      <3>8. i < N \/ i = N
        BY <1>3, <3>1
      <3>9. i = N => state_trace'[i+1] = current
        BY <1>4
      <3>10. i < N + 1 => /\ node'[state_trace'[i]].op # NoOp
                         /\ state_trace'[i+1] = node'[state_trace'[i]].parent
        BY <3>2, <3>4, <3>5, <3>7, <3>8, <3>9
      <3>11. mixed' \/ permutations'[i][state_trace'[i]] = Origin(state_trace[i])'
        BY <1>1, <3>2, <3>3, <3>6
      <3> QED
        BY <1>5, <3>2, <3>3, <3>10, <3>11
    <2> QED
      BY <1>3, <2>1, <2>2
  <1>9. TraceOK'
    <2>1. state_trace'[Len(state_trace')] = current
      BY <1>4
    <2>2. \A i \in 1..Len(state_trace') :
             /\ state_trace'[i] \in Reached'
             /\ IsAutomorphism(permutations'[i])
             /\ mixed' \/ permutations'[i][state_trace'[i]] = Origin(state_trace[i])'
             /\ i < Len(state_trace') =>
                   /\ node'[state_trace'[i]].op # NoOp
                   /\ state_trace'[i+1] = node'[state_trace'[i]].parent
      BY <1>4, <1>8
    <2>3. /\ phase' \in Tracing
          /\ phase' = "trace" => /\ current' \in Reached'
                                 /\ node'[current].op # NoOp
                                 /\ current' = node'[current].parent
          /\ phase' \in Tracing \ {"trace"} => node'[current].op = NoOp
      BY <1>1, <1>5 DEF Tracing
    <2>4. Len(permutations') = Len(state_trace') /\ state_trace' # <<>>
      BY <1>4
    <2> QED
      BY <1>7, <2>1, <2>2, <2>3, <2>4 DEF TraceOK
  <1>10. FoundIsNearest'
    BY <1>1, <1>7 DEF FoundIsNearest, IsAdmissible, Tracing, options
  <1>11. SearchInv'
    BY SearchInvNext DEF Next
  <1>12. (SearchInv /\ TraceOK /\ PlanStarts => PathOK)'
    BY PlanStartsRight, PTL
  <1>13. PathOK'
    <2>1. CASE phase' = "rebuild"
      BY <1>1, <1>3, <1>9, <1>11, <1>12, <2>1 DEF PlanStarts
    <2>2. CASE phase' = "trace"
      BY <1>1, <1>3, <2>2 DEF PathOK, Tracing
    <2> QED
      BY <1>1, <2>1, <2>2
  <1> QED
    BY <1>9, <1>10, <1>13

LEMMA RebuildKeepsTrace ==
    ASSUME SearchInv, TraceOK, PathOK, FoundIsNearest, Rebuild
    PROVE  TraceOK' /\ PathOK' /\ FoundIsNearest'
  <1>1. /\ phase = "rebuild" /\ phase' \in {"rebuild", "solved", "error"}
        /\ UNCHANGED <<options, node, current, state_trace, permutations, mixed>>
    BY DEF Rebuild
  <1>2. /\ Found' = Found /\ Reached' = Reached
        /\ \A s : Origin(s)' = Origin(s)
        /\ \A i : RealState(i)' = RealState(i)
    BY <1>1 DEF Found, Reached, Origin, RealState, ReversePermutation, Compose, Identity
  <1>3. FoundIsNearest'
    BY <1>1, <1>2 DEF FoundIsNearest, IsAdmissible, Tracing, options
  <1>4. TraceOK'
    <2>1. phase \in Tracing \ {"trace"} /\ phase' \in Tracing \ {"trace"}
      BY <1>1 DEF Tracing
    <2>2. \A i \in 1..Len(state_trace) :
             /\ state_trace'[i] \in Reached'
             /\ IsAutomorphism(permutations'[i])
             /\ mixed' \/ permutations'[i][state_trace'[i]] = Origin(state_trace[i])'
             /\ i < Len(state_trace') =>
                   /\ node'[state_trace'[i]].op # NoOp
                   /\ state_trace'[i+1] = node'[state_trace'[i]].parent
      BY <1>1, <1>2 DEF TraceOK, Origin
    <2> QED
      BY <1>1, <1>2, <2>1, <2>2 DEF TraceOK
  <1>5. /\ Place \in 1..Len(state_trace) /\ Place \in Int /\ Len(state_trace) \in Nat
        /\ path \in Seq(Op) /\ mixed \in BOOLEAN
        /\ phase \in Tracing \ {"trace"}
    BY <1>1, RebuildFacts DEF SearchInv, TypeOK, Tracing
  <1>6. PICK k : k = Place
    OBVIOUS
  <1>7. ~mixed => /\ Execute(InitialState, path) = RealState(k)
                  /\ PathCost(path) <= node[state_trace[k]].g
                  /\ RealState(k) \in Solvable =>
                        /\ InitialState \in Solvable
                        /\ Dist[InitialState] <= PathCost(path) + Dist[RealState(k)]
    BY <1>5, <1>6 DEF PathOK
  <1>8. CASE path' = path /\ (phase' = "solved" => k = 1) /\ (phase' = "error" => mixed)
    <2>1. Place' = k
      BY <1>1, <1>6, <1>8 DEF Place
    <2>2. k \in 1..Len(state_trace')
      BY <1>1, <1>5, <1>6
    <2>3. RealState(Place)' = RealState(k)
      <3>1. UNCHANGED <<permutations, state_trace>>
        BY <1>1
      <3> QED
        BY <2>1, <3>1 DEF RealState, ReversePermutation, Compose, Identity
    <2>4. phase' \in Tracing \ {"trace"}
      BY <1>1 DEF Tracing
    <2>5. PathOK'
      BY <1>1, <1>7, <1>8, <2>1, <2>2, <2>3, <2>4 DEF PathOK
    <2> QED
      BY <1>3, <1>4, <2>5
  <1>9. CASE /\ k > 1 /\ phase' = "rebuild"
             /\ \E o \in Applicable[RealState(k)] :
                   /\ path' = Append(path, o)
                   /\ Result[RealState(k)][o] = RealState(k - 1)
                   /\ mixed \/ node[state_trace[k]].g + Cost[o]
                                  <= node[state_trace[k - 1]].g
    <2>1. PICK o \in Applicable[RealState(k)] :
                   /\ path' = Append(path, o)
                   /\ Result[RealState(k)][o] = RealState(k - 1)
                   /\ mixed \/ node[state_trace[k]].g + Cost[o]
                                  <= node[state_trace[k - 1]].g
      BY <1>9
    <2>2. k \in 1..Len(state_trace) /\ k - 1 \in 1..Len(state_trace) /\ k \in Int
      BY <1>5, <1>6, <1>9
    <2>3. RealState(k) \in State /\ RealState(k-1) \in State
      BY <2>2, RealStateFacts
    <2>4. o \in Op /\ Cost[o] \in Nat
      BY <2>1, <2>3, TaskAssumption
    <2>5. Len(path') = Len(path) + 1 /\ Len(path) \in Nat
      BY <1>5, <2>1, <2>4
    <2>6. Place' = k - 1
      BY <1>1, <1>5, <1>6, <2>5 DEF Place
    <2>7. RealState(Place)' = RealState(k - 1)
      <3>1. UNCHANGED <<permutations, state_trace>>
        BY <1>1
      <3>2. PICK i : i = k - 1
        OBVIOUS
      <3>3. Place' = i
        BY <2>6, <3>2
      <3>4. RealState(Place)' = RealState(i)
        BY <3>1, <3>3, SMTT(60) DEF RealState, ReversePermutation, Compose, Identity
      <3> QED
        BY <3>2, <3>4
    <2>8. ASSUME ~mixed
          PROVE  /\ Execute(InitialState, path') = RealState(k - 1)
                 /\ PathCost(path') <= node[state_trace[k - 1]].g
                 /\ RealState(k - 1) \in Solvable =>
                       /\ InitialState \in Solvable
                       /\ Dist[InitialState] <= PathCost(path') + Dist[RealState(k - 1)]
      <3>1. /\ Execute(InitialState, path) = RealState(k)
            /\ PathCost(path) <= node[state_trace[k]].g
            /\ RealState(k) \in Solvable =>
                  /\ InitialState \in Solvable
                  /\ Dist[InitialState] <= PathCost(path) + Dist[RealState(k)]
        BY <1>7, <2>8
      <3>2. Execute(InitialState, path') = RealState(k - 1)
        BY <1>5, <2>1, <2>3, <2>4, <3>1, ExecuteAppend, TaskAssumption
      <3>3. PathCost(path) \in Nat /\ PathCost(path') = PathCost(path) + Cost[o]
        BY <1>5, <2>1, <2>4, PathCostAppend
      <3>4. state_trace[k] \in Reached /\ state_trace[k-1] \in Reached
        BY <2>2 DEF TraceOK
      <3>5. node[state_trace[k]].g \in Nat /\ node[state_trace[k-1]].g \in Nat
        BY <3>4, ReachedFacts
      <3>6. PathCost(path') <= node[state_trace[k - 1]].g
        BY <2>1, <2>4, <2>8, <3>1, <3>3, <3>5
      <3>7. ASSUME RealState(k - 1) \in Solvable
            PROVE  /\ InitialState \in Solvable
                   /\ Dist[InitialState] <= PathCost(path') + Dist[RealState(k - 1)]
        <4>1. RealState(k) \in Solvable /\ Dist[RealState(k)] <= Cost[o] + Dist[RealState(k-1)]
          BY <2>1, <2>3, <3>7, DistanceAssumption
        <4>2. /\ Dist[RealState(k)] \in Nat /\ Dist[RealState(k-1)] \in Nat
              /\ Dist[InitialState] \in Nat
          BY <2>3, DistanceAssumption, TaskAssumption
        <4> QED
          BY <2>4, <3>1, <3>3, <4>1, <4>2
      <3> QED
        BY <3>2, <3>6, <3>7
    <2>9. phase' \in Tracing \ {"trace"} /\ phase' # "solved" /\ phase' # "error"
      BY <1>9 DEF Tracing
    <2>10. k - 1 \in 1..Len(state_trace')
      BY <1>1, <2>2
    <2>11. PathOK'
      BY <1>1, <2>6, <2>7, <2>8, <2>9, <2>10 DEF PathOK
    <2> QED
      BY <1>3, <1>4, <2>11
  <1>10. \/ path' = path /\ (phase' = "solved" => k = 1) /\ (phase' = "error" => mixed)
         \/ /\ k > 1 /\ phase' = "rebuild"
            /\ \E o \in Applicable[RealState(k)] :
                   /\ path' = Append(path, o)
                   /\ Result[RealState(k)][o] = RealState(k - 1)
                   /\ mixed \/ node[state_trace[k]].g + Cost[o]
                                  <= node[state_trace[k - 1]].g
    BY <1>6, RebuildFacts
  <1> QED
    BY <1>8, <1>9, <1>10

LEMMA Stutters ==
    ASSUME TraceOK, PathOK, FoundIsNearest, UNCHANGED vars
    PROVE  TraceOK' /\ PathOK' /\ FoundIsNearest'
  <1> USE DEF vars, options, trace_vars
  <1>1. TraceOK'
    BY DEF TraceOK, Reached, Found, Origin
  <1>2. PathOK'
    <2>1. /\ UNCHANGED <<phase, path, state_trace, node, mixed>>
          /\ Place' = Place
      BY DEF Place
    <2>2. RealState(Place)' = RealState(Place)
      BY <2>1 DEF RealState, ReversePermutation, Compose, Identity
    <2> QED
      BY <2>1, <2>2 DEF PathOK
  <1>3. FoundIsNearest'
    BY DEF FoundIsNearest, IsAdmissible, Found
  <1> QED
    BY <1>1, <1>2, <1>3

LEMMA InvInit == Init => Inv
  BY SearchInvInit, TraceInit DEF Inv

LEMMA InvNext == Inv /\ [Next]_vars => Inv'
  <1> SUFFICES ASSUME SearchInv, TraceOK, PathOK, FoundIsNearest, Next \/ UNCHANGED vars
               PROVE  Inv'
    BY DEF Inv
  <1>1. SearchInv'
    BY SearchInvNext
  <1>2. CASE OpenListEmpty \/ ExpansionDone
    <2>1. /\ phase \in {"fetch", "expand"} /\ phase' \in {"fetch", "failed"}
          /\ UNCHANGED <<options, trace_vars>>
      BY <1>2 DEF OpenListEmpty, ExpansionDone
    <2> QED
      BY <1>1, <2>1, TraceUntouched DEF Inv, Tracing
  <1>3. ASSUME NEW e \in open, Fetch(e) PROVE Inv'
    BY <1>1, <1>3, FetchKeepsTrace DEF Inv
  <1>4. ASSUME NEW o \in todo, CutOff(o) \/ Generate(o) PROVE Inv'
    <2>1. phase = "expand" /\ UNCHANGED <<options, phase, trace_vars>>
      BY <1>4 DEF CutOff, Generate, Generating
    <2> QED
      BY <1>1, <2>1, TraceUntouched DEF Inv, Tracing
  <1>5. CASE TraceBack
    BY <1>1, <1>5, TraceBackKeepsTrace DEF Inv
  <1>6. CASE Rebuild
    BY <1>1, <1>6, RebuildKeepsTrace DEF Inv
  <1>7. CASE Finished \/ UNCHANGED vars
    BY <1>1, <1>7, Stutters DEF Inv, Finished
  <1> QED
    BY <1>2, <1>3, <1>4, <1>5, <1>6, <1>7 DEF Next

-----------------------------------------------------------------------------
(***************************************************************************)
(* The theorems                                                            *)
(***************************************************************************)

\* The invariant holds whatever Bliss returns, as long as the generators are
\* automorphisms, and whatever the heuristic says.
THEOREM Invariant == Spec => []Inv
  BY InvInit, InvNext, PTL DEF Spec

LEMMA InvParentsLeadToOrbit == Inv => ParentsLeadToOrbit
  <1> SUFFICES ASSUME SearchInv, NEW s \in Reached
               PROVE  /\ Origin(s) \in Orbit(s)
                      /\ Canonical(Origin(s)) = Canonical(s)
                      /\ node[s].op # NoOp =>
                            node[node[s].parent].g + Cost[node[s].op] <= node[s].g
    BY DEF Inv, ParentsLeadToOrbit, Reached
  <1>1. /\ s \in State /\ Origin(s) \in State
        /\ Canonical(Origin(s)) = Canonical(s)
        /\ node[s].op # NoOp => HasParent(s)
    BY OriginFacts
  <1>2. GeneratorsOK
    BY DEF SearchInv, TypeOK
  <1>3. Origin(s) \in Orbit(s)
    BY <1>1, <1>2, SameCanonicalIsInOrbit
  <1> QED
    BY <1>1, <1>3 DEF HasParent

\* The parent pointers lead from orbit to orbit: what the operator of a node
\* makes of its parent is a state of the orbit of the node, with the same
\* canonical representative, and g never is below the cost of that step.
THEOREM ParentsAlwaysLeadToOrbit == Spec => []ParentsLeadToOrbit
  BY Invariant, InvParentsLeadToOrbit, PTL

LEMMA InvOperatorsAreFound == Inv => OperatorsAreFound
  BY DEF Inv, PathOK, OperatorsAreFound

\* Between two states of the rebuilt trace there always is an operator, so
\* "No operator is found!!!" can only be said after equal IDs of two
\* registries have been taken for the same state.
THEOREM OperatorsAreAlwaysFound == Spec => []OperatorsAreFound
  BY Invariant, InvOperatorsAreFound, PTL

\* The plan is one: executed in the real initial state it reaches a goal, at
\* a cost no larger than the search has counted for the node of the goal.
PlanIsValid ==
    phase = "solved" /\ ~mixed =>
        /\ Execute(InitialState, path) \in Goal
        /\ PathCost(path) <= node[Found].g
        /\ PathCost(path) = 0 \/ PathCost(path) < Bound

LEMMA InvPlanIsValid == Inv => PlanIsValid
  <1> SUFFICES ASSUME Inv, phase = "solved", ~mixed
               PROVE  /\ Execute(InitialState, path) \in Goal
                      /\ PathCost(path) <= node[Found].g
                      /\ PathCost(path) = 0 \/ PathCost(path) < Bound
    BY DEF PlanIsValid
  <1>1. SearchInv /\ TraceOK /\ phase \in Tracing \ {"trace"} /\ phase \in Tracing
    BY DEF Inv, Tracing
  <1>2. /\ Place = 1 /\ Place \in 1..Len(state_trace)
        /\ Execute(InitialState, path) = RealState(Place)
        /\ PathCost(path) <= node[state_trace[Place]].g
    BY <1>1 DEF Inv, PathOK
  <1>3. Found = state_trace[1] /\ Found \in Goal /\ Found \in Reached
    BY <1>1, <1>2 DEF TraceOK, Found
  <1>4. RealState(1) \in Goal
    BY <1>1, <1>2, <1>3, RealStateFacts
  <1>5. /\ node[Found].g \in Nat
        /\ node[Found].g = 0 \/ node[Found].g < Bound
    BY <1>1, <1>3 DEF SearchInv, NodesOK
  <1>6. PathCost(path) \in Nat
    <2>1. path \in Seq(Op)
      BY <1>1 DEF SearchInv, TypeOK
    <2>2. PICK r : Added(path, r) /\ PathCost(path) = r[Len(path)]
      BY <2>1, PathCostIsAdded
    <2> QED
      BY <2>1, <2>2 DEF Added
  <1>7. PathCost(path) <= node[Found].g
    BY <1>2, <1>3
  <1> QED
    BY <1>2, <1>4, <1>5, <1>6, <1>7, TaskAssumption

\* Whatever the heuristic, what the reconstruction writes down is a plan of
\* the task, no dearer than the search believes it to be and below the bound.
THEOREM PlansAreValid == Spec => []PlanIsValid
  BY Invariant, InvPlanIsValid, PTL

LEMMA InvPlanIsCheapest == Inv => (IsAdmissible => PlanIsCheapest)
  <1> SUFFICES ASSUME Inv, IsAdmissible, phase = "solved", ~mixed
               PROVE  /\ Execute(InitialState, path) \in Goal
                      /\ PathCost(path) = Dist[InitialState]
    BY DEF PlanIsCheapest
  <1>1. /\ Execute(InitialState, path) \in Goal
        /\ PathCost(path) <= node[Found].g
    BY InvPlanIsValid DEF PlanIsValid
  <1>2. phase \in Tracing \ {"trace"} /\ phase \in Tracing
    BY DEF Tracing
  <1>3. /\ Execute(InitialState, path) = RealState(Place)
        /\ RealState(Place) \in Solvable =>
              /\ InitialState \in Solvable
              /\ Dist[InitialState] <= PathCost(path) + Dist[RealState(Place)]
    BY <1>2 DEF Inv, PathOK
  <1>4. RealState(Place) \in Solvable /\ Dist[RealState(Place)] = 0
    BY <1>1, <1>3, DistanceAssumption
  <1>5. node[Found].g <= Dist[InitialState]
    BY <1>2, <1>3, <1>4 DEF Inv, FoundIsNearest
  <1>6. PathCost(path) \in Nat /\ Dist[InitialState] \in Nat /\ node[Found].g \in Nat
    <2>1. path \in Seq(Op) /\ SearchInv /\ TraceOK
      BY DEF Inv, SearchInv, TypeOK
    <2>2. PICK r : Added(path, r) /\ PathCost(path) = r[Len(path)]
      BY <2>1, PathCostIsAdded
    <2>3. PathCost(path) \in Nat
      BY <2>1, <2>2 DEF Added
    <2>4. Place \in 1..Len(state_trace) /\ state_trace \in Seq(State)
      BY <1>2, <2>1 DEF Inv, PathOK, SearchInv, TypeOK
    <2>5. Found \in Reached
      BY <2>1, <2>4 DEF TraceOK, Found
    <2>6. node[Found].g \in Nat
      BY <2>1, <2>5, ReachedFacts
    <2> QED
      BY <2>3, <2>6, DistanceAssumption, TaskAssumption
  <1>7. PathCost(path) = Dist[InitialState]
    BY <1>1, <1>3, <1>4, <1>5, <1>6
  <1> QED
    BY <1>1, <1>7

\* A* with structural symmetries is optimal: with an admissible heuristic
\* (consistent or not, and not necessarily the same for symmetric states) the
\* plan put together from permuted states is a cheapest one of the task.
THEOREM PlansAreCheapest == Spec => [](IsAdmissible => PlanIsCheapest)
  BY Invariant, InvPlanIsCheapest, PTL

\* The search gives up only on tasks without a plan below the bound.
FailureIsRight ==
    phase = "failed" /\ IsAdmissible /\ InitialState \in Solvable =>
        Bound <= Dist[InitialState]

\* Pruning all but one state of an orbit loses no plan: when the open list
\* runs empty, the task has none below the bound.
THEOREM FailuresAreRight == Spec => []FailureIsRight
  <1>1. Init => FailureIsRight
    BY DEF Init, FailureIsRight
  <1>2. Inv /\ FailureIsRight /\ [Next]_vars => FailureIsRight'
    <2> SUFFICES ASSUME SearchInv, FailureIsRight, Next \/ UNCHANGED vars,
                        phase' = "failed", IsAdmissible', InitialState \in Solvable
                 PROVE  Bound <= Dist[InitialState]
      BY DEF Inv, FailureIsRight
    <2>1. CASE OpenListEmpty
      <3>1. phase = "fetch" /\ open = {} /\ IsAdmissible
        BY <2>1 DEF OpenListEmpty, options, IsAdmissible
      <3>2. ASSUME Dist[InitialState] < Bound PROVE FALSE
        <4>1. PICK m, n : OnPath(m, n) /\ node[n].status = "OPEN"
          BY <3>1, <3>2, Frontier
        <4>2. n \in State
          BY <4>1 DEF OnPath, Reached
        <4> QED
          BY <3>1, <4>1, <4>2 DEF SearchInv, QueueOK
      <3> QED
        BY <3>2, TaskAssumption, DistanceAssumption
    <2>2. CASE UNCHANGED vars \/ Finished
      BY <2>2 DEF Finished, vars, options, FailureIsRight, IsAdmissible
    <2>3. CASE \E e \in open : Fetch(e)
      BY <2>3 DEF Fetch
    <2>4. CASE \E o \in todo : CutOff(o) \/ Generate(o)
      BY <2>4 DEF CutOff, Generate, Generating
    <2>5. CASE ExpansionDone \/ TraceBack \/ Rebuild
      BY <2>5 DEF ExpansionDone, TraceBack, Rebuild
    <2> QED
      BY <2>1, <2>2, <2>3, <2>4, <2>5 DEF Next
  <1> QED
    BY <1>1, <1>2, Invariant, PTL DEF Spec
=============================================================================
