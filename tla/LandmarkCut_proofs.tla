------------------------ MODULE LandmarkCut_proofs -------------------------
(***************************************************************************)
(* Proofs about LM-cut: for every task, with or without conditional        *)
(* effects, all cost functions and all sequences of calls, whatever an     *)
(* earlier call has left behind,                                           *)
(*  - the values of h^max updated after a cut are exact (HMaxStaysExact),  *)
(*  - every relaxed plan contains an operator of each cut                  *)
(*    (CutsAreLandmarks),                                                  *)
(*  - the estimate is at most the cost of a relaxed plan, and at least     *)
(*    h^max if no operator has to be used twice (EstimatesAreBounded).     *)
(* LandmarkInv says that the values lie above those of h^max, that each    *)
(* operator knows a dearest precondition, and what the queue still has to  *)
(* correct; with an empty queue the values are a lower estimate as well.   *)
(* The lemmas about iterated functions and finite chains are those of      *)
(* merge-and-shrink.                                                       *)
(***************************************************************************)
EXTENDS LandmarkCut, FiniteDomainTask_proofs

-----------------------------------------------------------------------------
(***************************************************************************)
(* The relaxed task                                                        *)
(***************************************************************************)
LEMMA FactsFinite == IsFiniteSet(Facts)
<1> DEFINE S == {{v} \X Domain[v] : v \in Var}
<1>1. IsFiniteSet(Var)
  BY TaskAssumption
<1>2. IsFiniteSet(S)
  <2>1. [v \in Var |-> {v} \X Domain[v]] \in Surjection(Var, S)
    BY DEF Surjection
  <2> QED
    BY <1>1, <2>1, FS_Surjection
<1>3. \A T \in S : IsFiniteSet(T)
  <2> SUFFICES ASSUME NEW v \in Var PROVE IsFiniteSet({v} \X Domain[v])
    OBVIOUS
  <2>1. IsFiniteSet({v}) /\ IsFiniteSet(Domain[v])
    BY DomainFinite, FS_Singleton
  <2>2. \A A, B : IsFiniteSet(A) /\ IsFiniteSet(B) => IsFiniteSet(A \X B)
    BY FS_Product
  <2> QED
    BY <2>1, <2>2
<1> QED
  BY <1>2, <1>3, FS_UNION DEF Facts

LEMMA RelaxedTask ==
  /\ IsFiniteSet(Propositions) /\ Cardinality(Propositions) \in Nat
  /\ GoalOp \in RelaxedOps /\ GoalOp.group = GoalGroup
  /\ GoalGroup \notin Op /\ Groups = Op \cup {GoalGroup}
  /\ None \notin Propositions
  /\ artificial_goal \in Propositions /\ artificial_precondition \in Propositions
  /\ artificial_goal # artificial_precondition /\ artificial_goal \notin Facts
  /\ GoalOp.effects = {artificial_goal}
  /\ \A o \in RelaxedOps :
        /\ o.group \in Groups
        /\ o.preconditions \subseteq Propositions /\ o.preconditions # {}
        /\ IsFiniteSet(o.preconditions)
        /\ o.effects \subseteq Propositions
  /\ \A s \in State :
        /\ Holding(s) \subseteq Propositions /\ artificial_goal \notin Holding(s)
        /\ Holding(s) # {} /\ IsFiniteSet(Holding(s))
<1>1. IsFiniteSet(Propositions) /\ Cardinality(Propositions) \in Nat
  <2>1. IsFiniteSet({artificial_precondition} \cup {artificial_goal})
    BY FS_Singleton, FS_AddElement
  <2> QED
    BY <2>1, FactsFinite, FS_Union, FS_CardinalityType DEF Propositions
<1>2. \A f \in Facts : f[1] # 0
  <2> SUFFICES ASSUME NEW f \in Facts PROVE f[1] # 0
    OBVIOUS
  <2>1. f[1] \in Var
    BY FactIsPair
  <2>2. Var = 1..Cardinality(Var) /\ Cardinality(Var) \in Nat
    BY TaskAssumption, VarFinite
  <2> QED
    BY <2>1, <2>2
<1>3. GoalGroup \notin Op
  <2>1. Op = 1..Cardinality(Op) /\ Cardinality(Op) \in Nat
    BY RelaxedTaskAssumption, TaskAssumption, FS_CardinalityType
  <2> QED
    BY <2>1 DEF GoalGroup
<1>4. None \notin Facts /\ artificial_goal \notin Facts /\ artificial_precondition \notin Facts
  BY <1>2 DEF None, artificial_goal, artificial_precondition
<1>5. /\ None # artificial_goal /\ None # artificial_precondition
      /\ artificial_goal # artificial_precondition
  BY DEF None, artificial_goal, artificial_precondition
<1>6. ASSUME NEW o \in RelaxedOps
      PROVE  /\ o.group \in Groups
             /\ o.preconditions \subseteq Propositions /\ o.preconditions # {}
             /\ o.effects \subseteq Propositions
  <2>1. CASE o = GoalOp
    <3>1. Goal \in SUBSET Propositions /\ {artificial_goal} \in SUBSET Propositions
      BY TaskAssumption DEF Propositions
    <3> QED
      BY <2>1, <3>1 DEF GoalOp, RelaxedOperator, Groups, Propositions
  <2>2. CASE \E p \in Op : o \in RelaxedOpsOf(p)
    <3>1. PICK p \in Op : o \in RelaxedOpsOf(p)
      BY <2>2
    <3>2. Pre[p] \subseteq Facts /\ \A e \in Effects[p] : e.fact \in Facts /\ e.cond \subseteq Facts
      BY TaskAssumption
    <3> DEFINE always == {e \in Effects[p] : e.cond = {}}
    <3>3. \/ o = RelaxedOperator(p, Pre[p], {e.fact : e \in always})
          \/ \E e \in Effects[p] : o = RelaxedOperator(p, Pre[p] \cup e.cond, {e.fact})
      BY <3>1 DEF RelaxedOpsOf
    <3>4. PICK pre, eff : /\ o = RelaxedOperator(p, pre, eff)
                          /\ pre \subseteq Facts /\ eff \subseteq Facts
      <4>1. {e.fact : e \in always} \subseteq Facts
        BY <3>2
      <4>2. ASSUME NEW e \in Effects[p] PROVE Pre[p] \cup e.cond \subseteq Facts /\ {e.fact} \subseteq Facts
        BY <3>2
      <4> HIDE DEF always
      <4>3. CASE o = RelaxedOperator(p, Pre[p], {e.fact : e \in always})
        BY <3>2, <4>1, <4>3
      <4>4. CASE \E e \in Effects[p] : o = RelaxedOperator(p, Pre[p] \cup e.cond, {e.fact})
        BY <4>2, <4>4
      <4> QED
        BY <3>3, <4>3, <4>4
    <3>5. pre \in SUBSET Propositions /\ eff \in SUBSET Propositions
      BY <3>4 DEF Propositions
    <3>6. p \in Groups
      BY DEF Groups
    <3> HIDE DEF always
    <3> QED
      BY <3>5, <3>4, <3>6 DEF RelaxedOperator, Propositions
  <2>3. o = GoalOp \/ \E p \in Op : o \in RelaxedOpsOf(p)
    BY DEF RelaxedOps
  <2> QED
    BY <2>1, <2>2, <2>3
<1>7. ASSUME NEW o \in RelaxedOps PROVE IsFiniteSet(o.preconditions)
  BY <1>1, <1>6, FS_Subset
<1>8. ASSUME NEW s \in State
      PROVE  /\ Holding(s) \subseteq Propositions /\ artificial_goal \notin Holding(s)
             /\ Holding(s) # {}
  <2>1. \A v \in Var : <<v, s[v]>> \in Facts
    BY DEF State, Facts
  <2> QED
    BY <1>4, <1>5, <2>1 DEF Holding, Propositions
<1>9. ASSUME NEW s \in State PROVE IsFiniteSet(Holding(s))
  BY <1>1, <1>8, FS_Subset
<1> QED
  <2>1. GoalOp.group = GoalGroup /\ GoalOp.effects = {artificial_goal}
    BY DEF GoalOp, RelaxedOperator
  <2>2. GoalOp \in RelaxedOps
    BY DEF RelaxedOps
  <2> QED
    BY <1>1, <1>3, <1>4, <1>5, <1>6, <1>7, <1>8, <1>9, <2>1, <2>2 DEF Propositions, Groups

-----------------------------------------------------------------------------
(***************************************************************************)
(* h^max                                                                   *)
(***************************************************************************)
LEMMA LeastFacts ==
  ASSUME NEW S \in SUBSET Distances, S # {}
  PROVE  Least(S) \in S /\ \A y \in S : AtMost(Least(S), y)
<1>1. \E x \in S : \A y \in S : AtMost(x, y)
  <2>1. CASE S \cap Nat = {}
    BY <2>1 DEF Distances, AtMost
  <2>2. CASE S \cap Nat # {}
    <3>1. PICK n \in S \cap Nat : \A m \in S \cap Nat : n <= m
      <4>1. S \cap Nat \in SUBSET Nat
        OBVIOUS
      <4> QED
        BY <2>2, <4>1, LeastNumber
    <3> QED
      BY <3>1, InftyAssumption DEF Distances, AtMost
  <2> QED
    BY <2>1, <2>2
<1> QED
  BY <1>1 DEF Least

LEMMA GreatestFacts ==
  ASSUME NEW S \in SUBSET Distances, S # {}, IsFiniteSet(S)
  PROVE  Greatest(S) \in S /\ \A y \in S : AtMost(y, Greatest(S))
<1> DEFINE N == Cardinality(S)
<1>1. N \in Nat /\ N # 0
  BY FS_CardinalityType, FS_EmptySet
<1>2. PICK f : f \in Bijection(1..N, S)
  BY FS_CardinalityType DEF ExistsBijection
<1>3. f \in [1..N -> S] /\ \A x \in S : \E i \in 1..N : f[i] = x
  BY <1>2 DEF Bijection, Surjection
<1> DEFINE T == {n \in 0..N : n = 0 \/ \E i \in 1..n : \A j \in 1..n : AtMost(f[j], f[i])}
<1>4. 0 \in T
  BY <1>1
<1>5. ASSUME NEW n \in 1..N, n - 1 \in T PROVE n \in T
  <2>1. n \in 0..N /\ n \in 1..n /\ f[n] \in Distances
    BY <1>1, <1>3
  <2>2. AtMost(f[n], f[n])
    BY <2>1, InftyAssumption DEF AtMost, Distances
  <2>3. CASE n = 1
    <3>1. \A j \in 1..n : AtMost(f[j], f[n])
      BY <2>2, <2>3
    <3> QED
      BY <2>1, <3>1
  <2>4. CASE n # 1
    <3>1. PICK i \in 1..(n - 1) : \A j \in 1..(n - 1) : AtMost(f[j], f[i])
      BY <1>5, <2>4
    <3>2. i \in 1..n /\ f[i] \in Distances /\ \A j \in 1..(n - 1) : f[j] \in Distances
      <4>1. \A j \in 1..N : f[j] \in Distances
        BY <1>3
      <4>2. \A j \in 1..(n - 1) : j \in 1..N /\ j \in 1..n
        BY <1>1
      <4> QED
        BY <4>1, <4>2
    <3>3. \A j \in 1..n : j = n \/ j \in 1..(n - 1)
      OBVIOUS
    <3>4. CASE AtMost(f[n], f[i])
      BY <2>1, <3>1, <3>2, <3>3, <3>4
    <3>5. CASE ~AtMost(f[n], f[i])
      <4>1. ASSUME NEW j \in 1..(n - 1) PROVE AtMost(f[j], f[n])
        <5>1. f[j] \in Distances /\ AtMost(f[j], f[i])
          BY <3>1, <3>2
        <5> QED
          BY <2>1, <3>2, <3>5, <5>1, InftyAssumption DEF AtMost, Distances
      <4> QED
        BY <2>1, <2>2, <3>3, <4>1
    <3> QED
      BY <3>4, <3>5
  <2> QED
    BY <2>3, <2>4
<1>6. N \in T
  <2> HIDE DEF T, N
  <2> QED
    BY <1>1, <1>4, <1>5, Induct
<1>7. PICK i \in 1..N : \A j \in 1..N : AtMost(f[j], f[i])
  BY <1>1, <1>6
<1>8. f[i] \in S /\ \A y \in S : AtMost(y, f[i])
  BY <1>3, <1>7
<1> QED
  BY <1>8 DEF Greatest

\* The functions h^max is one of.
Estimates == [Propositions -> Distances]

LEMMA DearestFacts ==
  ASSUME NEW h \in Estimates, NEW o \in RelaxedOps
  PROVE  LET x == Greatest({h[q] : q \in o.preconditions})
         IN  /\ x \in Distances
             /\ \E q \in o.preconditions : x = h[q]
             /\ \A q \in o.preconditions : AtMost(h[q], x)
<1> DEFINE S == {h[q] : q \in o.preconditions}
<1>1. o.preconditions \subseteq Propositions /\ o.preconditions # {}
      /\ IsFiniteSet(o.preconditions)
  BY RelaxedTask
<1>2. S \in SUBSET Distances /\ S # {}
  BY <1>1 DEF Estimates
<1>3. IsFiniteSet(S)
  <2>1. [q \in o.preconditions |-> h[q]] \in Surjection(o.preconditions, S)
    BY DEF Surjection
  <2> QED
    BY <1>1, <2>1, FS_Surjection
<1>4. Greatest(S) \in S /\ \A y \in S : AtMost(y, Greatest(S))
  <2> HIDE DEF S
  <2> QED
    BY <1>2, <1>3, GreatestFacts
<1> QED
  BY <1>2, <1>4

\* What an operator offers.
LEMMA ThroughFacts ==
  ASSUME NEW c \in [Groups -> Nat], NEW h \in Estimates, NEW o \in RelaxedOps
  PROVE  /\ Through(c, h, o) \in Distances
         /\ \E q \in o.preconditions : Through(c, h, o) = Plus(c[o.group], h[q])
         /\ \A q \in o.preconditions : AtMost(Plus(c[o.group], h[q]), Through(c, h, o))
<1> DEFINE x == Greatest({h[q] : q \in o.preconditions})
<1>1. /\ x \in Distances
      /\ \E q \in o.preconditions : x = h[q]
      /\ \A q \in o.preconditions : AtMost(h[q], x)
  BY DearestFacts
<1>2. \A q \in o.preconditions : h[q] \in Distances
  BY RelaxedTask DEF Estimates
<1>3. Through(c, h, o) = Plus(c[o.group], x)
  BY DEF Through
<1> HIDE DEF x
<1>4. c[o.group] \in Nat
  BY RelaxedTask
<1> QED
  BY <1>1, <1>2, <1>3, <1>4, InftyAssumption DEF Plus, AtMost, Distances

LEMMA ImprovedFacts ==
  ASSUME NEW c \in [Groups -> Nat], NEW h \in Estimates
  PROVE  /\ Improved(c, h) \in Estimates
         /\ \A p \in Propositions :
              /\ AtMost(Improved(c, h)[p], h[p])
              /\ \A o \in RelaxedOps :
                    p \in o.effects => AtMost(Improved(c, h)[p], Through(c, h, o))
              /\ \/ Improved(c, h)[p] = h[p]
                 \/ \E o \in RelaxedOps :
                       p \in o.effects /\ Improved(c, h)[p] = Through(c, h, o)
<1> DEFINE S(p) ==
      {h[p]} \cup {Through(c, h, o) : o \in {x \in RelaxedOps : p \in x.effects}}
<1>1. ASSUME NEW p \in Propositions
      PROVE  Least(S(p)) \in S(p) /\ \A y \in S(p) : AtMost(Least(S(p)), y)
  <2>1. S(p) \in SUBSET Distances /\ S(p) # {}
    BY ThroughFacts DEF Estimates
  <2> HIDE DEF S
  <2> QED
    BY <2>1, LeastFacts
<1>2. \A p \in Propositions : S(p) \subseteq Distances
  BY ThroughFacts DEF Estimates
<1>3. Improved(c, h) = [p \in Propositions |-> Least(S(p))]
  BY DEF Improved
<1>4. Improved(c, h) \in Estimates
  BY <1>1, <1>2, <1>3 DEF Estimates
<1>5. \A p \in Propositions :
         Improved(c, h)[p] \in S(p) /\ \A y \in S(p) : AtMost(Improved(c, h)[p], y)
  BY <1>1, <1>3
<1> QED
  BY <1>4, <1>5

\* Lower bounds of h^max: 0 where a state holds, and at most what every
\* operator offers.
LowerEstimates(s, c) ==
    {g \in Estimates :
        /\ \A p \in Holding(s) : g[p] = 0
        /\ \A o \in RelaxedOps : \A p \in o.effects : AtMost(g[p], Through(c, g, o))}

LEMMA AtMostTrans ==
  ASSUME NEW a \in Distances, NEW b \in Distances, NEW d \in Distances,
         AtMost(a, b), AtMost(b, d)
  PROVE  AtMost(a, d)
BY InftyAssumption DEF AtMost, Distances

LEMMA PlusMonotone ==
  ASSUME NEW c \in Nat, NEW a \in Distances, NEW b \in Distances, AtMost(a, b)
  PROVE  /\ AtMost(Plus(c, a), Plus(c, b)) /\ AtMost(a, Plus(c, b))
         /\ Plus(c, a) \in Distances /\ Plus(c, b) \in Distances
BY InftyAssumption DEF AtMost, Distances, Plus

LEMMA ThroughMonotone ==
  ASSUME NEW c \in [Groups -> Nat], NEW g \in Estimates, NEW h \in Estimates,
         NEW o \in RelaxedOps, \A q \in o.preconditions : AtMost(g[q], h[q])
  PROVE  AtMost(Through(c, g, o), Through(c, h, o))
<1>1. PICK q \in o.preconditions : Through(c, g, o) = Plus(c[o.group], g[q])
  BY ThroughFacts
<1>2. AtMost(Plus(c[o.group], h[q]), Through(c, h, o)) /\ Through(c, h, o) \in Distances
  BY ThroughFacts
<1>3. q \in Propositions /\ g[q] \in Distances /\ h[q] \in Distances /\ c[o.group] \in Nat
  BY RelaxedTask DEF Estimates
<1>4. /\ AtMost(Plus(c[o.group], g[q]), Plus(c[o.group], h[q]))
      /\ Plus(c[o.group], g[q]) \in Distances /\ Plus(c[o.group], h[q]) \in Distances
  BY <1>3, PlusMonotone
<1> QED
  BY <1>1, <1>2, <1>4, AtMostTrans

\* In value iteration, one more proposition keeps its value after each turn.
LEMMA Converges ==
  ASSUME NEW c \in [Groups -> Nat], NEW N, N = Cardinality(Propositions),
         NEW e \in [0..(N + 1) -> Estimates],
         \A i \in 1..(N + 1) : e[i] = Improved(c, e[i - 1])
  PROVE  e[N + 1] = e[N]
<1> DEFINE M == N + 1
           Stable(D, n) == \A m \in n..M : \A p \in D : e[m][p] = e[n][p]
           S == {n \in 0..N : \E D \in SUBSET Propositions : Cardinality(D) = n /\ Stable(D, n)}
<1>1. N \in Nat /\ M \in Nat /\ N < M
  BY RelaxedTask
<1>2. \A m \in 0..M : e[m] \in Estimates /\ \A p \in Propositions : e[m][p] \in Distances
  BY DEF Estimates
<1>3. 0 \in S
  <2>1. {} \in SUBSET Propositions /\ Cardinality({}) = 0 /\ Stable({}, 0)
    BY FS_EmptySet
  <2> QED
    BY <1>1, <2>1
<1>4. ASSUME NEW n \in 1..N, n - 1 \in S PROVE n \in S
  <2>1. PICK D \in SUBSET Propositions : Cardinality(D) = n - 1 /\ Stable(D, n - 1)
    BY <1>4
  <2>2. n \in 0..M /\ n - 1 \in 0..M /\ n \in 1..M /\ n \in 0..N
    BY <1>1
  <2> DEFINE Out == Propositions \ D
  <2>3. Out # {}
    <3>1. D # Propositions
      BY <1>1, <2>1, <2>2
    <3> QED
      BY <2>1, <3>1
  <2>4. PICK q \in Out : \A x \in Out : AtMost(e[n][q], e[n][x])
    <3> DEFINE V == {e[n][x] : x \in Out}
    <3>1. V \in SUBSET Distances /\ V # {}
      BY <1>2, <2>2, <2>3
    <3>2. Least(V) \in V /\ \A y \in V : AtMost(Least(V), y)
      <4> HIDE DEF V
      <4> QED
        BY <3>1, LeastFacts
    <3>3. PICK q \in Out : Least(V) = e[n][q]
      BY <3>2
    <3>4. \A x \in Out : e[n][x] \in V
      OBVIOUS
    <3> HIDE DEF V
    <3> QED
      BY <3>2, <3>3, <3>4
  <2>5. PICK w : w = e[n][q]
    OBVIOUS
  <2>6. w \in Distances
    BY <1>2, <2>2, <2>5
  <2> DEFINE Bounded(m) == AtMost(e[m][q], w) /\ \A x \in Out : AtMost(w, e[m][x])
  <2>7. Bounded(n)
    BY <2>4, <2>5, <2>6, InftyAssumption DEF AtMost, Distances
  <2>8. ASSUME NEW m \in n..(M - 1), Bounded(m) PROVE Bounded(m + 1)
    <3>1. /\ m \in 0..M /\ m + 1 \in 1..M /\ m + 1 \in 0..M /\ (m + 1) - 1 = m
          /\ m \in (n - 1)..M
      BY <1>1, <2>2
    <3>2. e[m + 1] = Improved(c, e[m]) /\ e[m] \in Estimates
      BY <1>2, <3>1
    <3>3. \A p \in Propositions : e[m][p] \in Distances /\ e[m + 1][p] \in Distances
      BY <1>2, <3>1
    <3>4. AtMost(e[m + 1][q], w)
      <4>1. AtMost(e[m + 1][q], e[m][q])
        BY <3>2, ImprovedFacts
      <4> QED
        BY <2>6, <2>8, <3>3, <4>1, AtMostTrans
    <3>5. ASSUME NEW x \in Out PROVE AtMost(w, e[m + 1][x])
      <4>1. CASE e[m + 1][x] = e[m][x]
        BY <2>8, <4>1
      <4>2. ASSUME NEW o \in RelaxedOps, x \in o.effects, e[m + 1][x] = Through(c, e[m], o)
            PROVE  AtMost(w, e[m + 1][x])
        <5>1. CASE o.preconditions \subseteq D
          <6>1. \A r \in o.preconditions : e[m][r] = e[n - 1][r]
            BY <2>1, <3>1, <5>1
          <6>2. {e[m][r] : r \in o.preconditions} = {e[n - 1][r] : r \in o.preconditions}
            BY <6>1
          <6>3. Through(c, e[m], o) = Through(c, e[n - 1], o)
            BY <6>2 DEF Through
          <6>4. e[n] = Improved(c, e[n - 1]) /\ e[n - 1] \in Estimates
            BY <1>2, <2>2
          <6>5. AtMost(e[n][x], Through(c, e[n - 1], o))
            BY <4>2, <6>4, ImprovedFacts
          <6>6. AtMost(w, e[n][x]) /\ e[n][x] \in Distances
            BY <1>2, <2>2, <2>4, <2>5
          <6> QED
            BY <2>6, <3>3, <4>2, <6>3, <6>5, <6>6, AtMostTrans
        <5>2. CASE ~(o.preconditions \subseteq D)
          <6>1. PICK r \in o.preconditions : r \notin D
            BY <5>2
          <6>2. r \in Out /\ c[o.group] \in Nat
            BY <6>1, RelaxedTask
          <6>3. AtMost(w, e[m][r]) /\ e[m][r] \in Distances
            BY <2>8, <3>3, <6>2
          <6>4. AtMost(w, Plus(c[o.group], e[m][r])) /\ Plus(c[o.group], e[m][r]) \in Distances
            BY <2>6, <6>2, <6>3, PlusMonotone
          <6>5. AtMost(Plus(c[o.group], e[m][r]), Through(c, e[m], o))
            BY <3>2, ThroughFacts
          <6> QED
            BY <2>6, <3>3, <4>2, <6>4, <6>5, AtMostTrans
        <5> QED
          BY <5>1, <5>2
      <4>3. \/ e[m + 1][x] = e[m][x]
            \/ \E o \in RelaxedOps : x \in o.effects /\ e[m + 1][x] = Through(c, e[m], o)
        BY <3>2, ImprovedFacts
      <4> QED
        BY <4>1, <4>2, <4>3
    <3> QED
      BY <3>4, <3>5
  <2>9. ASSUME NEW m \in n..M PROVE Bounded(m)
    <3> DEFINE B == {k \in 0..(M - n) : Bounded(n + k)}
    <3>1. M - n \in Nat /\ m - n \in 0..(M - n) /\ n + (m - n) = m
      BY <1>1
    <3>2. 0 \in B
      <4>1. n + 0 = n /\ 0 \in 0..(M - n)
        BY <3>1
      <4> QED
        BY <2>7, <4>1
    <3>3. ASSUME NEW k \in 1..(m - n), k - 1 \in B PROVE k \in B
      <4>1. n + (k - 1) \in n..(M - 1) /\ (n + (k - 1)) + 1 = n + k /\ k \in 0..(M - n)
        BY <1>1, <3>1
      <4>2. Bounded(n + (k - 1))
        BY <3>3
      <4> HIDE DEF Bounded
      <4>3. Bounded((n + (k - 1)) + 1)
        BY <2>8, <4>1, <4>2
      <4> QED
        BY <4>1, <4>3
    <3>4. m - n \in B
      <4> HIDE DEF B
      <4>1. m - n \in Nat
        BY <3>1
      <4> QED
        BY <3>2, <3>3, <4>1, Induct
    <3> HIDE DEF Bounded
    <3> QED
      BY <3>1, <3>4
  <2>10. \A m \in n..M : e[m][q] = w
    <3> SUFFICES ASSUME NEW m \in n..M PROVE e[m][q] = w
      OBVIOUS
    <3>1. m \in 0..M /\ e[m][q] \in Distances
      BY <1>1, <1>2
    <3>2. AtMost(e[m][q], w) /\ AtMost(w, e[m][q])
      BY <2>9
    <3> QED
      BY <2>6, <3>1, <3>2, AtMostBothWays
  <2> DEFINE E == D \cup {q}
  <2>11. E \in SUBSET Propositions /\ Cardinality(E) = n
    <3>1. IsFiniteSet(D) /\ q \notin D
      BY RelaxedTask, FS_Subset
    <3>2. Cardinality(E) = Cardinality(D) + 1
      BY <3>1, FS_AddElement
    <3> QED
      BY <2>1, <2>2, <3>2
  <2>12. Stable(E, n)
    <3> SUFFICES ASSUME NEW m \in n..M, NEW p \in E PROVE e[m][p] = e[n][p]
      OBVIOUS
    <3>1. CASE p = q
      BY <2>5, <2>10, <3>1
    <3>2. CASE p \in D
      <4>1. m \in (n - 1)..M /\ n \in (n - 1)..M
        BY <1>1, <2>2
      <4> QED
        BY <2>1, <3>2, <4>1
    <3> QED
      BY <3>1, <3>2
  <2> HIDE DEF E, Stable
  <2> QED
    BY <2>2, <2>11, <2>12
<1>5. N \in S
  <2> HIDE DEF S
  <2> QED
    BY <1>1, <1>3, <1>4, Induct
<1>6. PICK D \in SUBSET Propositions : Cardinality(D) = N /\ Stable(D, N)
  BY <1>5
<1>7. D = Propositions
  BY <1>6, RelaxedTask, FS_Subset
<1>8. M \in N..M /\ M \in 0..M /\ N \in 0..M
  BY <1>1
<1>9. \A p \in Propositions : e[M][p] = e[N][p]
  BY <1>6, <1>7, <1>8
<1>10. e[M] \in Estimates /\ e[N] \in Estimates
  BY <1>2, <1>8
<1> QED
  BY <1>9, <1>10 DEF Estimates

\* h^max is the greatest of its lower bounds.
LEMMA HMaxFacts ==
  ASSUME NEW s \in State, NEW c \in [Groups -> Nat]
  PROVE  /\ HMax(s, c) \in LowerEstimates(s, c)
         /\ \A g \in LowerEstimates(s, c) : \A p \in Propositions : AtMost(g[p], HMax(s, c)[p])
<1> DEFINE N == Cardinality(Propositions)
           base == [p \in Propositions |-> IF p \in Holding(s) THEN 0 ELSE Infty]
           F == [h \in Estimates |-> Improved(c, h)]
           Turn(x) == Only({Improved(c, h) : h \in {x}})
           Is(f) == f = [n \in 0..N |-> IF n = 0 THEN base ELSE Turn(f[n - 1])]
<1>1. N \in Nat /\ Holding(s) \subseteq Propositions
  BY RelaxedTask
<1>2. base \in Estimates /\ F \in [Estimates -> Estimates]
  BY ImprovedFacts DEF Estimates, Distances
<1>3. PICK it : Iterates(it, N, Estimates, base, F)
  <2> HIDE DEF N, F, base
  <2> QED
    BY <1>1, <1>2, Iteration
<1>4. \A h : Turn(h) = Improved(c, h)
  BY DEF Only
<1>5. Is(it)
  <2>1. it = [n \in 0..N |-> IF n = 0 THEN base ELSE F[it[n - 1]]]
        /\ \A n \in 0..N : it[n] \in Estimates
    BY <1>3 DEF Iterates
  <2>2. \A n \in 0..N : n # 0 => n - 1 \in 0..N
    BY <1>1
  <2>3. \A n \in 0..N : n # 0 => F[it[n - 1]] = Turn(it[n - 1])
    BY <1>4, <2>1, <2>2
  <2> HIDE DEF F, base, N, Turn
  <2> QED
    BY <2>1, <2>3
<1> DEFINE value == CHOOSE f : Is(f)
<1>6. Is(value)
  <2> HIDE DEF Is
  <2> QED
    BY <1>5
<1>7. HMax(s, c) = value[N]
  BY DEF HMax
<1>8. value[0] = base /\ \A n \in 1..N : value[n] = Improved(c, value[n - 1])
  <2> HIDE DEF value, base, Turn
  <2>1. \A n \in 0..N : value[n] = IF n = 0 THEN base ELSE Turn(value[n - 1])
    BY <1>6
  <2> QED
    BY <1>1, <1>4, <2>1
<1> HIDE DEF value, Is
\* Whatever the base satisfies and an iteration preserves.
<1>9. \A n \in 0..N : value[n] \in Estimates
  <2> SUFFICES ASSUME NEW m \in 0..N PROVE value[m] \in Estimates
    OBVIOUS
  <2> DEFINE S == {n \in Nat : value[n] \in Estimates}
  <2>1. 0 \in S
    BY <1>2, <1>8
  <2>2. ASSUME NEW i \in 1..m, i - 1 \in S PROVE i \in S
    <3>1. i \in 1..N /\ i \in Nat /\ value[i - 1] \in Estimates
      BY <1>1, <2>2
    <3> QED
      BY <1>8, <3>1, ImprovedFacts
  <2>3. m \in S
    <3> HIDE DEF S
    <3> QED
      BY <2>1, <2>2, Induct
  <2> QED
    BY <2>3
<1>10. Improved(c, value[N]) = value[N]
  <2> DEFINE e == [n \in 0..(N + 1) |-> IF n = N + 1 THEN Improved(c, value[N]) ELSE value[n]]
  <2>1. value[N] \in Estimates /\ Improved(c, value[N]) \in Estimates
    BY <1>1, <1>9, ImprovedFacts
  <2>2. e \in [0..(N + 1) -> Estimates]
    BY <1>1, <1>9, <2>1
  <2>3. ASSUME NEW i \in 1..(N + 1) PROVE e[i] = Improved(c, e[i - 1])
    <3>1. e[i - 1] = value[i - 1] /\ e[i] = IF i = N + 1 THEN Improved(c, value[N]) ELSE value[i]
      BY <1>1
    <3>2. CASE i = N + 1
      BY <1>1, <3>1, <3>2
    <3>3. CASE i # N + 1
      <4>1. i \in 1..N
        BY <1>1, <3>3
      <4> QED
        BY <1>8, <3>1, <3>3, <4>1
    <3> QED
      BY <3>2, <3>3
  <2>4. e[N + 1] = Improved(c, value[N]) /\ e[N] = value[N]
    BY <1>1
  <2> HIDE DEF e, N
  <2>5. e[N + 1] = e[N]
    BY <2>2, <2>3, Converges DEF N
  <2> QED
    BY <2>4, <2>5
<1>11. \A p \in Holding(s) : value[N][p] = 0
  <2> SUFFICES ASSUME NEW p \in Holding(s) PROVE value[N][p] = 0
    OBVIOUS
  <2> DEFINE S == {n \in 0..N : value[n][p] = 0}
  <2>1. 0 \in S
    BY <1>1, <1>8
  <2>2. ASSUME NEW i \in 1..N, i - 1 \in S PROVE i \in S
    <3>1. i \in 0..N /\ i - 1 \in 0..N /\ p \in Propositions /\ value[i - 1][p] = 0
      BY <1>1, <2>2
    <3>2. value[i] \in Estimates /\ value[i - 1] \in Estimates
          /\ value[i] = Improved(c, value[i - 1])
      BY <1>8, <1>9, <3>1
    <3>3. AtMost(value[i][p], 0) /\ value[i][p] \in Distances
      BY <3>1, <3>2, ImprovedFacts DEF Estimates
    <3> QED
      BY <3>1, <3>3, InftyAssumption DEF AtMost, Distances
  <2>3. N \in S
    <3> HIDE DEF S, N
    <3> QED
      BY <1>1, <2>1, <2>2, Induct
  <2> QED
    BY <2>3
<1>12. HMax(s, c) \in LowerEstimates(s, c)
  <2>1. value[N] \in Estimates
    BY <1>1, <1>9
  <2>2. \A o \in RelaxedOps : \A p \in o.effects :
           AtMost(value[N][p], Through(c, value[N], o))
    BY <1>10, <2>1, ImprovedFacts, RelaxedTask
  <2> QED
    BY <1>7, <1>11, <2>1, <2>2 DEF LowerEstimates
<1>13. ASSUME NEW g \in LowerEstimates(s, c)
       PROVE  \A p \in Propositions : AtMost(g[p], value[N][p])
  <2>1. /\ g \in Estimates /\ \A p \in Holding(s) : g[p] = 0
        /\ \A o \in RelaxedOps : \A p \in o.effects : AtMost(g[p], Through(c, g, o))
    BY <1>13 DEF LowerEstimates
  <2>2. \A p \in Propositions : g[p] \in Distances
    BY <2>1 DEF Estimates
  <2> DEFINE S == {n \in 0..N : \A p \in Propositions : AtMost(g[p], value[n][p])}
  <2>3. 0 \in S
    <3>1. \A p \in Propositions : AtMost(g[p], base[p])
      BY <2>1, InftyAssumption DEF AtMost
    <3> QED
      BY <1>1, <1>8, <3>1
  <2>4. ASSUME NEW i \in 1..N, i - 1 \in S PROVE i \in S
    <3>1. i \in 0..N /\ i - 1 \in 0..N /\ \A p \in Propositions : AtMost(g[p], value[i - 1][p])
      BY <1>1, <2>4
    <3>2. PICK h : h = value[i - 1]
      OBVIOUS
    <3>3. h \in Estimates /\ value[i] = Improved(c, h) /\ value[i] \in Estimates
      BY <1>8, <1>9, <3>1, <3>2
    <3>4. ASSUME NEW p \in Propositions PROVE AtMost(g[p], Improved(c, h)[p])
      <4>1. CASE Improved(c, h)[p] = h[p]
        BY <3>1, <3>2, <4>1
      <4>2. ASSUME NEW o \in RelaxedOps, p \in o.effects,
                   Improved(c, h)[p] = Through(c, h, o)
            PROVE  AtMost(g[p], Improved(c, h)[p])
        <5>1. \A q \in o.preconditions : AtMost(g[q], h[q])
          BY <3>1, <3>2, RelaxedTask
        <5>2. AtMost(Through(c, g, o), Through(c, h, o))
          BY <2>1, <3>3, <5>1, ThroughMonotone
        <5>3. Through(c, g, o) \in Distances /\ Through(c, h, o) \in Distances
          BY <2>1, <3>3, ThroughFacts
        <5> QED
          BY <2>1, <2>2, <4>2, <5>2, <5>3, AtMostTrans
      <4> QED
        BY <3>3, <4>1, <4>2, ImprovedFacts
    <3> QED
      BY <3>1, <3>3, <3>4
  <2>5. N \in S
    <3> HIDE DEF S, N
    <3> QED
      BY <1>1, <2>3, <2>4, Induct
  <2> QED
    BY <2>5
<1> QED
  BY <1>7, <1>12, <1>13

-----------------------------------------------------------------------------
(***************************************************************************)
(* Goal zone, relaxed plans and their costs                                *)
(***************************************************************************)
Rules == (SUBSET Propositions) \X Propositions

IsClosed(C, base, rules) == base \subseteq C /\ \A r \in rules : r[1] \subseteq C => r[2] \in C

\* A closure is closed, and part of everything that is.
LEMMA ClosureFacts ==
  ASSUME NEW base \in SUBSET Propositions, base # {}, NEW rules \in SUBSET Rules
  PROVE  /\ Closure(base, rules) \subseteq Propositions
         /\ IsClosed(Closure(base, rules), base, rules)
         /\ \A C \in SUBSET Propositions :
               IsClosed(C, base, rules) => Closure(base, rules) \subseteq C
<1> DEFINE N == Cardinality(Propositions)
           T == SUBSET Propositions
           Grown(R) == R \cup {r[2] : r \in {x \in rules : x[1] \subseteq R}}
           F == [R \in T |-> Grown(R)]
           Turn(X) == Only({Grown(R) : R \in {X}})
           Is(f) == f = [n \in 0..N |-> IF n = 0 THEN base ELSE Turn(f[n - 1])]
<1>1. N \in Nat /\ IsFiniteSet(Propositions)
  BY RelaxedTask
<1>2. \A R \in T : R \subseteq Grown(R) /\ Grown(R) \in T
  BY DEF Rules
<1>3. F \in [T -> T] /\ \A R \in T : R \subseteq F[R]
  BY <1>2
<1>4. \A X : Turn(X) = Grown(X)
  BY DEF Only
<1>5. PICK it : Iterates(it, N, T, base, F)
  <2> HIDE DEF N, F, T
  <2>1. base \in T
    BY DEF T
  <2> QED
    BY <1>1, <1>3, <2>1, Iteration
<1>6. Is(it)
  <2>1. it = [n \in 0..N |-> IF n = 0 THEN base ELSE F[it[n - 1]]]
        /\ \A n \in 0..N : it[n] \in T
    BY <1>5 DEF Iterates
  <2>2. \A n \in 0..N : n # 0 => n - 1 \in 0..N
    BY <1>1
  <2>3. \A n \in 0..N : n # 0 => F[it[n - 1]] = Turn(it[n - 1])
    <3> HIDE DEF Turn, Grown
    <3> QED
      BY <1>4, <2>1, <2>2
  <2> HIDE DEF F, Turn, N, T
  <2> QED
    BY <2>1, <2>3
<1> DEFINE closed == CHOOSE f : Is(f)
<1>7. Is(closed)
  <2> HIDE DEF Is
  <2> QED
    BY <1>6
<1>8. Closure(base, rules) = closed[N]
  BY DEF Closure
<1>9. closed[0] = base /\ \A n \in 1..N : closed[n] = Grown(closed[n - 1])
  <2> HIDE DEF closed, Turn, Grown
  <2>1. \A n \in 0..N : closed[n] = IF n = 0 THEN base ELSE Turn(closed[n - 1])
    BY <1>7
  <2> QED
    BY <1>1, <1>4, <2>1
<1>10. ASSUME NEW C \in T, IsClosed(C, base, rules), NEW m \in 0..N PROVE closed[m] \in SUBSET C
  <2> DEFINE S == {n \in Nat : closed[n] \in SUBSET C}
  <2> HIDE DEF closed
  <2>1. 0 \in S
    BY <1>9, <1>10 DEF IsClosed
  <2>2. ASSUME NEW i \in 1..m, i - 1 \in S PROVE i \in S
    <3>1. i \in 1..N /\ i \in Nat /\ closed[i - 1] \in SUBSET C
      BY <1>1, <2>2
    <3>2. PICK X : X = closed[i - 1]
      OBVIOUS
    <3>3. Grown(X) \subseteq C
      BY <1>10, <3>1, <3>2 DEF IsClosed
    <3>4. closed[i] = Grown(X)
      BY <1>9, <3>1, <3>2
    <3> QED
      BY <3>1, <3>3, <3>4
  <2>3. m \in S
    <3> HIDE DEF S
    <3> QED
      BY <2>1, <2>2, Induct
  <2> QED
    BY <2>3
<1>11. IsClosed(Propositions, base, rules)
  BY DEF IsClosed, Rules
<1>12. Iterates(closed, N, T, base, F)
  <2>1. \A n \in 0..N : closed[n] \in T
    BY <1>10, <1>11
  <2>2. \A n \in 0..N : n # 0 => n - 1 \in 0..N
    BY <1>1
  <2>3. \A n \in 0..N : n # 0 => F[closed[n - 1]] = Turn(closed[n - 1])
    <3> HIDE DEF Turn, Grown, closed
    <3> QED
      BY <1>4, <2>1, <2>2
  <2> HIDE DEF F, Turn, N, T, closed
  <2>4. closed = [n \in 0..N |-> IF n = 0 THEN base ELSE F[closed[n - 1]]]
    BY <1>7, <2>3
  <2> QED
    BY <2>1, <2>4 DEF Iterates
<1>13. closed[N] \in T /\ F[closed[N]] = closed[N] /\ base \subseteq closed[N]
  <2> HIDE DEF F, closed
  <2> QED
    BY <1>1, <1>3, <1>12, GrowingChain
<1> HIDE DEF closed
<1>14. Grown(closed[N]) = closed[N]
  BY <1>13
<1>15. IsClosed(closed[N], base, rules)
  BY <1>13, <1>14 DEF IsClosed
<1>16. \A C \in T : IsClosed(C, base, rules) => closed[N] \subseteq C
  BY <1>1, <1>10
<1> QED
  BY <1>8, <1>13, <1>15, <1>16

\* A set of propositions is closed under the operators in ops.
ClosedUnder(C, ops) == \A o \in ops : o.preconditions \subseteq C => o.effects \subseteq C

LEMMA ReachableWithFacts ==
  ASSUME NEW s \in State, NEW ops \in SUBSET RelaxedOps
  PROVE  /\ ReachableWith(s, ops) \subseteq Propositions
         /\ Holding(s) \subseteq ReachableWith(s, ops)
         /\ ClosedUnder(ReachableWith(s, ops), ops)
         /\ \A C \in SUBSET Propositions :
               Holding(s) \subseteq C /\ ClosedUnder(C, ops) => ReachableWith(s, ops) \subseteq C
<1> DEFINE rules == UNION {{<<o.preconditions, p>> : p \in o.effects} : o \in ops}
<1>1. rules \in SUBSET Rules
  BY RelaxedTask DEF Rules
<1>2. \A C : IsClosed(C, Holding(s), rules) <=> Holding(s) \subseteq C /\ ClosedUnder(C, ops)
  <2> SUFFICES ASSUME NEW C
               PROVE  IsClosed(C, Holding(s), rules) <=> Holding(s) \subseteq C /\ ClosedUnder(C, ops)
    OBVIOUS
  <2>1. ASSUME IsClosed(C, Holding(s), rules) PROVE ClosedUnder(C, ops)
    <3> SUFFICES ASSUME NEW o \in ops, o.preconditions \subseteq C, NEW p \in o.effects
                 PROVE  p \in C
      BY DEF ClosedUnder
    <3>1. <<o.preconditions, p>> \in rules
      OBVIOUS
    <3> QED
      BY <2>1, <3>1 DEF IsClosed
  <2>2. ASSUME Holding(s) \subseteq C, ClosedUnder(C, ops) PROVE IsClosed(C, Holding(s), rules)
    <3> SUFFICES ASSUME NEW r \in rules, r[1] \subseteq C PROVE r[2] \in C
      BY <2>2 DEF IsClosed
    <3>1. PICK o \in ops : \E p \in o.effects : r = <<o.preconditions, p>>
      OBVIOUS
    <3> QED
      BY <2>2, <3>1 DEF ClosedUnder
  <2> QED
    BY <2>1, <2>2 DEF IsClosed
<1>3. Holding(s) \in SUBSET Propositions /\ Holding(s) # {}
  BY RelaxedTask
<1>4. ReachableWith(s, ops) = Closure(Holding(s), rules)
  BY DEF ReachableWith
<1> HIDE DEF rules
<1> QED
  BY <1>1, <1>2, <1>3, <1>4, ClosureFacts

\* The goal zone is closed under supporters of operators without cost.
ZoneClosed(Z) ==
    /\ artificial_goal \in Z
    /\ \A o \in RelaxedOps :
          cost[o.group] = 0 /\ h_max_supporter[o] # None /\ o.effects \cap Z # {}
          => h_max_supporter[o] \in Z

LEMMA GoalZoneFacts ==
  ASSUME h_max_supporter \in [RelaxedOps -> Propositions \cup {None}]
  PROVE  /\ GoalZone \subseteq Propositions /\ ZoneClosed(GoalZone)
         /\ \A Z \in SUBSET Propositions : ZoneClosed(Z) => GoalZone \subseteq Z
<1> DEFINE free == {o \in RelaxedOps : cost[o.group] = 0 /\ h_max_supporter[o] # None}
           rules == UNION {{<<{p}, h_max_supporter[o]>> : p \in o.effects} : o \in free}
           base == {artificial_goal}
<1>1. rules \in SUBSET Rules /\ base \in SUBSET Propositions /\ base # {}
  BY RelaxedTask DEF Rules
<1>2. \A Z : IsClosed(Z, base, rules) <=> ZoneClosed(Z)
  <2> SUFFICES ASSUME NEW Z PROVE IsClosed(Z, base, rules) <=> ZoneClosed(Z)
    OBVIOUS
  <2>1. ASSUME IsClosed(Z, base, rules) PROVE ZoneClosed(Z)
    <3> SUFFICES ASSUME NEW o \in free, NEW p \in o.effects, p \in Z
                 PROVE  h_max_supporter[o] \in Z
      BY <2>1 DEF ZoneClosed, IsClosed
    <3>1. <<{p}, h_max_supporter[o]>> \in rules
      OBVIOUS
    <3> QED
      BY <2>1, <3>1 DEF IsClosed
  <2>2. ASSUME ZoneClosed(Z) PROVE IsClosed(Z, base, rules)
    <3> SUFFICES ASSUME NEW r \in rules, r[1] \subseteq Z PROVE r[2] \in Z
      BY <2>2 DEF IsClosed, ZoneClosed
    <3>1. PICK o \in free : \E p \in o.effects : r = <<{p}, h_max_supporter[o]>>
      OBVIOUS
    <3> QED
      BY <2>2, <3>1 DEF ZoneClosed
  <2> QED
    BY <2>1, <2>2
<1>3. GoalZone = Closure(base, rules)
  BY DEF GoalZone
<1> HIDE DEF rules, base
<1> QED
  BY <1>1, <1>2, <1>3, ClosureFacts

\* Costs of an operator set add up.
LEMMA SumExists ==
  ASSUME NEW N \in Nat, NEW G \in [1..N -> Nat]
  PROVE  \E f \in [0..N -> Nat] : f = [n \in 0..N |-> IF n = 0 THEN 0 ELSE f[n - 1] + G[n]]
<1> DEFINE Is(f, n) == f[0] = 0 /\ \A i \in 1..n : f[i] = f[i - 1] + G[i]
           S == {n \in Nat : \E f \in [0..n -> Nat] : Is(f, n)}
<1>1. 0 \in S
  <2>1. [i \in 0..0 |-> 0] \in [0..0 -> Nat] /\ Is([i \in 0..0 |-> 0], 0)
    OBVIOUS
  <2> QED
    BY <2>1
<1>2. ASSUME NEW n \in 1..N, n - 1 \in S PROVE n \in S
  <2>1. PICK f \in [0..(n - 1) -> Nat] : Is(f, n - 1)
    BY <1>2
  <2>2. PICK v : v = f[n - 1] + G[n]
    OBVIOUS
  <2>3. v \in Nat
    BY <2>2
  <2> DEFINE e == [i \in 0..n |-> IF i = n THEN v ELSE f[i]]
  <2>4. e \in [0..n -> Nat] /\ e[0] = 0
    BY <2>1, <2>3
  <2>5. ASSUME NEW i \in 1..n PROVE e[i] = e[i - 1] + G[i]
    <3>1. e[i - 1] = f[i - 1]
      OBVIOUS
    <3>2. CASE i = n
      <4>1. e[i] = v
        BY <3>2
      <4> HIDE DEF e
      <4> QED
        BY <2>2, <3>1, <3>2, <4>1
    <3>3. CASE i # n
      <4>1. i \in 1..(n - 1) /\ e[i] = f[i]
        BY <3>3
      <4> HIDE DEF e
      <4> QED
        BY <2>1, <3>1, <4>1
    <3> QED
      BY <3>2, <3>3
  <2> HIDE DEF e
  <2>6. Is(e, n)
    BY <2>4, <2>5
  <2> HIDE DEF Is
  <2>7. n \in Nat /\ \E h \in [0..n -> Nat] : Is(h, n)
    BY <2>4, <2>6
  <2> QED
    BY <2>7
<1>3. N \in S
  <2> HIDE DEF S
  <2> QED
    BY <1>1, <1>2, Induct
<1>4. PICK f \in [0..N -> Nat] : Is(f, N)
  BY <1>3
<1>5. \A n \in 0..N : f[n] = IF n = 0 THEN 0 ELSE f[n - 1] + G[n]
  BY <1>4
<1> HIDE DEF Is
<1>6. f = [n \in 0..N |-> IF n = 0 THEN 0 ELSE f[n - 1] + G[n]]
  BY <1>5
<1> QED
  BY <1>6

\* The sum is that of a function of the operator numbers.
LEMMA CostOfSum ==
  ASSUME NEW c \in [Groups -> Nat], NEW ops \in SUBSET Op, NEW N, N = Cardinality(Op)
  PROVE  \E f \in [0..N -> Nat] :
            /\ CostOf(c, ops) = f[N] /\ f[0] = 0
            /\ \A i \in 1..N : f[i] = f[i - 1] + IF i \in ops THEN c[i] ELSE 0
<1> DEFINE G == [i \in 1..N |-> IF i \in ops THEN c[i] ELSE 0]
           Is(f) == f = [n \in 0..N |-> IF n = 0 THEN 0
                                        ELSE f[n - 1] + IF n \in ops THEN c[n] ELSE 0]
<1>1. N \in Nat /\ Op = 1..N
  BY TaskAssumption, RelaxedTaskAssumption, FS_CardinalityType
<1>2. G \in [1..N -> Nat]
  BY <1>1 DEF Groups
<1>3. PICK e \in [0..N -> Nat] : e = [n \in 0..N |-> IF n = 0 THEN 0 ELSE e[n - 1] + G[n]]
  <2> HIDE DEF G
  <2> QED
    BY <1>1, <1>2, SumExists
<1>4. Is(e)
  <2>1. \A n \in 0..N : n # 0 => G[n] = IF n \in ops THEN c[n] ELSE 0
    BY <1>1
  <2>2. \A n \in 0..N : n # 0 => e[n - 1] + G[n] = e[n - 1] + IF n \in ops THEN c[n] ELSE 0
    BY <2>1
  <2> HIDE DEF G
  <2> QED
    BY <1>3, <2>2
<1> DEFINE sum == CHOOSE f : Is(f)
<1>5. Is(sum)
  <2> HIDE DEF Is
  <2> QED
    BY <1>4
<1>6. CostOf(c, ops) = sum[N]
  BY DEF CostOf
<1> HIDE DEF sum
<1>7. sum[0] = 0 /\ \A i \in 1..N : sum[i] = sum[i - 1] + IF i \in ops THEN c[i] ELSE 0
  <2>1. \A n \in 0..N : sum[n] = IF n = 0 THEN 0 ELSE sum[n - 1] + IF n \in ops THEN c[n] ELSE 0
    BY <1>5
  <2> QED
    BY <1>1, <2>1
<1>8. ASSUME NEW m \in 0..N PROVE sum[m] \in Nat
  <2> DEFINE S == {n \in Nat : sum[n] \in Nat}
  <2>1. 0 \in S
    BY <1>7
  <2>2. ASSUME NEW i \in 1..m, i - 1 \in S PROVE i \in S
    <3>1. i \in 1..N /\ i \in Nat
      BY <1>1
    <3>2. (IF i \in ops THEN c[i] ELSE 0) \in Nat
      BY <1>1 DEF Groups
    <3> QED
      BY <1>7, <2>2, <3>1, <3>2
  <2>3. m \in S
    <3> HIDE DEF S
    <3> QED
      BY <2>1, <2>2, Induct
  <2> QED
    BY <2>3
<1>9. sum \in [0..N -> Nat]
  BY <1>5, <1>8
<1> QED
  BY <1>6, <1>7, <1>9

\* Reducing the costs of groups one of which is that of an operator in a set
\* reduces the cost of the set.
LEMMA CostReduced ==
  ASSUME NEW c \in [Groups -> Nat], NEW d \in [Groups -> Nat], NEW m \in Nat,
         NEW X, \A g \in Groups : c[g] = d[g] + (IF g \in X THEN m ELSE 0),
         NEW ops \in SUBSET Op, NEW x \in ops, x \in X
  PROVE  /\ CostOf(c, ops) \in Nat /\ CostOf(d, ops) \in Nat
         /\ m + CostOf(d, ops) <= CostOf(c, ops)
<1> DEFINE N == Cardinality(Op)
<1>1. N \in Nat /\ Op = 1..N
  BY TaskAssumption, RelaxedTaskAssumption, FS_CardinalityType
<1> DEFINE Adds(b, f) ==
      /\ f \in [0..N -> Nat] /\ CostOf(b, ops) = f[N] /\ f[0] = 0
      /\ \A i \in 1..N : f[i] = f[i - 1] + IF i \in ops THEN b[i] ELSE 0
<1>9. ASSUME NEW b \in [Groups -> Nat] PROVE \E f : Adds(b, f)
  <2>1. PICK f \in [0..N -> Nat] :
          /\ CostOf(b, ops) = f[N] /\ f[0] = 0
          /\ \A i \in 1..N : f[i] = f[i - 1] + IF i \in ops THEN b[i] ELSE 0
    BY CostOfSum
  <2>2. Adds(b, f)
    BY <2>1
  <2> QED
    BY <2>2
<1>2. PICK f : Adds(c, f)
  BY <1>9
<1>3. PICK g : Adds(d, g)
  BY <1>9
<1> DEFINE S == {n \in 0..N : g[n] + (IF x <= n THEN m ELSE 0) <= f[n]}
<1>4. x \in 1..N
  BY <1>1
<1>5. 0 \in S
  BY <1>1, <1>2, <1>3, <1>4
<1>6. ASSUME NEW i \in 1..N, i - 1 \in S PROVE i \in S
  <2>1. i \in Groups /\ c[i] \in Nat /\ d[i] \in Nat
        /\ c[i] = d[i] + (IF i \in X THEN m ELSE 0)
    BY <1>1 DEF Groups
  <2>2. /\ f[i] = f[i - 1] + (IF i \in ops THEN c[i] ELSE 0)
        /\ g[i] = g[i - 1] + (IF i \in ops THEN d[i] ELSE 0)
    BY <1>2, <1>3
  <2>3. i \in 0..N /\ i - 1 \in 0..N /\ f[i] \in Nat /\ g[i] \in Nat
        /\ f[i - 1] \in Nat /\ g[i - 1] \in Nat
    BY <1>1, <1>2, <1>3
  <2>4. g[i - 1] + (IF x <= i - 1 THEN m ELSE 0) <= f[i - 1]
    BY <1>6
  <2>5. CASE i = x
    BY <1>4, <2>1, <2>2, <2>3, <2>4, <2>5
  <2>6. CASE i # x
    <3>1. x <= i <=> x <= i - 1
      BY <1>4, <2>6
    <3>2. g[i] + (IF x <= i - 1 THEN m ELSE 0) <= f[i]
      BY <2>1, <2>2, <2>3, <2>4
    <3> QED
      BY <2>3, <3>1, <3>2
  <2> QED
    BY <2>5, <2>6
<1>7. N \in S
  <2> HIDE DEF S, N
  <2> QED
    BY <1>1, <1>5, <1>6, Induct
<1>8. f[N] \in Nat /\ g[N] \in Nat
  BY <1>1, <1>2, <1>3
<1> QED
  BY <1>2, <1>3, <1>4, <1>7, <1>8

-----------------------------------------------------------------------------
(***************************************************************************)
(* The invariant                                                           *)
(***************************************************************************)
Statuses == {"unreached", "reached", "goal_zone", "before_goal_zone"}

LandmarkTypeOK ==
    /\ call_state \in State
    /\ base_cost \in [Groups -> Nat] /\ base_cost[GoalGroup] = 0
    /\ cost \in [Groups -> Nat] /\ cost[GoalGroup] = 0
    /\ status \in [Propositions -> Statuses]
    /\ h_max_cost \in [Propositions -> Nat]
    /\ unsatisfied_preconditions \in [RelaxedOps -> Int]
    /\ h_max_supporter \in [RelaxedOps -> Propositions \cup {None}]
    /\ h_max_supporter_cost \in [RelaxedOps -> Distances]
    /\ priority_queue \subseteq Nat \X Propositions
    /\ prop \in Nat \X (Propositions \cup {None})
    /\ triggered_operators \subseteq RelaxedOps
    /\ second_exploration_queue \subseteq Propositions
    /\ cut \subseteq RelaxedOps
    /\ total_cost \in Nat
    /\ progress \in {"idle", "first", "round", "second", "incremental", "done", "dead_end"}

IsReached(p) == status[p] # "unreached"

\* The value of a proposition, as an estimate.
Value == [p \in Propositions |-> IF IsReached(p) THEN h_max_cost[p] ELSE Infty]

\* The entry with the current value of p is in the queue.
Waits(p) == <<h_max_cost[p], p>> \in priority_queue

QueueOK ==
    /\ \A e \in priority_queue : IsReached(e[2]) /\ h_max_cost[e[2]] <= e[1]
    /\ triggered_operators # {} =>
          /\ prop[2] \in Propositions /\ IsReached(prop[2]) /\ prop[1] = h_max_cost[prop[2]]
          /\ triggered_operators \subseteq Triggered(prop[2])
    /\ progress \notin {"first", "incremental"} => priority_queue = {} /\ triggered_operators = {}
    /\ progress # "second" => second_exploration_queue = {} /\ cut = {}

\* The values are upper bounds of h^max for the current costs.
UpperValues ==
    /\ \A p \in Holding(call_state) : Value[p] = 0
    /\ \A p \in Propositions : AtMost(HMax(call_state, cost)[p], Value[p])

ValuesOK == progress \in {"first", "round", "second", "incremental"} => UpperValues

\* The first exploration settles propositions in the order of their values,
\* and counts for each operator the preconditions it has not settled.
Settled(p) == IsReached(p) /\ ~Waits(p)

OpenConditions(o) ==
    {q \in o.preconditions : ~Settled(q) \/ (q = prop[2] /\ o \in triggered_operators)}

\* Preconditions are at most as dear as the supporter, effects at most as dear
\* as it with the operator.
Supports(o) ==
    /\ h_max_supporter[o] \in o.preconditions
    /\ h_max_supporter_cost[o] \in Nat
    /\ \A q \in o.preconditions : IsReached(q) /\ h_max_cost[q] <= h_max_supporter_cost[o]
    /\ \A p \in o.effects : IsReached(p) /\ h_max_cost[p] <= h_max_supporter_cost[o] + cost[o.group]

FirstOK ==
    progress = "first" =>
        /\ \A e \in priority_queue : \A p \in Propositions : Settled(p) => h_max_cost[p] <= e[1]
        /\ triggered_operators # {} =>
              /\ Settled(prop[2])
              /\ \A p \in Propositions : Settled(p) => h_max_cost[p] <= prop[1]
              /\ \A e \in priority_queue : prop[1] <= e[1]
        /\ \A o \in RelaxedOps :
              /\ unsatisfied_preconditions[o] = Cardinality(OpenConditions(o))
              /\ OpenConditions(o) # {} => h_max_supporter[o] = None
              /\ OpenConditions(o) = {} =>
                    /\ Supports(o)
                    /\ h_max_supporter_cost[o] = h_max_cost[h_max_supporter[o]]

\* An operator whose supporter has become cheaper will still be looked at.
IsPending(o) ==
    /\ progress = "incremental"
    /\ Waits(h_max_supporter[o]) \/ (o \in triggered_operators /\ h_max_supporter[o] = prop[2])

SupportersOK ==
    progress \in {"round", "second", "incremental"} =>
        /\ IsReached(artificial_goal)
        /\ \A o \in RelaxedOps :
              /\ h_max_supporter[o] = None => \E q \in o.preconditions : ~IsReached(q)
              /\ h_max_supporter[o] # None =>
                    /\ Supports(o)
                    /\ h_max_supporter_cost[o] = h_max_cost[h_max_supporter[o]] \/ IsPending(o)

InZone(p) == status[p] = "goal_zone"
IsBefore(p) == status[p] = "before_goal_zone"

\* The second exploration reaches nothing in the goal zone but by the cut.
SecondOK ==
    /\ progress \in {"first", "round"} => \A p \in Propositions : ~InZone(p) /\ ~IsBefore(p)
    /\ progress = "second" =>
        /\ ZoneClosed({p \in Propositions : InZone(p)})
        /\ HMax(call_state, cost)[artificial_goal] # 0
        /\ \A p \in Propositions :
              InZone(p) => AtMost(HMax(call_state, cost)[artificial_goal], HMax(call_state, cost)[p])
        /\ \A p \in Holding(call_state) \cup second_exploration_queue : IsBefore(p)
        /\ \A o \in RelaxedOps :
              h_max_supporter[o] # None /\ IsBefore(h_max_supporter[o])
              /\ h_max_supporter[o] \notin second_exploration_queue =>
                  o \in cut \/ \A p \in o.effects : IsBefore(p)
        /\ \A o \in cut :
              /\ h_max_supporter[o] # None /\ IsBefore(h_max_supporter[o])
              /\ \E p \in o.effects : InZone(p)

CostsOK ==
    progress \in {"first", "round", "second", "incremental", "done", "dead_end"} =>
        /\ total_cost = 0 => cost = base_cost
        /\ UsedInOneWay(call_state) =>
              AtMost(HMax(call_state, base_cost)[artificial_goal],
                     Plus(total_cost, HMax(call_state, cost)[artificial_goal]))
        /\ \A ops \in RelaxedPlans(call_state) :
              total_cost + CostOf(cost, ops) <= CostOf(base_cost, ops)

ResultOK ==
    /\ progress = "done" => HMax(call_state, cost)[artificial_goal] = 0
    /\ progress = "dead_end" => HMax(call_state, cost)[artificial_goal] = Infty

LandmarkInv ==
    /\ LandmarkTypeOK /\ QueueOK /\ ValuesOK /\ FirstOK /\ SupportersOK /\ SecondOK
    /\ CostsOK /\ ResultOK

-----------------------------------------------------------------------------
(***************************************************************************)
(* Queueing                                                                *)
(***************************************************************************)
\* What enqueue_if_necessary leaves alone, and what it lowers.
IsKept(p) ==
    /\ status'[p] = status[p] /\ h_max_cost'[p] = h_max_cost[p]
    /\ \A c : <<c, p>> \in priority_queue' <=> <<c, p>> \in priority_queue

IsLowered(p, offers) ==
    /\ status'[p] = "reached" /\ (IsReached(p) => h_max_cost'[p] < h_max_cost[p])
    /\ <<p, h_max_cost'[p]>> \in offers
    /\ \A c : <<c, p>> \in priority_queue' <=> <<c, p>> \in priority_queue \/ c = h_max_cost'[p]

LEMMA EnqueueFacts ==
  ASSUME status \in [Propositions -> Statuses], h_max_cost \in [Propositions -> Nat],
         priority_queue \subseteq Nat \X Propositions,
         NEW offers \in SUBSET (Propositions \X Nat), Enqueue(offers)
  PROVE  /\ status' \in [Propositions -> Statuses] /\ h_max_cost' \in [Propositions -> Nat]
         /\ priority_queue' \subseteq Nat \X Propositions
         /\ \A p \in Propositions : IsKept(p) \/ IsLowered(p, offers)
         /\ \A x \in offers : IsReached(x[1])' /\ h_max_cost'[x[1]] <= x[2]
<1> DEFINE Costs(p) == {x[2] : x \in {y \in offers : y[1] = p}}
           better == {p \in Propositions : Costs(p) # {} /\ IsBetter(p, Min(Costs(p)))}
           low(p) == Min(Costs(p))
<1>1. ASSUME NEW p \in Propositions, Costs(p) # {}
      PROVE  low(p) \in Nat /\ <<p, low(p)>> \in offers /\ \A c \in Costs(p) : low(p) <= c
  <2>1. Costs(p) \in SUBSET Nat
    OBVIOUS
  <2> DEFINE C == Costs(p)
  <2>2. Min(C) \in C /\ \A c \in C : Min(C) <= c
    <3> HIDE DEF C
    <3>1. C \in SUBSET Nat /\ C # {}
      BY <1>1, <2>1 DEF C
    <3>2. \E n \in C : \A m \in C : n <= m
      BY <3>1, LeastNumber
    <3> QED
      BY <3>1, <3>2 DEF Min
  <2>3. PICK x \in offers : x[1] = p /\ x[2] = low(p)
    BY <2>2
  <2>4. x = <<x[1], x[2]>>
    OBVIOUS
  <2> QED
    BY <2>1, <2>2, <2>3, <2>4
<1>2. /\ status' = [p \in Propositions |-> IF p \in better THEN "reached" ELSE status[p]]
      /\ h_max_cost' = [p \in Propositions |-> IF p \in better THEN low(p) ELSE h_max_cost[p]]
      /\ priority_queue' = priority_queue \cup {<<low(p), p>> : p \in better}
  BY DEF Enqueue
<1>3. \A p \in better : /\ p \in Propositions /\ Costs(p) # {} /\ IsBetter(p, low(p))
                        /\ low(p) \in Nat /\ <<p, low(p)>> \in offers
  BY <1>1
<1>4. ASSUME NEW p \in Propositions, Costs(p) # {}, p \notin better
      PROVE  IsReached(p) /\ h_max_cost[p] <= low(p)
  <2>1. low(p) \in Nat /\ ~IsBetter(p, low(p))
    BY <1>1, <1>4
  <2> HIDE DEF low
  <2> QED
    BY <2>1 DEF IsBetter, IsReached
<1>5. \A x \in offers : x[1] \in Propositions /\ x[2] \in Costs(x[1])
  OBVIOUS
<1> HIDE DEF better, low, Costs
<1>6. /\ status' \in [Propositions -> Statuses] /\ h_max_cost' \in [Propositions -> Nat]
      /\ priority_queue' \subseteq Nat \X Propositions
  <2>1. \A p \in Propositions : (IF p \in better THEN "reached" ELSE status[p]) \in Statuses
    BY DEF Statuses
  <2>2. \A p \in Propositions : (IF p \in better THEN low(p) ELSE h_max_cost[p]) \in Nat
    <3>1. \A p \in better : low(p) \in Nat
      BY <1>3
    <3>2. \A p \in Propositions : h_max_cost[p] \in Nat
      OBVIOUS
    <3> TAKE p \in Propositions
    <3>3. CASE p \in better
      BY <3>1, <3>3
    <3>4. CASE p \notin better
      BY <3>2, <3>4
    <3> QED
      BY <3>3, <3>4
  <2>3. {<<low(p), p>> : p \in better} \subseteq Nat \X Propositions
    <3>1. \A p \in better : p \in Propositions /\ low(p) \in Nat
      BY <1>3
    <3> SUFFICES ASSUME NEW p \in better PROVE <<low(p), p>> \in Nat \X Propositions
      OBVIOUS
    <3> QED
      BY <3>1
  <2> QED
    BY <1>2, <2>1, <2>2, <2>3
<1>7. ASSUME NEW p \in Propositions PROVE IsKept(p) \/ IsLowered(p, offers)
  <2>1. CASE p \in better
    <3>1. status'[p] = "reached" /\ h_max_cost'[p] = low(p) /\ <<p, low(p)>> \in offers
      BY <1>2, <1>3, <2>1
    <3>2. IsReached(p) => h_max_cost'[p] < h_max_cost[p]
      BY <1>3, <2>1, <3>1 DEF IsBetter, IsReached
    <3>3. \A c : <<c, p>> \in priority_queue' <=> <<c, p>> \in priority_queue \/ c = low(p)
      BY <1>2, <2>1
    <3> QED
      BY <3>1, <3>2, <3>3 DEF IsLowered
  <2>2. CASE p \notin better
    BY <1>2, <2>2 DEF IsKept
  <2> QED
    BY <2>1, <2>2
<1>8. ASSUME NEW x \in offers PROVE IsReached(x[1])' /\ h_max_cost'[x[1]] <= x[2]
  <2>1. x[1] \in Propositions /\ Costs(x[1]) # {} /\ low(x[1]) <= x[2] /\ low(x[1]) \in Nat
        /\ x[2] \in Nat
    BY <1>1, <1>5
  <2>2. CASE x[1] \in better
    BY <1>2, <2>1, <2>2 DEF IsReached
  <2>3. CASE x[1] \notin better
    <3>1. IsReached(x[1]) /\ h_max_cost[x[1]] <= low(x[1])
      BY <1>4, <2>1, <2>3
    <3>2. status'[x[1]] = status[x[1]] /\ h_max_cost'[x[1]] = h_max_cost[x[1]]
      BY <1>2, <2>1, <2>3
    <3> QED
      BY <2>1, <3>1, <3>2 DEF IsReached
  <2> QED
    BY <2>2, <2>3
<1> QED
  BY <1>6, <1>7, <1>8

\* No proposition becomes dearer or gets lost.
LEMMA EnqueueLowers ==
  ASSUME status \in [Propositions -> Statuses], h_max_cost \in [Propositions -> Nat],
         priority_queue \subseteq Nat \X Propositions,
         NEW offers \in SUBSET (Propositions \X Nat), Enqueue(offers)
  PROVE  \A p \in Propositions :
            IsReached(p) => IsReached(p)' /\ h_max_cost'[p] <= h_max_cost[p]
<1> SUFFICES ASSUME NEW p \in Propositions, IsReached(p)
             PROVE  IsReached(p)' /\ h_max_cost'[p] <= h_max_cost[p]
  OBVIOUS
<1>1. h_max_cost[p] \in Nat /\ h_max_cost'[p] \in Nat
  BY EnqueueFacts
<1>2. IsKept(p) \/ IsLowered(p, offers)
  BY EnqueueFacts
<1> QED
  BY <1>1, <1>2 DEF IsKept, IsLowered, IsReached

-----------------------------------------------------------------------------
(***************************************************************************)
(* Values and h^max                                                        *)
(***************************************************************************)
\* Less for less: h^max for lower costs.
LEMMA CheaperCosts ==
  ASSUME NEW s \in State, NEW c \in [Groups -> Nat], NEW d \in [Groups -> Nat],
         \A o \in RelaxedOps : d[o.group] <= c[o.group]
  PROVE  \A p \in Propositions : AtMost(HMax(s, d)[p], HMax(s, c)[p])
<1> DEFINE h == HMax(s, d)
<1>1. /\ h \in Estimates /\ \A p \in Holding(s) : h[p] = 0
      /\ \A o \in RelaxedOps : \A p \in o.effects : AtMost(h[p], Through(d, h, o))
  BY HMaxFacts DEF LowerEstimates
<1> HIDE DEF h
<1>2. ASSUME NEW o \in RelaxedOps, NEW p \in o.effects PROVE AtMost(h[p], Through(c, h, o))
  <2>1. PICK q \in o.preconditions : Through(d, h, o) = Plus(d[o.group], h[q])
    BY <1>1, ThroughFacts
  <2>2. AtMost(Plus(c[o.group], h[q]), Through(c, h, o)) /\ Through(c, h, o) \in Distances
        /\ Through(d, h, o) \in Distances
    BY <1>1, ThroughFacts
  <2>3. h[q] \in Distances /\ h[p] \in Distances /\ c[o.group] \in Nat /\ d[o.group] \in Nat /\ d[o.group] <= c[o.group]
    BY <1>1, RelaxedTask DEF Estimates
  <2>4. AtMost(Plus(d[o.group], h[q]), Plus(c[o.group], h[q])) /\ Plus(c[o.group], h[q]) \in Distances
    BY <2>3, InftyAssumption DEF AtMost, Plus, Distances
  <2>5. AtMost(h[p], Through(d, h, o))
    BY <1>1
  <2>6. AtMost(h[p], Plus(c[o.group], h[q]))
    BY <2>1, <2>2, <2>3, <2>4, <2>5, AtMostTrans
  <2> QED
    BY <2>2, <2>3, <2>4, <2>6, AtMostTrans
<1>3. h \in LowerEstimates(s, c)
  BY <1>1, <1>2 DEF LowerEstimates
<1> QED
  BY <1>3, HMaxFacts DEF h

\* An operator whose preconditions cost at most x offers an upper bound.
LEMMA OfferIsUpper ==
  ASSUME NEW s \in State, NEW c \in [Groups -> Nat], NEW o \in RelaxedOps, NEW x \in Nat,
         \A q \in o.preconditions : AtMost(HMax(s, c)[q], x),
         NEW p \in o.effects
  PROVE  AtMost(HMax(s, c)[p], x + c[o.group])
<1> DEFINE h == HMax(s, c)
<1>1. h \in Estimates /\ AtMost(h[p], Through(c, h, o))
  BY HMaxFacts DEF LowerEstimates
<1> HIDE DEF h
<1>2. PICK q \in o.preconditions : Through(c, h, o) = Plus(c[o.group], h[q])
  BY <1>1, ThroughFacts
<1>3. h[q] \in Distances /\ h[p] \in Distances /\ c[o.group] \in Nat /\ Through(c, h, o) \in Distances
  BY <1>1, RelaxedTask, ThroughFacts DEF Estimates
<1>4. AtMost(h[q], x)
  BY DEF h
<1>5. AtMost(Plus(c[o.group], h[q]), x + c[o.group])
  BY <1>3, <1>4, InftyAssumption DEF AtMost, Plus, Distances
<1>6. x + c[o.group] \in Distances
  BY <1>3 DEF Distances
<1>7. AtMost(h[p], x + c[o.group])
  BY <1>1, <1>2, <1>3, <1>5, <1>6, AtMostTrans
<1> QED
  BY <1>7 DEF h

\* Propositions outside a closed set cannot be reached.
LEMMA OutsideIsDear ==
  ASSUME NEW s \in State, NEW c \in [Groups -> Nat],
         NEW C \in SUBSET Propositions, Holding(s) \subseteq C, ClosedUnder(C, RelaxedOps),
         NEW x \in Propositions, x \notin C
  PROVE  HMax(s, c)[x] = Infty
<1> DEFINE h == HMax(s, c)
           g == [p \in Propositions |-> IF p \in C THEN h[p] ELSE Infty]
<1>1. /\ h \in Estimates /\ \A p \in Holding(s) : h[p] = 0
      /\ \A o \in RelaxedOps : \A p \in o.effects : AtMost(h[p], Through(c, h, o))
  BY HMaxFacts DEF LowerEstimates
<1>2. g \in Estimates /\ \A p \in Holding(s) : g[p] = 0
  BY <1>1, RelaxedTask DEF Estimates, Distances
<1>3. \A p \in Propositions : g[p] = IF p \in C THEN h[p] ELSE Infty
  OBVIOUS
<1> HIDE DEF g, h
<1>4. ASSUME NEW o \in RelaxedOps, NEW p \in o.effects PROVE AtMost(g[p], Through(c, g, o))
  <2>1. o.preconditions \subseteq Propositions /\ p \in Propositions
    BY RelaxedTask
  <2>2. CASE o.preconditions \subseteq C
    <3>1. {g[q] : q \in o.preconditions} = {h[q] : q \in o.preconditions}
      BY <1>3, <2>1, <2>2
    <3>2. Through(c, g, o) = Through(c, h, o)
      BY <3>1 DEF Through
    <3>3. p \in C
      BY <2>2 DEF ClosedUnder
    <3> QED
      BY <1>1, <1>3, <2>1, <3>2, <3>3
  <2>3. CASE ~(o.preconditions \subseteq C)
    <3>1. PICK q \in o.preconditions : q \notin C
      BY <2>3
    <3>2. AtMost(Plus(c[o.group], g[q]), Through(c, g, o)) /\ Through(c, g, o) \in Distances
      BY <1>2, ThroughFacts
    <3>3. g[q] = Infty /\ g[p] \in Distances
      BY <1>2, <1>3, <2>1, <3>1 DEF Estimates
    <3>4. Through(c, g, o) = Infty
      BY <3>2, <3>3, InftyAssumption DEF Plus, AtMost, Distances
    <3> QED
      BY <3>3, <3>4 DEF AtMost
  <2> QED
    BY <2>2, <2>3
<1>5. g \in LowerEstimates(s, c)
  BY <1>2, <1>4 DEF LowerEstimates
<1>6. AtMost(g[x], h[x]) /\ h[x] \in Distances /\ g[x] = Infty
  BY <1>1, <1>3, <1>5, HMaxFacts DEF h, Estimates
<1>7. h[x] = Infty
  BY <1>6, InftyAssumption DEF AtMost, Distances
<1> QED
  BY <1>7 DEF h

\* What can be reached has a finite value.
LEMMA ReachedIsFinite ==
  ASSUME NEW s \in State, NEW c \in [Groups -> Nat], NEW ops \in SUBSET RelaxedOps,
         NEW x \in ReachableWith(s, ops)
  PROVE  HMax(s, c)[x] # Infty
<1> DEFINE h == HMax(s, c)
           C == {p \in Propositions : h[p] # Infty}
<1>1. /\ h \in Estimates /\ \A p \in Holding(s) : h[p] = 0
      /\ \A o \in RelaxedOps : \A p \in o.effects : AtMost(h[p], Through(c, h, o))
  BY HMaxFacts DEF LowerEstimates
<1> HIDE DEF h
<1>2. Holding(s) \subseteq C
  BY <1>1, RelaxedTask, InftyAssumption
<1>3. ASSUME NEW o \in ops, o.preconditions \subseteq C, NEW p \in o.effects PROVE p \in C
  <2>1. PICK q \in o.preconditions : Through(c, h, o) = Plus(c[o.group], h[q])
    BY <1>1, ThroughFacts
  <2>2. h[q] \in Distances /\ h[q] # Infty /\ h[p] \in Distances /\ c[o.group] \in Nat /\ p \in Propositions
    BY <1>1, <1>3, RelaxedTask DEF Estimates
  <2>3. AtMost(h[p], Plus(c[o.group], h[q]))
    BY <1>1, <2>1
  <2> QED
    BY <2>2, <2>3, InftyAssumption DEF AtMost, Plus, Distances
<1>4. ClosedUnder(C, ops)
  BY <1>3 DEF ClosedUnder
<1>5. x \in C
  <2> HIDE DEF C
  <2>1. C \in SUBSET Propositions
    BY DEF C
  <2> QED
    BY <1>2, <1>4, <2>1, ReachableWithFacts
<1> QED
  BY <1>5 DEF h

LEMMA CostIsNat ==
  ASSUME NEW c \in [Groups -> Nat], NEW ops \in SUBSET Op
  PROVE  CostOf(c, ops) \in Nat
<1> DEFINE N == Cardinality(Op)
<1>1. N \in Nat
  BY TaskAssumption, FS_CardinalityType
<1>2. \E f \in [0..N -> Nat] : CostOf(c, ops) = f[N]
  BY CostOfSum
<1> QED
  BY <1>1, <1>2

\* Values that every supporter justifies are those of h^max.
IsJustified(o) ==
    /\ h_max_supporter[o] = None => \E q \in o.preconditions : ~IsReached(q)
    /\ h_max_supporter[o] # None =>
          Supports(o) /\ h_max_supporter_cost[o] = h_max_cost[h_max_supporter[o]]

LEMMA ValueIsExact ==
  ASSUME LandmarkTypeOK, UpperValues, \A o \in RelaxedOps : IsJustified(o)
  PROVE  \A p \in Propositions : HMax(call_state, cost)[p] = Value[p]
<1>1. Value \in Estimates /\ \A p \in Propositions : Value[p] \in Distances
  BY DEF LandmarkTypeOK, Value, Estimates, Distances
<1>2. call_state \in State /\ cost \in [Groups -> Nat]
  BY DEF LandmarkTypeOK
<1>3. \A p \in Propositions : Value[p] = IF IsReached(p) THEN h_max_cost[p] ELSE Infty
  BY DEF Value
<1>4. ASSUME NEW o \in RelaxedOps, NEW p \in o.effects
      PROVE  AtMost(Value[p], Through(cost, Value, o))
  <2>1. /\ Through(cost, Value, o) \in Distances /\ cost[o.group] \in Nat
        /\ \A q \in o.preconditions : AtMost(Plus(cost[o.group], Value[q]), Through(cost, Value, o))
    BY <1>1, <1>2, ThroughFacts, RelaxedTask
  <2>2. p \in Propositions /\ o.preconditions \subseteq Propositions
    BY RelaxedTask
  <2>3. CASE h_max_supporter[o] = None
    <3>1. PICK q \in o.preconditions : Value[q] = Infty
      BY <1>3, <2>2, <2>3 DEF IsJustified
    <3>2. Through(cost, Value, o) = Infty
      BY <2>1, <3>1, InftyAssumption DEF Plus, AtMost, Distances
    <3> QED
      BY <3>2 DEF AtMost
  <2>4. CASE h_max_supporter[o] # None
    <3>1. PICK q \in o.preconditions : q = h_max_supporter[o]
      BY <2>4 DEF IsJustified, Supports
    <3>2. /\ IsReached(q) /\ IsReached(p)
          /\ h_max_cost[p] <= h_max_cost[q] + cost[o.group]
      BY <2>4, <3>1 DEF IsJustified, Supports
    <3>3. Value[q] = h_max_cost[q] /\ Value[p] = h_max_cost[p]
          /\ h_max_cost[q] \in Nat /\ h_max_cost[p] \in Nat
      BY <1>3, <2>2, <3>2 DEF LandmarkTypeOK
    <3>4. AtMost(Value[p], Plus(cost[o.group], Value[q])) /\ Plus(cost[o.group], Value[q]) \in Distances
      BY <2>1, <3>2, <3>3, InftyAssumption DEF AtMost, Plus, Distances
    <3> QED
      BY <1>1, <2>1, <2>2, <3>4, AtMostTrans
  <2> QED
    BY <2>3, <2>4
<1>5. Value \in LowerEstimates(call_state, cost)
  BY <1>1, <1>4 DEF LowerEstimates, UpperValues
<1>6. ASSUME NEW p \in Propositions PROVE HMax(call_state, cost)[p] = Value[p]
  <2>1. AtMost(Value[p], HMax(call_state, cost)[p])
    BY <1>2, <1>5, HMaxFacts
  <2>2. AtMost(HMax(call_state, cost)[p], Value[p])
    BY DEF UpperValues
  <2>3. HMax(call_state, cost)[p] \in Distances
    BY <1>2, HMaxFacts DEF LowerEstimates, Estimates
  <2> QED
    BY <1>1, <2>1, <2>2, <2>3, AtMostBothWays
<1> QED
  BY <1>6

-----------------------------------------------------------------------------
(***************************************************************************)
(* Every step preserves the invariant                                      *)
(***************************************************************************)
LEMMA LandmarksStart == LandmarksInit => LandmarkInv
<1> SUFFICES ASSUME LandmarksInit PROVE LandmarkInv
  OBVIOUS
<1>1. PICK c \in CostFunctions : base_cost = BaseCost(c)
  BY DEF LandmarksInit
<1>2. PICK x \in Garbage : h_max_cost = [p \in Propositions |-> x]
  BY DEF LandmarksInit
<1>3. c \in [Op -> Nat] /\ x \in Nat
  BY RelaxedTaskAssumption
<1>4. base_cost \in [Groups -> Nat] /\ base_cost[GoalGroup] = 0 /\ cost = base_cost
  BY <1>1, <1>3, RelaxedTask DEF BaseCost, LandmarksInit
<1>5. call_state \in State
  BY TaskAssumption DEF LandmarksInit
<1>6. LandmarkTypeOK
  BY <1>2, <1>3, <1>4, <1>5 DEF LandmarksInit, LandmarkTypeOK, Statuses, Distances
<1>7. QueueOK
  BY DEF LandmarksInit, QueueOK
<1> QED
  BY <1>6, <1>7
     DEF LandmarksInit, LandmarkInv, ValuesOK, FirstOK, SupportersOK, SecondOK, CostsOK, ResultOK

LEMMA LandmarksStutter == LandmarkInv /\ UNCHANGED landmark_vars => LandmarkInv'
<1> SUFFICES ASSUME LandmarkInv, UNCHANGED landmark_vars PROVE LandmarkInv'
  OBVIOUS
<1> USE DEF landmark_vars
<1>1. LandmarkTypeOK'
  BY DEF LandmarkInv, LandmarkTypeOK
<1>2. QueueOK'
  BY DEF LandmarkInv, QueueOK, IsReached, Triggered
<1>3. ValuesOK'
  BY DEF LandmarkInv, ValuesOK, UpperValues, Value, IsReached
<1>4. FirstOK'
  BY DEF LandmarkInv, FirstOK, Settled, IsReached, Waits, OpenConditions, Supports
<1>5. SupportersOK'
  BY DEF LandmarkInv, SupportersOK, Supports, IsReached, IsPending, Waits
<1>6. SecondOK'
  BY DEF LandmarkInv, SecondOK, ZoneClosed, InZone, IsBefore
<1>7. CostsOK'
  BY DEF LandmarkInv, CostsOK
<1>8. ResultOK'
  BY DEF LandmarkInv, ResultOK
<1> QED
  BY <1>1, <1>2, <1>3, <1>4, <1>5, <1>6, <1>7, <1>8 DEF LandmarkInv

LEMMA ComputeLandmarksKeeps ==
  ASSUME LandmarkInv, NEW s \in State, ComputeLandmarks(s)
  PROVE  LandmarkInv'
<1>1. LandmarkTypeOK /\ QueueOK /\ base_cost \in [Groups -> Nat]
  BY DEF LandmarkInv, LandmarkTypeOK
<1>2. /\ Holding(s) \subseteq Propositions /\ Holding(s) # {}
      /\ \A o \in RelaxedOps : /\ Cardinality(o.preconditions) \in Nat
                               /\ o.preconditions # {} /\ o.preconditions \subseteq Propositions
  BY RelaxedTask, FS_CardinalityType
<1>3. /\ call_state' = s /\ cost' = base_cost /\ base_cost' = base_cost
      /\ total_cost' = 0 /\ progress' = "first" /\ triggered_operators' = {}
      /\ second_exploration_queue' = {} /\ cut' = {} /\ prop' = prop
      /\ priority_queue' = {<<0, p>> : p \in Holding(s)}
      /\ unsatisfied_preconditions' = [o \in RelaxedOps |-> Cardinality(o.preconditions)]
      /\ h_max_supporter' = [o \in RelaxedOps |-> None]
      /\ h_max_supporter_cost' = [o \in RelaxedOps |-> Infty]
  BY <1>1 DEF ComputeLandmarks, QueueOK
<1>4. \A p \in Propositions :
        /\ status'[p] = IF p \in Holding(s) THEN "reached" ELSE "unreached"
        /\ h_max_cost'[p] = IF p \in Holding(s) THEN 0 ELSE h_max_cost[p]
  BY DEF ComputeLandmarks
<1>5. /\ status' \in [Propositions -> Statuses] /\ h_max_cost' \in [Propositions -> Nat]
      /\ priority_queue' \subseteq Nat \X Propositions
  BY <1>1, <1>2, <1>3 DEF ComputeLandmarks, LandmarkTypeOK, Statuses
<1>6. LandmarkTypeOK'
  BY <1>1, <1>2, <1>3, <1>5 DEF LandmarkTypeOK, Distances
<1>7. QueueOK'
  BY <1>2, <1>3, <1>4 DEF QueueOK, IsReached
<1>8. \A p \in Propositions : Value'[p] = IF p \in Holding(s) THEN 0 ELSE Infty
  BY <1>4 DEF Value, IsReached
<1>9. ValuesOK'
  <2>1. \A p \in Holding(s) : HMax(s, base_cost)[p] = 0
    BY <1>1, HMaxFacts DEF LowerEstimates
  <2>2. \A p \in Propositions : AtMost(HMax(s, base_cost)[p], Value'[p])
    BY <1>8, <2>1, InftyAssumption DEF AtMost
  <2> QED
    BY <1>2, <1>3, <1>8, <2>2 DEF ValuesOK, UpperValues
<1>10. FirstOK'
  <2>1. \A p \in Propositions : ~Settled(p)'
    BY <1>3, <1>4 DEF Settled, IsReached, Waits
  <2>2. \A o \in RelaxedOps : OpenConditions(o)' = o.preconditions
    BY <1>2, <2>1 DEF OpenConditions
  <2> QED
    BY <1>2, <1>3, <2>1, <2>2 DEF FirstOK
<1>11. CostsOK'
  <2>1. \A ops \in RelaxedPlans(s) : CostOf(base_cost, ops) \in Nat
    BY <1>1, CostIsNat DEF RelaxedPlans
  <2>2. HMax(s, base_cost)[artificial_goal] \in Distances
    <3>1. artificial_goal \in Propositions
      BY RelaxedTask
    <3> QED
      BY <1>1, <3>1, HMaxFacts DEF LowerEstimates, Estimates
  <2>3. AtMost(HMax(s, base_cost)[artificial_goal], Plus(0, HMax(s, base_cost)[artificial_goal]))
    BY <2>2, InftyAssumption DEF AtMost, Plus, Distances
  <2>4. \A ops \in RelaxedPlans(s) : 0 + CostOf(base_cost, ops) <= CostOf(base_cost, ops)
    BY <2>1
  <2> QED
    BY <1>3, <2>3, <2>4 DEF CostsOK
<1>12. SupportersOK' /\ ResultOK'
  BY <1>3 DEF SupportersOK, ResultOK
<1>13. SecondOK'
  BY <1>3, <1>4 DEF SecondOK, InZone, IsBefore
<1> QED
  BY <1>6, <1>7, <1>9, <1>10, <1>11, <1>12, <1>13 DEF LandmarkInv

LEMMA PopKeeps == ASSUME LandmarkInv, Pop PROVE LandmarkInv'
<1>1. /\ progress \in {"first", "incremental"} /\ triggered_operators = {}
      /\ UNCHANGED <<call_state, base_cost, cost, status, h_max_cost, unsatisfied_preconditions,
                     h_max_supporter, h_max_supporter_cost, second_exploration_queue, cut,
                     total_cost, progress>>
  BY DEF Pop
<1>2. PICK e \in priority_queue :
        /\ IsTop(e) /\ priority_queue' = priority_queue \ {e} /\ prop' = e
        /\ triggered_operators' = IF h_max_cost[e[2]] < e[1] THEN {} ELSE Triggered(e[2])
  BY DEF Pop
<1> DEFINE p == e[2]
<1>3. /\ e = <<e[1], p>> /\ e[1] \in Nat /\ p \in Propositions /\ IsReached(p)
      /\ h_max_cost[p] \in Nat /\ h_max_cost[p] <= e[1]
      /\ h_max_cost \in [Propositions -> Nat] /\ priority_queue \subseteq Nat \X Propositions
      /\ \A f \in priority_queue : e[1] <= f[1]
      /\ \A f \in priority_queue : IsReached(f[2]) /\ h_max_cost[f[2]] <= f[1]
  BY <1>2 DEF LandmarkInv, LandmarkTypeOK, QueueOK, IsTop
<1> HIDE DEF p
<1>4. Triggered(p) \subseteq RelaxedOps /\ \A o \in Triggered(p) : p \in o.preconditions
  BY DEF Triggered
<1>5. \/ h_max_cost[p] < e[1] /\ triggered_operators' = {}
      \/ h_max_cost[p] = e[1] /\ triggered_operators' = Triggered(p)
  BY <1>2, <1>3 DEF p
<1>6. prop' = e /\ prop'[1] = e[1] /\ prop'[2] = p
  BY <1>2 DEF p
<1>7. \A q : IsReached(q)' = IsReached(q) /\ InZone(q)' = InZone(q) /\ IsBefore(q)' = IsBefore(q)
  BY <1>1 DEF IsReached, InZone, IsBefore
<1>8. LandmarkTypeOK'
  BY <1>1, <1>2, <1>3, <1>4, <1>5, <1>6 DEF LandmarkInv, LandmarkTypeOK
<1>9. QueueOK'
  <2>1. \A f \in priority_queue' : IsReached(f[2])' /\ h_max_cost'[f[2]] <= f[1]
    BY <1>1, <1>2, <1>3, <1>7
  <2>2. triggered_operators' # {} =>
          /\ prop'[2] \in Propositions /\ IsReached(prop[2])' /\ prop'[1] = h_max_cost'[prop'[2]]
          /\ triggered_operators' \subseteq Triggered(prop[2])'
    <3>1. IsReached(prop[2])' /\ Triggered(prop[2])' = Triggered(p)
      BY <1>1, <1>3, <1>6 DEF IsReached, Triggered
    <3> QED
      BY <1>1, <1>3, <1>5, <1>6, <3>1
  <2>3. progress' \in {"first", "incremental"} /\ second_exploration_queue' = {} /\ cut' = {}
    BY <1>1 DEF LandmarkInv, QueueOK
  <2> QED
    BY <2>1, <2>2, <2>3 DEF QueueOK
<1>10. ValuesOK'
  BY <1>1, <1>7 DEF LandmarkInv, ValuesOK, UpperValues, Value
<1>11. ASSUME h_max_cost[p] < e[1], NEW q PROVE Waits(q)' <=> Waits(q)
  <2>1. <<h_max_cost[q], q>> # e
    BY <1>3, <1>11
  <2> QED
    BY <1>1, <1>2, <2>1 DEF Waits
<1>12. ASSUME h_max_cost[p] = e[1], NEW q PROVE Waits(q)' <=> Waits(q) /\ q # p
  <2>1. <<h_max_cost[q], q>> = e <=> q = p
    BY <1>3, <1>12
  <2> QED
    BY <1>1, <1>2, <2>1 DEF Waits
<1>13. ASSUME progress = "first" PROVE FirstOK'
  <2>1. /\ \A f \in priority_queue : \A q \in Propositions : Settled(q) => h_max_cost[q] <= f[1]
        /\ \A o \in RelaxedOps :
              /\ unsatisfied_preconditions[o] = Cardinality(OpenConditions(o))
              /\ OpenConditions(o) # {} => h_max_supporter[o] = None
              /\ OpenConditions(o) = {} =>
                    /\ Supports(o)
                    /\ h_max_supporter_cost[o] = h_max_cost[h_max_supporter[o]]
    BY <1>13 DEF LandmarkInv, FirstOK
  <2>2. \A o \in RelaxedOps : Supports(o)' = Supports(o)
    BY <1>1, <1>7 DEF Supports
  <2>3. CASE h_max_cost[p] < e[1]
    <3>1. triggered_operators' = {}
      BY <1>5, <2>3, <1>3
    <3>2. \A q : Settled(q)' <=> Settled(q)
      BY <1>7, <1>11, <2>3 DEF Settled
    <3>3. \A o \in RelaxedOps : OpenConditions(o)' = OpenConditions(o)
      BY <1>1, <3>1, <3>2 DEF OpenConditions
    <3>4. \A f \in priority_queue' : \A q \in Propositions : Settled(q)' => h_max_cost'[q] <= f[1]
      BY <1>1, <1>2, <2>1, <3>2
    <3> QED
      BY <1>1, <2>1, <2>2, <3>1, <3>3, <3>4 DEF FirstOK
  <2>4. CASE h_max_cost[p] = e[1]
    <3>1. triggered_operators' = Triggered(p)
      BY <1>5, <2>4, <1>3
    <3>2. \A q : Settled(q)' <=> Settled(q) \/ q = p
      BY <1>3, <1>7, <1>12, <2>4 DEF Settled
    <3>3. ~Settled(p)
      BY <1>3, <2>4 DEF Settled, Waits
    <3>4. ASSUME NEW o \in RelaxedOps PROVE OpenConditions(o)' = OpenConditions(o)
      <4>1. \A q \in o.preconditions : q = p => o \in Triggered(p)
        BY DEF Triggered
      <4> QED
        BY <1>1, <1>6, <3>1, <3>2, <3>3, <4>1 DEF OpenConditions
    <3>5. \A q \in Propositions : Settled(q)' => h_max_cost'[q] <= e[1]
      BY <1>1, <1>3, <2>1, <2>4, <3>2
    <3>6. \A f \in priority_queue' : f \in priority_queue /\ e[1] <= f[1] /\ f[1] \in Nat
      BY <1>2, <1>3
    <3>7. \A q \in Propositions : h_max_cost'[q] \in Nat
      BY <1>1, <1>3
    <3>8. \A f \in priority_queue' : \A q \in Propositions : Settled(q)' => h_max_cost'[q] <= f[1]
      BY <1>3, <3>5, <3>6, <3>7
    <3> QED
      BY <1>1, <1>6, <2>1, <2>2, <3>2, <3>4, <3>5, <3>6, <3>8 DEF FirstOK
  <2> QED
    BY <1>3, <1>5, <2>3, <2>4
<1>14. ASSUME progress = "incremental" PROVE SupportersOK'
  <2>1. \A o \in RelaxedOps : Supports(o)' = Supports(o)
    BY <1>1, <1>7 DEF Supports
  <2>2. ASSUME NEW o \in RelaxedOps, IsPending(o), h_max_supporter[o] \in o.preconditions
        PROVE  IsPending(o)'
    <3>1. Waits(h_max_supporter[o])
      BY <1>1, <2>2 DEF IsPending
    <3>2. CASE h_max_cost[p] < e[1]
      <4>1. Waits(h_max_supporter[o])'
        BY <1>1, <1>11, <3>1, <3>2
      <4> QED
        BY <1>1, <1>14, <4>1 DEF IsPending, Waits
    <3>3. CASE h_max_cost[p] = e[1] /\ h_max_supporter[o] # p
      <4>1. Waits(h_max_supporter[o])'
        BY <1>1, <1>12, <3>1, <3>3
      <4> QED
        BY <1>1, <1>14, <4>1 DEF IsPending, Waits
    <3>4. CASE h_max_cost[p] = e[1] /\ h_max_supporter[o] = p
      <4>1. triggered_operators' = Triggered(p)
        BY <1>3, <1>5, <3>4
      <4>2. o \in triggered_operators'
        BY <2>2, <3>4, <4>1 DEF Triggered
      <4> QED
        BY <1>1, <1>6, <1>14, <3>4, <4>2 DEF IsPending
    <3> QED
      BY <1>3, <1>5, <3>2, <3>3, <3>4
  <2>3. /\ IsReached(artificial_goal)
        /\ \A o \in RelaxedOps :
              /\ h_max_supporter[o] = None => \E q \in o.preconditions : ~IsReached(q)
              /\ h_max_supporter[o] # None =>
                    /\ Supports(o)
                    /\ h_max_supporter_cost[o] = h_max_cost[h_max_supporter[o]] \/ IsPending(o)
    BY <1>14 DEF LandmarkInv, SupportersOK
  <2>4. \A o \in RelaxedOps : Supports(o) => h_max_supporter[o] \in o.preconditions
    BY DEF Supports
  <2> QED
    BY <1>1, <1>7, <2>1, <2>2, <2>3, <2>4 DEF SupportersOK
<1>15. SecondOK'
  BY <1>1, <1>7 DEF LandmarkInv, SecondOK
<1>16. CostsOK' /\ ResultOK'
  BY <1>1 DEF LandmarkInv, CostsOK, ResultOK
<1>17. FirstOK' /\ SupportersOK'
  BY <1>1, <1>13, <1>14 DEF FirstOK, SupportersOK
<1> QED
  BY <1>8, <1>9, <1>10, <1>15, <1>16, <1>17 DEF LandmarkInv

\* What only lowers the values of propositions that were reached or offers
\* upper bounds keeps the queue and the values in order.
LEMMA QueueKept ==
  ASSUME LandmarkTypeOK, QueueOK, NEW offers \in SUBSET (Propositions \X Nat), Enqueue(offers)
  PROVE  \A e \in priority_queue' : IsReached(e[2])' /\ h_max_cost'[e[2]] <= e[1]
<1>1. /\ status \in [Propositions -> Statuses] /\ h_max_cost \in [Propositions -> Nat]
      /\ priority_queue \subseteq Nat \X Propositions
  BY DEF LandmarkTypeOK
<1>2. /\ h_max_cost' \in [Propositions -> Nat] /\ priority_queue' \subseteq Nat \X Propositions
      /\ \A p \in Propositions : IsKept(p) \/ IsLowered(p, offers)
  BY <1>1, EnqueueFacts
<1>3. \A p \in Propositions : IsReached(p) => IsReached(p)' /\ h_max_cost'[p] <= h_max_cost[p]
  BY <1>1, EnqueueLowers
<1> SUFFICES ASSUME NEW c \in Nat, NEW p \in Propositions, <<c, p>> \in priority_queue'
             PROVE  IsReached(p)' /\ h_max_cost'[p] <= c
  BY <1>2
<1>4. h_max_cost[p] \in Nat /\ h_max_cost'[p] \in Nat
  BY <1>1, <1>2
<1>5. CASE <<c, p>> \in priority_queue
  <2>1. IsReached(p) /\ h_max_cost[p] <= c
    BY <1>5 DEF QueueOK
  <2> QED
    BY <1>3, <1>4, <2>1
<1>6. CASE <<c, p>> \notin priority_queue
  <2>1. IsLowered(p, offers) /\ c = h_max_cost'[p]
    BY <1>2, <1>6 DEF IsKept, IsLowered
  <2> QED
    BY <1>4, <2>1 DEF IsLowered, IsReached
<1> QED
  BY <1>5, <1>6

LEMMA ValuesKept ==
  ASSUME LandmarkTypeOK, UpperValues, NEW offers \in SUBSET (Propositions \X Nat),
         Enqueue(offers), call_state' = call_state,
         \A p \in Propositions : AtMost(HMax(call_state, cost')[p], HMax(call_state, cost)[p]),
         \A x \in offers : AtMost(HMax(call_state, cost')[x[1]], x[2]),
         HMax(call_state, cost') \in Estimates
  PROVE  UpperValues'
<1>1. /\ status \in [Propositions -> Statuses] /\ h_max_cost \in [Propositions -> Nat]
      /\ priority_queue \subseteq Nat \X Propositions
      /\ call_state \in State /\ cost \in [Groups -> Nat]
  BY DEF LandmarkTypeOK
<1>2. /\ h_max_cost' \in [Propositions -> Nat]
      /\ \A p \in Propositions : IsKept(p) \/ IsLowered(p, offers)
  BY <1>1, EnqueueFacts
<1>3. \A p \in Propositions : /\ Value[p] = IF IsReached(p) THEN h_max_cost[p] ELSE Infty
                              /\ Value'[p] = IF IsReached(p)' THEN h_max_cost'[p] ELSE Infty
  BY DEF Value
<1>4. \A p \in Propositions : IsKept(p) => Value'[p] = Value[p]
  BY <1>3 DEF IsKept, IsReached
<1>5. \A p \in Propositions : IsLowered(p, offers) => Value'[p] = h_max_cost'[p]
  BY <1>3 DEF IsLowered, IsReached
<1>6. ASSUME NEW p \in Holding(call_state) PROVE Value'[p] = 0
  <2>1. p \in Propositions /\ Value[p] = 0
    BY <1>1, RelaxedTask DEF UpperValues
  <2>2. IsReached(p) /\ h_max_cost[p] = 0
    BY <1>3, <2>1, InftyAssumption
  <2>3. ~IsLowered(p, offers)
    BY <1>2, <2>1, <2>2 DEF IsLowered
  <2> QED
    BY <1>2, <1>4, <2>1, <2>3
<1>7. ASSUME NEW p \in Propositions PROVE AtMost(HMax(call_state, cost')[p], Value'[p])
  <2>1. CASE IsKept(p)
    <3>1. /\ HMax(call_state, cost')[p] \in Distances /\ HMax(call_state, cost)[p] \in Distances
          /\ Value[p] \in Distances
      BY <1>1, <1>3, HMaxFacts DEF LowerEstimates, Estimates, Distances
    <3>2. AtMost(HMax(call_state, cost)[p], Value[p])
      BY DEF UpperValues
    <3> QED
      BY <1>4, <2>1, <3>1, <3>2, AtMostTrans
  <2>2. CASE IsLowered(p, offers)
    <3>1. <<p, h_max_cost'[p]>> \in offers
      BY <2>2 DEF IsLowered
    <3>2. AtMost(HMax(call_state, cost')[p], h_max_cost'[p])
      BY <3>1
    <3> QED
      BY <1>5, <2>2, <3>2
  <2> QED
    BY <1>2, <2>1, <2>2
<1> QED
  BY <1>6, <1>7 DEF UpperValues

\* Supporters stay good enough as long as nothing becomes dearer.
LEMMA SupportsKept ==
  ASSUME LandmarkTypeOK, NEW offers \in SUBSET (Propositions \X Nat), Enqueue(offers),
         NEW o \in RelaxedOps, Supports(o),
         h_max_supporter'[o] = h_max_supporter[o],
         h_max_supporter_cost'[o] = h_max_supporter_cost[o], cost'[o.group] = cost[o.group]
  PROVE  Supports(o)'
<1>1. /\ status \in [Propositions -> Statuses] /\ h_max_cost \in [Propositions -> Nat]
      /\ priority_queue \subseteq Nat \X Propositions /\ cost[o.group] \in Nat
  BY RelaxedTask DEF LandmarkTypeOK
<1>2. h_max_cost' \in [Propositions -> Nat]
  BY <1>1, EnqueueFacts
<1>3. \A p \in Propositions : IsReached(p) => IsReached(p)' /\ h_max_cost'[p] <= h_max_cost[p]
  BY <1>1, EnqueueLowers
<1>4. \A p \in Propositions : h_max_cost[p] \in Nat /\ h_max_cost'[p] \in Nat
  BY <1>1, <1>2
<1>5. o.preconditions \subseteq Propositions /\ o.effects \subseteq Propositions
  BY RelaxedTask
<1>6. h_max_supporter_cost[o] \in Nat /\ h_max_supporter[o] \in o.preconditions
  BY DEF Supports
<1>7. \A q \in o.preconditions : IsReached(q)' /\ h_max_cost'[q] <= h_max_supporter_cost[o]
  BY <1>3, <1>4, <1>5, <1>6 DEF Supports
<1>8. \A p \in o.effects :
         IsReached(p)' /\ h_max_cost'[p] <= h_max_supporter_cost[o] + cost[o.group]
  <2> SUFFICES ASSUME NEW p \in o.effects
               PROVE  IsReached(p)' /\ h_max_cost'[p] <= h_max_supporter_cost[o] + cost[o.group]
    OBVIOUS
  <2>1. IsReached(p) /\ h_max_cost[p] <= h_max_supporter_cost[o] + cost[o.group]
    BY DEF Supports
  <2> QED
    BY <1>1, <1>3, <1>4, <1>5, <1>6, <2>1
<1> QED
  BY <1>6, <1>7, <1>8 DEF Supports

LEMMA TriggerKeeps ==
  ASSUME LandmarkInv, NEW o \in RelaxedOps, Trigger(o)
  PROVE  LandmarkInv'
<1>0. PICK p, x : p = prop[2] /\ x = prop[1]
  OBVIOUS
<1> DEFINE ready == unsatisfied_preconditions[o] = 1
<1>1. /\ progress = "first" /\ o \in triggered_operators
      /\ triggered_operators' = triggered_operators \ {o}
      /\ unsatisfied_preconditions' =
            [unsatisfied_preconditions EXCEPT ![o] = @ - 1]
      /\ UNCHANGED <<call_state, base_cost, cost, prop, second_exploration_queue, cut,
                     total_cost, progress>>
  BY DEF Trigger, IsNext
<1>2. ready =>
        /\ h_max_supporter' = [h_max_supporter EXCEPT ![o] = p]
        /\ h_max_supporter_cost' = [h_max_supporter_cost EXCEPT ![o] = x]
        /\ Enqueue(Offers(o, x + cost[o.group]))
  BY <1>0 DEF Trigger
<1>3. ~ready => UNCHANGED <<h_max_supporter, h_max_supporter_cost, status, h_max_cost,
                            priority_queue>>
  BY DEF Trigger
<1>4. LandmarkTypeOK /\ QueueOK /\ UpperValues
  BY <1>1 DEF LandmarkInv, ValuesOK
<1>5. /\ p \in Propositions /\ IsReached(p) /\ x = h_max_cost[p] /\ x \in Nat
      /\ triggered_operators \subseteq Triggered(p) /\ p \in o.preconditions
      /\ triggered_operators \subseteq RelaxedOps
  BY <1>0, <1>1, <1>4 DEF QueueOK, LandmarkTypeOK, Triggered
<1>6. /\ \A e \in priority_queue : \A q \in Propositions : Settled(q) => h_max_cost[q] <= e[1]
      /\ Settled(p)
      /\ \A q \in Propositions : Settled(q) => h_max_cost[q] <= x
      /\ \A e \in priority_queue : x <= e[1]
  BY <1>0, <1>1 DEF LandmarkInv, FirstOK
<1>7. ASSUME NEW a \in RelaxedOps
      PROVE  /\ unsatisfied_preconditions[a] = Cardinality(OpenConditions(a))
             /\ OpenConditions(a) # {} => h_max_supporter[a] = None
             /\ OpenConditions(a) = {} =>
                    /\ Supports(a)
                    /\ h_max_supporter_cost[a] = h_max_cost[h_max_supporter[a]]
  BY <1>1 DEF LandmarkInv, FirstOK
<1> HIDE DEF ready
<1>8. /\ status \in [Propositions -> Statuses] /\ h_max_cost \in [Propositions -> Nat]
      /\ priority_queue \subseteq Nat \X Propositions /\ cost \in [Groups -> Nat]
      /\ cost[o.group] \in Nat /\ call_state \in State
      /\ o.preconditions \subseteq Propositions /\ o.effects \subseteq Propositions
  BY <1>4, RelaxedTask DEF LandmarkTypeOK
<1> DEFINE offers == Offers(o, x + cost[o.group])
<1>9. offers \in SUBSET (Propositions \X Nat) /\ \A y \in offers : y[2] = x + cost[o.group] /\ y[1] \in o.effects
  BY <1>5, <1>8 DEF Offers
<1>10. \A q \in o.effects : <<q, x + cost[o.group]>> \in offers
  BY DEF Offers
<1> HIDE DEF offers
<1>11. ready => Enqueue(offers)
  BY <1>2 DEF offers
\* Open conditions
<1>12. /\ p \in OpenConditions(o) /\ IsFiniteSet(OpenConditions(o))
       /\ Cardinality(OpenConditions(o)) \in Nat
       /\ Cardinality(OpenConditions(o) \ {p}) = Cardinality(OpenConditions(o)) - 1
  <2>1. p \in OpenConditions(o) /\ OpenConditions(o) \subseteq o.preconditions
    BY <1>0, <1>1, <1>5 DEF OpenConditions
  <2>2. IsFiniteSet(OpenConditions(o))
    BY <2>1, RelaxedTask, FS_Subset
  <2> QED
    BY <2>1, <2>2, FS_CardinalityType, FS_RemoveElement
<1>13. ready => OpenConditions(o) = {p}
  <2> SUFFICES ASSUME ready PROVE OpenConditions(o) = {p}
    OBVIOUS
  <2>1. Cardinality(OpenConditions(o) \ {p}) = 0 /\ IsFiniteSet(OpenConditions(o) \ {p})
    BY <1>7, <1>12, FS_RemoveElement DEF ready
  <2>2. OpenConditions(o) \ {p} = {}
    BY <2>1, FS_EmptySet
  <2> QED
    BY <1>12, <2>2
<1>14. ready => \A q \in o.preconditions : Settled(q) /\ IsReached(q) /\ h_max_cost[q] <= x
  BY <1>6, <1>8, <1>13 DEF OpenConditions, Settled
\* Nothing that is settled is lowered.
<1>15. /\ h_max_cost' \in [Propositions -> Nat] /\ status' \in [Propositions -> Statuses]
       /\ priority_queue' \subseteq Nat \X Propositions
       /\ \A q \in Propositions : IsKept(q) \/ (ready /\ IsLowered(q, offers))
  <2>1. CASE ready
    BY <1>8, <1>9, <1>11, <2>1, EnqueueFacts
  <2>2. CASE ~ready
    BY <1>3, <1>8, <2>2 DEF IsKept
  <2> QED
    BY <2>1, <2>2
<1>16. ASSUME NEW q \in Propositions, IsLowered(q, offers)
       PROVE  h_max_cost'[q] = x + cost[o.group] /\ ~Settled(q) /\ ~Settled(q)'
  <2>1. h_max_cost'[q] = x + cost[o.group]
    BY <1>9, <1>16 DEF IsLowered
  <2>2. ~Settled(q)
    <3>1. IsReached(q) => x + cost[o.group] < h_max_cost[q]
      BY <1>16, <2>1 DEF IsLowered
    <3> QED
      BY <1>5, <1>6, <1>8, <3>1 DEF Settled
  <2>3. <<h_max_cost'[q], q>> \in priority_queue'
    BY <1>16 DEF IsLowered
  <2> QED
    BY <2>1, <2>2, <2>3 DEF Settled, Waits
<1>17. \A q \in Propositions : IsKept(q) => (Settled(q)' <=> Settled(q)) /\ h_max_cost'[q] = h_max_cost[q]
  BY DEF IsKept, Settled, Waits, IsReached
<1>18. \A q \in Propositions : (Settled(q)' <=> Settled(q)) /\ (Settled(q) => h_max_cost'[q] = h_max_cost[q])
  BY <1>15, <1>16, <1>17
<1>19. ASSUME NEW a \in RelaxedOps
       PROVE  OpenConditions(a)' = IF a = o THEN OpenConditions(a) \ {p} ELSE OpenConditions(a)
  <2>1. a.preconditions \subseteq Propositions
    BY RelaxedTask
  <2>2. prop' = prop /\ triggered_operators' = triggered_operators \ {o} /\ p = prop[2]
    BY <1>0, <1>1
  <2> QED
    BY <1>6, <1>18, <2>1, <2>2 DEF OpenConditions
<1>20. LandmarkTypeOK'
  <2>1. /\ h_max_supporter' \in [RelaxedOps -> Propositions \cup {None}]
        /\ h_max_supporter_cost' \in [RelaxedOps -> Distances]
    <3>1. CASE ready
      BY <1>2, <1>4, <1>5, <3>1 DEF LandmarkTypeOK, Distances
    <3>2. CASE ~ready
      BY <1>3, <1>4, <3>2 DEF LandmarkTypeOK
    <3> QED
      BY <3>1, <3>2
  <2>2. unsatisfied_preconditions' \in [RelaxedOps -> Int]
    BY <1>1, <1>4 DEF LandmarkTypeOK
  <2> QED
    BY <1>1, <1>4, <1>15, <2>1, <2>2 DEF LandmarkTypeOK
<1>21. QueueOK'
  <2>1. \A e \in priority_queue' : IsReached(e[2])' /\ h_max_cost'[e[2]] <= e[1]
    <3>1. CASE ready
      BY <1>4, <1>9, <1>11, <3>1, QueueKept
    <3>2. CASE ~ready
      BY <1>3, <1>4, <3>2 DEF QueueOK, IsReached
    <3> QED
      BY <3>1, <3>2
  <2>2. Settled(p)' /\ x = h_max_cost'[p]
    BY <1>5, <1>6, <1>18
  <2>3. prop' = prop /\ prop[2] = p /\ prop[1] = x
    BY <1>0, <1>1
  <2>4. triggered_operators' # {} =>
          /\ prop'[2] \in Propositions /\ IsReached(prop[2])' /\ prop'[1] = h_max_cost'[prop'[2]]
          /\ triggered_operators' \subseteq Triggered(prop[2])'
    BY <1>1, <1>5, <2>2, <2>3 DEF Settled, Triggered, IsReached
  <2>5. progress' = "first" /\ second_exploration_queue' = {} /\ cut' = {}
    BY <1>1, <1>4 DEF QueueOK
  <2> QED
    BY <2>1, <2>4, <2>5 DEF QueueOK
<1>22. ValuesOK'
  <2>1. CASE ready
    <3>1. HMax(call_state, cost) \in Estimates
      BY <1>8, HMaxFacts DEF LowerEstimates
    <3>2. \A q \in Propositions : AtMost(HMax(call_state, cost)[q], HMax(call_state, cost)[q])
      BY <3>1, InftyAssumption DEF Estimates, AtMost, Distances
    <3>3. \A q \in o.preconditions : AtMost(HMax(call_state, cost)[q], x)
      <4> SUFFICES ASSUME NEW q \in o.preconditions PROVE AtMost(HMax(call_state, cost)[q], x)
        OBVIOUS
      <4>1. Value[q] = h_max_cost[q] /\ h_max_cost[q] <= x /\ h_max_cost[q] \in Nat
        BY <1>8, <1>14, <2>1 DEF Value
      <4>2. AtMost(HMax(call_state, cost)[q], Value[q]) /\ HMax(call_state, cost)[q] \in Distances
        BY <1>4, <1>8, <3>1 DEF UpperValues, Estimates
      <4> QED
        BY <1>5, <4>1, <4>2, InftyAssumption DEF AtMost, Distances
    <3>4. \A y \in offers : AtMost(HMax(call_state, cost)[y[1]], y[2])
      BY <1>5, <1>8, <1>9, <3>3, OfferIsUpper
    <3>5. cost' = cost /\ call_state' = call_state
      BY <1>1
    <3>6. UpperValues'
      BY <1>4, <1>9, <1>11, <2>1, <3>1, <3>2, <3>4, <3>5, ValuesKept
    <3> QED
      BY <3>6 DEF ValuesOK
  <2>2. CASE ~ready
    BY <1>1, <1>3, <1>4, <2>2 DEF ValuesOK, UpperValues, Value, IsReached
  <2> QED
    BY <2>1, <2>2
<1>23. ASSUME NEW c \in Nat, NEW q \in Propositions, <<c, q>> \in priority_queue'
       PROVE  x <= c
  <2>1. CASE <<c, q>> \in priority_queue
    BY <1>6, <2>1
  <2>2. CASE <<c, q>> \notin priority_queue
    <3>1. IsLowered(q, offers) /\ c = h_max_cost'[q]
      BY <1>15, <1>23, <2>2 DEF IsKept, IsLowered
    <3> QED
      BY <1>5, <1>8, <1>16, <3>1
  <2> QED
    BY <2>1, <2>2
<1>24. \A q \in Propositions : Settled(q)' => h_max_cost'[q] <= x
  BY <1>6, <1>18
<1>25. ASSUME NEW a \in RelaxedOps, a # o, OpenConditions(a) = {}
       PROVE  Supports(a)' /\ h_max_supporter_cost'[a] = h_max_cost'[h_max_supporter'[a]]
  <2>1. Supports(a) /\ h_max_supporter_cost[a] = h_max_cost[h_max_supporter[a]]
    BY <1>7, <1>25
  <2>2. h_max_supporter'[a] = h_max_supporter[a] /\ h_max_supporter_cost'[a] = h_max_supporter_cost[a]
    <3>1. CASE ready
      BY <1>2, <1>4, <1>25, <3>1 DEF LandmarkTypeOK
    <3>2. CASE ~ready
      BY <1>3, <3>2
    <3> QED
      BY <3>1, <3>2
  <2>3. cost' = cost
    BY <1>1
  <2>4. Supports(a)'
    <3>1. CASE ready
      BY <1>4, <1>9, <1>11, <2>1, <2>2, <2>3, <3>1, SupportsKept
    <3>2. CASE ~ready
      BY <1>3, <2>1, <2>3, <3>2 DEF Supports, IsReached
    <3> QED
      BY <3>1, <3>2
  <2>5. Settled(h_max_supporter[a]) /\ h_max_supporter[a] \in Propositions
    BY <1>25, <2>1, RelaxedTask DEF Supports, OpenConditions
  <2> QED
    BY <1>18, <2>1, <2>2, <2>4, <2>5
<1>26. ASSUME ready
       PROVE  Supports(o)' /\ h_max_supporter_cost'[o] = h_max_cost'[h_max_supporter'[o]]
  <2>1. h_max_supporter'[o] = p /\ h_max_supporter_cost'[o] = x /\ cost' = cost
    BY <1>1, <1>2, <1>4, <1>26 DEF LandmarkTypeOK
  <2>2. h_max_cost'[p] = x
    BY <1>5, <1>6, <1>18
  <2>3. \A q \in o.preconditions : IsReached(q)' /\ h_max_cost'[q] <= x
    <3>1. \A q \in o.preconditions : Settled(q)' /\ h_max_cost'[q] = h_max_cost[q]
      BY <1>8, <1>14, <1>18, <1>26
    <3> QED
      BY <1>14, <1>26, <3>1 DEF Settled
  <2>4. \A q \in o.effects : IsReached(q)' /\ h_max_cost'[q] <= x + cost[o.group]
    <3>1. \A y \in offers : IsReached(y[1])' /\ h_max_cost'[y[1]] <= y[2]
      BY <1>8, <1>9, <1>11, <1>26, EnqueueFacts
    <3> SUFFICES ASSUME NEW q \in o.effects
                 PROVE  IsReached(q)' /\ h_max_cost'[q] <= x + cost[o.group]
      OBVIOUS
    <3>2. PICK y \in offers : y = <<q, x + cost[o.group]>>
      BY <1>10
    <3>3. y[1] = q /\ y[2] = x + cost[o.group]
      BY <3>2
    <3>4. IsReached(y[1])' /\ h_max_cost'[y[1]] <= y[2]
      BY <3>1
    <3> QED
      BY <3>3, <3>4 DEF IsReached
  <2> QED
    BY <1>5, <2>1, <2>2, <2>3, <2>4 DEF Supports
<1>27. FirstOK'
  <2>1. \A e \in priority_queue' : x <= e[1] /\ e[1] \in Nat
    BY <1>15, <1>23
  <2>2. \A e \in priority_queue' : \A q \in Propositions : Settled(q)' => h_max_cost'[q] <= e[1]
    BY <1>5, <1>15, <1>24, <2>1
  <2>3. Settled(prop[2])' /\ prop'[1] = x
    BY <1>0, <1>1, <1>5, <1>6, <1>18 DEF Settled, IsReached, Waits
  <2>4. ASSUME NEW a \in RelaxedOps
        PROVE  /\ unsatisfied_preconditions'[a] = Cardinality(OpenConditions(a)')
               /\ OpenConditions(a)' # {} => h_max_supporter'[a] = None
               /\ OpenConditions(a)' = {} =>
                    /\ Supports(a)'
                    /\ h_max_supporter_cost'[a] = h_max_cost'[h_max_supporter'[a]]
    <3>1. CASE a # o
      <4>1. unsatisfied_preconditions'[a] = unsatisfied_preconditions[a]
        BY <1>1, <1>4, <3>1 DEF LandmarkTypeOK
      <4>2. h_max_supporter'[a] = h_max_supporter[a]
        BY <1>2, <1>3, <1>4, <3>1 DEF LandmarkTypeOK
      <4> QED
        BY <1>7, <1>19, <1>25, <3>1, <4>1, <4>2
    <3>2. CASE a = o
      <4>1. unsatisfied_preconditions'[o] = unsatisfied_preconditions[o] - 1
        BY <1>1, <1>4 DEF LandmarkTypeOK
      <4>2. CASE ready
        <5>1. OpenConditions(o)' = {}
          BY <1>13, <1>19, <4>2
        <5> QED
          BY <1>7, <1>12, <1>19, <1>26, <3>2, <4>1, <4>2, <5>1
      <4>3. CASE ~ready
        <5>1. OpenConditions(o) \ {p} # {}
          <6>1. Cardinality(OpenConditions(o)) # 1
            BY <1>7, <4>3 DEF ready
          <6>2. Cardinality(OpenConditions(o) \ {p}) # 0
            BY <1>12, <6>1
          <6> QED
            BY <6>2, FS_EmptySet
        <5>2. h_max_supporter'[o] = None
          BY <1>3, <1>7, <1>12, <4>3
        <5> QED
          BY <1>7, <1>12, <1>19, <3>2, <4>1, <5>1, <5>2
      <4> QED
        BY <4>2, <4>3
    <3> QED
      BY <3>1, <3>2
  <2> QED
    BY <1>24, <2>1, <2>2, <2>3, <2>4 DEF FirstOK
<1>28. SupportersOK' /\ ResultOK' /\ CostsOK'
  BY <1>1 DEF SupportersOK, ResultOK, CostsOK, LandmarkInv
<1>29. SecondOK'
  <2>1. \A q \in Propositions : ~InZone(q) /\ ~IsBefore(q)
    BY <1>1 DEF LandmarkInv, SecondOK
  <2>2. \A q \in Propositions : status'[q] = status[q] \/ status'[q] = "reached"
    BY <1>15 DEF IsKept, IsLowered
  <2>3. \A q \in Propositions : ~InZone(q)' /\ ~IsBefore(q)'
    BY <2>1, <2>2 DEF InZone, IsBefore
  <2> QED
    BY <1>1, <2>3 DEF SecondOK
<1> QED
  BY <1>20, <1>21, <1>22, <1>27, <1>28, <1>29 DEF LandmarkInv

LEMMA FirstDoneKeeps == ASSUME LandmarkInv, FirstDone PROVE LandmarkInv'
<1>1. /\ progress = "first" /\ priority_queue = {} /\ triggered_operators = {}
      /\ progress' = IF status[artificial_goal] = "unreached" THEN "dead_end" ELSE "round"
      /\ UNCHANGED <<call_state, base_cost, cost, status, h_max_cost, unsatisfied_preconditions,
                     h_max_supporter, h_max_supporter_cost, priority_queue,
                     prop, triggered_operators, second_exploration_queue, cut, total_cost>>
  BY DEF FirstDone
<1>2. LandmarkTypeOK /\ QueueOK /\ UpperValues /\ CostsOK
  BY <1>1 DEF LandmarkInv, ValuesOK
<1>3. \A q : Settled(q) <=> IsReached(q)
  BY <1>1 DEF Settled, Waits
<1>4. ASSUME NEW o \in RelaxedOps PROVE IsJustified(o)
  <2>1. OpenConditions(o) = {q \in o.preconditions : ~IsReached(q)}
    BY <1>1, <1>3 DEF OpenConditions
  <2>2. /\ OpenConditions(o) # {} => h_max_supporter[o] = None
        /\ OpenConditions(o) = {} =>
              Supports(o) /\ h_max_supporter_cost[o] = h_max_cost[h_max_supporter[o]]
    BY <1>1 DEF LandmarkInv, FirstOK
  <2>3. Supports(o) => h_max_supporter[o] # None
    BY RelaxedTask DEF Supports
  <2> QED
    BY <2>1, <2>2, <2>3 DEF IsJustified
<1>5. \A p \in Propositions : HMax(call_state, cost)[p] = Value[p]
  BY <1>2, <1>4, ValueIsExact
<1>6. LandmarkTypeOK' /\ QueueOK'
  BY <1>1, <1>2 DEF LandmarkTypeOK, QueueOK, IsReached
<1>7. ValuesOK'
  BY <1>1, <1>2 DEF ValuesOK, UpperValues, Value, IsReached
<1>8. FirstOK' /\ CostsOK'
  BY <1>1, <1>2 DEF FirstOK, CostsOK
<1>9. SupportersOK'
  <2>1. \A o \in RelaxedOps : Supports(o)' = Supports(o)
    BY <1>1 DEF Supports, IsReached
  <2>2. \A p : IsReached(p)' = IsReached(p)
    BY <1>1 DEF IsReached
  <2> QED
    BY <1>1, <1>4, <2>1, <2>2 DEF SupportersOK, IsJustified, IsReached
<1>10. SecondOK'
  BY <1>1 DEF LandmarkInv, SecondOK, InZone, IsBefore
<1>11. ResultOK'
  BY <1>1, <1>5, RelaxedTask DEF ResultOK, Value, IsReached
<1> QED
  BY <1>6, <1>7, <1>8, <1>9, <1>10, <1>11 DEF LandmarkInv

\* Between the explorations every value is justified, hence exact.
LEMMA SteadyValues ==
  ASSUME LandmarkInv, progress \in {"round", "second"}
  PROVE  /\ \A p \in Propositions : HMax(call_state, cost)[p] = Value[p]
         /\ \A o \in RelaxedOps : IsJustified(o)
         /\ IsReached(artificial_goal)
         /\ UpperValues
<1>1. LandmarkTypeOK /\ UpperValues
  BY DEF LandmarkInv, ValuesOK
<1>2. \A o \in RelaxedOps : IsJustified(o)
  BY DEF LandmarkInv, SupportersOK, IsJustified, IsPending
<1>3. IsReached(artificial_goal)
  BY DEF LandmarkInv, SupportersOK
<1> QED
  BY <1>1, <1>2, <1>3, ValueIsExact

LEMMA LandmarksDone == LandmarkInv /\ Done => LandmarkInv'
<1> SUFFICES ASSUME LandmarkInv, Done PROVE LandmarkInv'
  OBVIOUS
<1>1. /\ progress = "round" /\ progress' = "done" /\ h_max_cost[artificial_goal] = 0
      /\ UNCHANGED <<call_state, base_cost, cost, status, h_max_cost, unsatisfied_preconditions,
                     h_max_supporter, h_max_supporter_cost, priority_queue,
                     prop, triggered_operators, second_exploration_queue, cut, total_cost>>
  BY DEF Done
<1>2. HMax(call_state, cost)[artificial_goal] = 0
  BY <1>1, SteadyValues, RelaxedTask DEF Value
<1>3. LandmarkTypeOK' /\ QueueOK'
  BY <1>1 DEF LandmarkInv, LandmarkTypeOK, QueueOK, IsReached
<1>4. ValuesOK' /\ FirstOK' /\ SupportersOK' /\ SecondOK' /\ CostsOK'
  BY <1>1 DEF LandmarkInv, ValuesOK, FirstOK, SupportersOK, SecondOK, CostsOK
<1>5. ResultOK'
  BY <1>1, <1>2 DEF ResultOK
<1> QED
  BY <1>3, <1>4, <1>5 DEF LandmarkInv

LEMMA RoundDoneKeeps == ASSUME LandmarkInv, RoundDone PROVE LandmarkInv'
<1>1. /\ progress = "incremental" /\ progress' = "round"
      /\ priority_queue = {} /\ triggered_operators = {} /\ status' = ResetStatus
      /\ UNCHANGED <<call_state, base_cost, cost, h_max_cost, unsatisfied_preconditions,
                     h_max_supporter, h_max_supporter_cost, priority_queue,
                     prop, triggered_operators, second_exploration_queue, cut, total_cost>>
  BY DEF RoundDone
<1>2. LandmarkTypeOK
  BY DEF LandmarkInv
<1>3. \A p \in Propositions :
         /\ IsReached(p)' <=> IsReached(p)
         /\ ~InZone(p)' /\ ~IsBefore(p)'
         /\ status'[p] \in Statuses
  <2> TAKE p \in Propositions
  <2>1. status[p] \in Statuses
    BY <1>2 DEF LandmarkTypeOK
  <2>2. status'[p] = IF status[p] \in {"goal_zone", "before_goal_zone"} THEN "reached" ELSE status[p]
    BY <1>1 DEF ResetStatus
  <2> QED
    BY <2>1, <2>2 DEF IsReached, InZone, IsBefore, Statuses
<1>4. LandmarkTypeOK'
  <2>1. status' \in [Propositions -> Statuses]
    BY <1>1, <1>3 DEF ResetStatus
  <2> QED
    BY <1>1, <1>2, <2>1 DEF LandmarkTypeOK
<1>5. QueueOK'
  BY <1>1 DEF LandmarkInv, QueueOK
<1>6. ValuesOK'
  <2>1. \A p \in Propositions : Value'[p] = Value[p]
    BY <1>1, <1>3 DEF Value
  <2>2. Holding(call_state) \subseteq Propositions
    BY <1>2, RelaxedTask DEF LandmarkTypeOK
  <2> QED
    BY <1>1, <2>1, <2>2 DEF LandmarkInv, ValuesOK, UpperValues
<1>7. ASSUME NEW o \in RelaxedOps
      PROVE  /\ h_max_supporter[o] = None => \E q \in o.preconditions : ~IsReached(q)'
             /\ h_max_supporter[o] # None =>
                  Supports(o)' /\ h_max_supporter_cost[o] = h_max_cost[h_max_supporter[o]]
  <2>1. o.preconditions \subseteq Propositions /\ o.effects \subseteq Propositions
    BY RelaxedTask
  <2>2. /\ h_max_supporter[o] = None => \E q \in o.preconditions : ~IsReached(q)
        /\ h_max_supporter[o] # None =>
              Supports(o) /\ h_max_supporter_cost[o] = h_max_cost[h_max_supporter[o]]
    BY <1>1 DEF LandmarkInv, SupportersOK, IsPending, Waits
  <2>3. Supports(o) => Supports(o)'
    BY <1>1, <1>3, <2>1 DEF Supports
  <2> QED
    BY <1>3, <2>1, <2>2, <2>3
<1>8. SupportersOK'
  <2>1. IsReached(artificial_goal)'
    BY <1>1, <1>3, RelaxedTask DEF LandmarkInv, SupportersOK
  <2> QED
    BY <1>1, <1>7, <2>1 DEF SupportersOK
<1>9. FirstOK' /\ CostsOK' /\ ResultOK'
  BY <1>1 DEF LandmarkInv, FirstOK, CostsOK, ResultOK
<1>10. SecondOK'
  BY <1>1, <1>3 DEF SecondOK
<1> QED
  BY <1>4, <1>5, <1>6, <1>8, <1>9, <1>10 DEF LandmarkInv

LEMMA StartRoundKeeps == ASSUME LandmarkInv, StartRound PROVE LandmarkInv'
<1>1. /\ progress = "round" /\ progress' = "second" /\ h_max_cost[artificial_goal] # 0
      /\ second_exploration_queue' = Holding(call_state)
      /\ UNCHANGED <<call_state, base_cost, cost, h_max_cost, unsatisfied_preconditions,
                     h_max_supporter, h_max_supporter_cost, priority_queue, prop,
                     triggered_operators, cut, total_cost>>
  BY DEF StartRound
<1>2. PICK zone : /\ zone = GoalZone
                  /\ status' = [p \in Propositions |->
                        IF p \in Holding(call_state) THEN "before_goal_zone"
                        ELSE IF p \in zone THEN "goal_zone" ELSE status[p]]
  BY DEF StartRound
<1>3. /\ LandmarkTypeOK /\ QueueOK /\ SupportersOK /\ UpperValues /\ IsReached(artificial_goal)
      /\ \A p \in Propositions : ~InZone(p) /\ ~IsBefore(p)
      /\ \A p \in Propositions : HMax(call_state, cost)[p] = Value[p]
      /\ \A o \in RelaxedOps : IsJustified(o)
  BY <1>1, SteadyValues DEF LandmarkInv, SecondOK
<1>4. /\ Holding(call_state) \subseteq Propositions /\ artificial_goal \notin Holding(call_state)
      /\ call_state \in State /\ cost \in [Groups -> Nat] /\ h_max_cost \in [Propositions -> Nat]
      /\ h_max_supporter \in [RelaxedOps -> Propositions \cup {None}]
      /\ artificial_goal \in Propositions
  BY <1>3, RelaxedTask DEF LandmarkTypeOK
<1>5. zone \subseteq Propositions /\ ZoneClosed(zone)
      /\ \A Z \in SUBSET Propositions : ZoneClosed(Z) => zone \subseteq Z
  BY <1>2, <1>4, GoalZoneFacts
<1>6. \A p \in Propositions : Value[p] = IF IsReached(p) THEN h_max_cost[p] ELSE Infty
  BY DEF Value
<1>7. PICK G : G = h_max_cost[artificial_goal]
  OBVIOUS
<1>8. G \in Nat /\ G # 0 /\ HMax(call_state, cost)[artificial_goal] = G
  BY <1>1, <1>3, <1>4, <1>6, <1>7
\* The zone lies where propositions are as dear as the goal.
<1>9. \A p \in zone : IsReached(p) /\ G <= h_max_cost[p]
  <2> DEFINE Z == {p \in Propositions : IsReached(p) /\ G <= h_max_cost[p]}
  <2>1. ASSUME NEW o \in RelaxedOps, cost[o.group] = 0, h_max_supporter[o] # None,
               NEW p \in o.effects, p \in Z
        PROVE  h_max_supporter[o] \in Z
    <3>1. Supports(o) /\ h_max_supporter_cost[o] = h_max_cost[h_max_supporter[o]]
      BY <1>3, <2>1 DEF IsJustified
    <3>2. h_max_supporter[o] \in o.preconditions /\ h_max_supporter[o] \in Propositions
          /\ h_max_cost[h_max_supporter[o]] \in Nat /\ IsReached(h_max_supporter[o])
      BY <1>4, <3>1, RelaxedTask DEF Supports
    <3>3. h_max_cost[p] <= h_max_cost[h_max_supporter[o]] + 0 /\ h_max_cost[p] \in Nat
      BY <1>4, <2>1, <3>1 DEF Supports
    <3>4. G <= h_max_cost[p]
      BY <2>1
    <3>5. G <= h_max_cost[h_max_supporter[o]]
      BY <1>8, <3>2, <3>3, <3>4
    <3> QED
      BY <3>2, <3>5
  <2>2. artificial_goal \in Z
    BY <1>3, <1>4, <1>7, <1>8
  <2>3. ZoneClosed(Z)
    BY <2>1, <2>2 DEF ZoneClosed
  <2>4. zone \subseteq Z
    BY <1>5, <2>3
  <2> QED
    BY <2>4
<1>10. \A p \in Holding(call_state) : IsReached(p) /\ h_max_cost[p] = 0
  BY <1>3, <1>4, <1>6, InftyAssumption DEF UpperValues
<1>11. \A p \in zone : p \notin Holding(call_state)
  BY <1>8, <1>9, <1>10
<1>12. ASSUME NEW p \in Propositions
       PROVE  /\ IsReached(p)' <=> IsReached(p)
              /\ InZone(p)' <=> p \in zone
              /\ IsBefore(p)' <=> p \in Holding(call_state)
              /\ status'[p] \in Statuses
  <2>1. status[p] \in Statuses /\ ~InZone(p) /\ ~IsBefore(p)
    BY <1>3 DEF LandmarkTypeOK
  <2>2. status'[p] = IF p \in Holding(call_state) THEN "before_goal_zone"
                     ELSE IF p \in zone THEN "goal_zone" ELSE status[p]
    BY <1>2
  <2>3. CASE p \in Holding(call_state)
    BY <1>10, <1>11, <2>2, <2>3 DEF IsReached, InZone, IsBefore, Statuses
  <2>4. CASE p \notin Holding(call_state) /\ p \in zone
    BY <1>9, <2>2, <2>4 DEF IsReached, InZone, IsBefore, Statuses
  <2>5. CASE p \notin Holding(call_state) /\ p \notin zone
    BY <2>1, <2>2, <2>5 DEF IsReached, InZone, IsBefore, Statuses
  <2> QED
    BY <2>3, <2>4, <2>5
<1>13. LandmarkTypeOK'
  <2>1. status' \in [Propositions -> Statuses]
    BY <1>2, <1>12
  <2> QED
    BY <1>1, <1>3, <1>4, <2>1 DEF LandmarkTypeOK
<1>14. QueueOK'
  BY <1>1, <1>3 DEF QueueOK
<1>15. ValuesOK'
  <2>1. \A p \in Propositions : Value'[p] = Value[p]
    BY <1>1, <1>12 DEF Value
  <2> QED
    BY <1>1, <1>3, <1>4, <2>1 DEF ValuesOK, UpperValues
<1>16. SupportersOK'
  <2>1. ASSUME NEW o \in RelaxedOps
        PROVE  /\ h_max_supporter[o] = None => \E q \in o.preconditions : ~IsReached(q)'
               /\ h_max_supporter[o] # None =>
                    Supports(o)' /\ h_max_supporter_cost[o] = h_max_cost[h_max_supporter[o]]
    <3>1. o.preconditions \subseteq Propositions /\ o.effects \subseteq Propositions
      BY RelaxedTask
    <3>2. Supports(o) => Supports(o)'
      BY <1>1, <1>12, <3>1 DEF Supports
    <3> QED
      BY <1>3, <1>12, <3>1, <3>2 DEF IsJustified
  <2> QED
    BY <1>1, <1>3, <1>4, <1>12, <2>1 DEF SupportersOK
<1>17. SecondOK'
  <2>1. {p \in Propositions : InZone(p)'} = zone
    BY <1>5, <1>12
  <2>2. ZoneClosed(zone)'
    BY <1>1, <1>5 DEF ZoneClosed
  <2>3. ZoneClosed({p \in Propositions : InZone(p)})'
    <3>1. ZoneClosed({p \in Propositions : InZone(p)})' <=> ZoneClosed(zone)'
      BY <2>1 DEF ZoneClosed
    <3> QED
      BY <2>2, <3>1
  <2>4. \A p \in zone : AtMost(HMax(call_state, cost)[artificial_goal], HMax(call_state, cost)[p])
    <3> SUFFICES ASSUME NEW p \in zone
                 PROVE  AtMost(HMax(call_state, cost)[artificial_goal], HMax(call_state, cost)[p])
      OBVIOUS
    <3>1. HMax(call_state, cost)[p] = h_max_cost[p] /\ h_max_cost[p] \in Nat /\ p \in Propositions
      BY <1>3, <1>4, <1>5, <1>6, <1>9
    <3>2. G <= h_max_cost[p]
      BY <1>9
    <3> QED
      BY <1>8, <3>1, <3>2, InftyAssumption DEF AtMost
  <2>5. \A p \in Holding(call_state)' \cup second_exploration_queue' : IsBefore(p)'
    BY <1>1, <1>4, <1>12
  <2>6. cut' = {}
    BY <1>1, <1>3 DEF QueueOK
  <2>7. ASSUME NEW o \in RelaxedOps, h_max_supporter'[o] # None, IsBefore(h_max_supporter[o])'
        PROVE  h_max_supporter'[o] \in second_exploration_queue'
    BY <1>1, <1>4, <1>12, <2>7 DEF IsBefore
  <2> QED
    BY <1>1, <1>5, <1>8, <1>12, <2>3, <2>4, <2>5, <2>6, <2>7 DEF SecondOK
<1>18. FirstOK' /\ CostsOK' /\ ResultOK'
  BY <1>1 DEF LandmarkInv, FirstOK, CostsOK, ResultOK
<1> QED
  BY <1>13, <1>14, <1>15, <1>16, <1>17, <1>18 DEF LandmarkInv

LEMMA SecondExplorationKeeps == ASSUME LandmarkInv, SecondExploration PROVE LandmarkInv'
<1>1. /\ progress = "second"
      /\ UNCHANGED <<call_state, base_cost, cost, h_max_cost, unsatisfied_preconditions,
                     h_max_supporter, h_max_supporter_cost, priority_queue, prop,
                     triggered_operators, total_cost, progress>>
  BY DEF SecondExploration
<1> DEFINE Explores(p, supported, into, next) ==
        /\ supported = {o \in Triggered(p) : h_max_supporter[o] = p}
        /\ into = {o \in supported : \E q \in o.effects : status[q] = "goal_zone"}
        /\ next = {q \in UNION {o.effects : o \in supported \ into} :
                          status[q] # "before_goal_zone"}
        /\ cut' = cut \cup into
        /\ status' = [q \in Propositions |->
                               IF q \in next THEN "before_goal_zone" ELSE status[q]]
        /\ second_exploration_queue' = (second_exploration_queue \ {p}) \cup next
<1>a. PICK p \in second_exploration_queue : \E supported, into, next : Explores(p, supported, into, next)
  <2>1. PICK p \in second_exploration_queue :
          LET supported == {o \in Triggered(p) : h_max_supporter[o] = p}
              into == {o \in supported : \E q \in o.effects : status[q] = "goal_zone"}
              next == {q \in UNION {o.effects : o \in supported \ into} :
                          status[q] # "before_goal_zone"}
          IN  /\ cut' = cut \cup into
              /\ status' = [q \in Propositions |->
                               IF q \in next THEN "before_goal_zone" ELSE status[q]]
              /\ second_exploration_queue' = (second_exploration_queue \ {p}) \cup next
    BY DEF SecondExploration
  <2>2. PICK supported : supported = {o \in Triggered(p) : h_max_supporter[o] = p}
    OBVIOUS
  <2>3. PICK into : into = {o \in supported : \E q \in o.effects : status[q] = "goal_zone"}
    OBVIOUS
  <2>4. PICK next : next = {q \in UNION {o.effects : o \in supported \ into} :
                               status[q] # "before_goal_zone"}
    OBVIOUS
  <2>5. /\ cut' = cut \cup into
        /\ status' = [q \in Propositions |->
                               IF q \in next THEN "before_goal_zone" ELSE status[q]]
        /\ second_exploration_queue' = (second_exploration_queue \ {p}) \cup next
    BY <2>1, <2>2, <2>3, <2>4
  <2> QED
    BY <2>2, <2>3, <2>4, <2>5
<1>b. PICK supported, into, next : Explores(p, supported, into, next)
  BY <1>a
<1>2. /\ p \in second_exploration_queue
        /\ supported = {o \in Triggered(p) : h_max_supporter[o] = p}
        /\ into = {o \in supported : \E q \in o.effects : status[q] = "goal_zone"}
        /\ next = {q \in UNION {o.effects : o \in supported \ into} :
                          status[q] # "before_goal_zone"}
        /\ cut' = cut \cup into
        /\ status' = [q \in Propositions |->
                               IF q \in next THEN "before_goal_zone" ELSE status[q]]
        /\ second_exploration_queue' = (second_exploration_queue \ {p}) \cup next
  BY <1>a, <1>b
<1>3. LandmarkTypeOK /\ QueueOK /\ SupportersOK /\ UpperValues /\ SecondOK
      /\ \A o \in RelaxedOps : IsJustified(o)
  BY <1>1, SteadyValues DEF LandmarkInv
<1>4. /\ p \in Propositions /\ p # None /\ IsBefore(p)
      /\ supported \subseteq RelaxedOps /\ into \subseteq supported
      /\ \A o \in supported : h_max_supporter[o] = p
      /\ \A o \in into : \E q \in o.effects : InZone(q)
      /\ \A o \in RelaxedOps : h_max_supporter[o] = p => o \in supported
  <2>1. p \in Propositions /\ p # None
    BY <1>3, RelaxedTask DEF LandmarkTypeOK
  <2>2. ASSUME NEW o \in RelaxedOps, h_max_supporter[o] = p PROVE o \in supported
    <3>1. p \in o.preconditions
      BY <1>3, <2>1, <2>2 DEF IsJustified, Supports
    <3> QED
      BY <1>2, <2>2, <3>1 DEF Triggered
  <2>3. IsBefore(p)
    BY <1>1, <1>3 DEF SecondOK
  <2> QED
    BY <1>2, <2>1, <2>2, <2>3 DEF InZone, Triggered
<1>5. \A q \in next : q \in Propositions /\ IsReached(q) /\ ~InZone(q)
  <2> SUFFICES ASSUME NEW q \in next PROVE q \in Propositions /\ IsReached(q) /\ ~InZone(q)
    OBVIOUS
  <2>1. PICK o \in supported : o \notin into /\ q \in o.effects
    BY <1>2
  <2>2. Supports(o)
    BY <1>3, <1>4, <2>1 DEF IsJustified
  <2> QED
    BY <1>2, <1>4, <2>1, <2>2, RelaxedTask DEF Supports, InZone
<1>6. ASSUME NEW q \in Propositions
      PROVE  /\ IsReached(q)' <=> IsReached(q)
             /\ InZone(q)' <=> InZone(q)
             /\ IsBefore(q)' <=> IsBefore(q) \/ q \in next
             /\ status'[q] \in Statuses
  <2>1. status[q] \in Statuses
    BY <1>3 DEF LandmarkTypeOK
  <2>2. status'[q] = IF q \in next THEN "before_goal_zone" ELSE status[q]
    BY <1>2
  <2>3. CASE q \in next
    BY <1>5, <2>2, <2>3 DEF IsReached, InZone, IsBefore, Statuses
  <2>4. CASE q \notin next
    BY <2>1, <2>2, <2>4 DEF IsReached, InZone, IsBefore
  <2> QED
    BY <2>3, <2>4
<1>7. LandmarkTypeOK'
  <2>1. status' \in [Propositions -> Statuses]
    BY <1>2, <1>6
  <2>2. second_exploration_queue' \subseteq Propositions /\ cut' \subseteq RelaxedOps
    BY <1>2, <1>3, <1>4, <1>5 DEF LandmarkTypeOK
  <2> QED
    BY <1>1, <1>3, <2>1, <2>2 DEF LandmarkTypeOK
<1>8. QueueOK'
  BY <1>1, <1>3 DEF QueueOK
<1>9. ValuesOK'
  <2>1. \A q \in Propositions : Value'[q] = Value[q]
    BY <1>1, <1>6 DEF Value
  <2>2. Holding(call_state) \subseteq Propositions
    BY <1>3, RelaxedTask DEF LandmarkTypeOK
  <2> QED
    BY <1>1, <1>3, <2>1, <2>2 DEF ValuesOK, UpperValues
<1>10. SupportersOK'
  <2>1. ASSUME NEW o \in RelaxedOps
        PROVE  /\ h_max_supporter[o] = None => \E q \in o.preconditions : ~IsReached(q)'
               /\ h_max_supporter[o] # None =>
                    Supports(o)' /\ h_max_supporter_cost[o] = h_max_cost[h_max_supporter[o]]
    <3>1. o.preconditions \subseteq Propositions /\ o.effects \subseteq Propositions
      BY RelaxedTask
    <3>2. Supports(o) => Supports(o)'
      BY <1>1, <1>6, <3>1 DEF Supports
    <3> QED
      BY <1>3, <1>6, <3>1, <3>2 DEF IsJustified
  <2>2. IsReached(artificial_goal)'
    BY <1>1, <1>3, <1>6, RelaxedTask DEF SupportersOK
  <2> QED
    BY <1>1, <2>1, <2>2 DEF SupportersOK
<1>11. SecondOK'
  <2>1. /\ ZoneClosed({q \in Propositions : InZone(q)})
        /\ HMax(call_state, cost)[artificial_goal] # 0
        /\ \A q \in Propositions :
              InZone(q) => AtMost(HMax(call_state, cost)[artificial_goal], HMax(call_state, cost)[q])
        /\ \A q \in Holding(call_state) \cup second_exploration_queue : IsBefore(q)
        /\ \A o \in RelaxedOps :
              h_max_supporter[o] # None /\ IsBefore(h_max_supporter[o])
              /\ h_max_supporter[o] \notin second_exploration_queue =>
                  o \in cut \/ \A q \in o.effects : IsBefore(q)
        /\ \A o \in cut :
              /\ h_max_supporter[o] # None /\ IsBefore(h_max_supporter[o])
              /\ \E q \in o.effects : InZone(q)
    BY <1>1, <1>3 DEF SecondOK
  <2>2. ZoneClosed({q \in Propositions : InZone(q)})'
    <3>1. {q \in Propositions : InZone(q)'} = {q \in Propositions : InZone(q)}
      BY <1>6
    <3> QED
      BY <1>1, <2>1, <3>1 DEF ZoneClosed
  <2>3. \A q \in Propositions : IsBefore(q) => IsBefore(q)'
    BY <1>6
  <2>4. Holding(call_state) \subseteq Propositions /\ second_exploration_queue \subseteq Propositions
        /\ h_max_supporter \in [RelaxedOps -> Propositions \cup {None}]
        /\ cut \subseteq RelaxedOps
    BY <1>3, RelaxedTask DEF LandmarkTypeOK
  <2>5. \A q \in Holding(call_state) \cup second_exploration_queue' : IsBefore(q)'
    BY <1>2, <1>5, <1>6, <2>1, <2>4
  <2>6. ASSUME NEW o \in RelaxedOps, h_max_supporter[o] # None, IsBefore(h_max_supporter[o])',
               h_max_supporter[o] \notin second_exploration_queue'
        PROVE  o \in cut' \/ \A q \in o.effects : IsBefore(q)'
    <3>1. PICK r \in Propositions : r = h_max_supporter[o]
      BY <2>4, <2>6
    <3>2. r \notin next /\ IsBefore(r)' /\ (r = p \/ r \notin second_exploration_queue)
      BY <1>1, <1>2, <2>6, <3>1 DEF IsBefore
    <3>3. IsBefore(r)
      BY <1>6, <3>2
    <3>4. CASE r = p
      <4>1. o \in supported
        BY <1>4, <3>1, <3>4
      <4>2. CASE o \in into
        BY <1>2, <4>2
      <4>3. CASE o \notin into
        <5>1. \A q \in o.effects : q \in Propositions /\ (q \in next \/ status[q] = "before_goal_zone")
          BY <1>2, <4>1, <4>3, RelaxedTask
        <5>2. \A q \in o.effects : IsBefore(q)'
          BY <1>6, <5>1 DEF IsBefore
        <5> QED
          BY <5>2
      <4> QED
        BY <4>2, <4>3
    <3>5. CASE r \notin second_exploration_queue
      <4>1. o \in cut \/ \A q \in o.effects : IsBefore(q)
        BY <2>1, <2>6, <3>1, <3>3, <3>5
      <4> QED
        BY <1>2, <2>3, <4>1, RelaxedTask
    <3> QED
      BY <3>2, <3>4, <3>5
  <2>7. ASSUME NEW o \in cut'
        PROVE  /\ h_max_supporter[o] # None /\ IsBefore(h_max_supporter[o])'
               /\ \E q \in o.effects : InZone(q)'
    <3>1. o \in RelaxedOps
      BY <1>2, <1>4, <2>4
    <3>2. PICK r : r = h_max_supporter[o]
      OBVIOUS
    <3>3. r \in Propositions /\ IsBefore(r) /\ r # None
      BY <1>2, <1>4, <2>1, <2>4, <3>1, <3>2
    <3>4. IsBefore(r)'
      BY <2>3, <3>3
    <3>5. \E q \in o.effects : InZone(q)
      BY <1>2, <1>4, <2>1
    <3>6. \E q \in o.effects : InZone(q)'
      BY <1>6, <3>1, <3>5, RelaxedTask
    <3> QED
      BY <1>1, <3>2, <3>3, <3>4, <3>6 DEF IsBefore
  <2>8. \A q \in Propositions :
           InZone(q)' => AtMost(HMax(call_state, cost)[artificial_goal], HMax(call_state, cost)[q])
    BY <1>6, <2>1
  <2>9. \A o : IsBefore(h_max_supporter[o])' <=> status'[h_max_supporter[o]] = "before_goal_zone"
    BY <1>1 DEF IsBefore
  <2>10. progress' = "second"
    BY <1>1
  <2> QED
    BY <1>1, <2>1, <2>2, <2>5, <2>6, <2>7, <2>8, <2>10 DEF SecondOK
<1>12. FirstOK' /\ CostsOK' /\ ResultOK'
  BY <1>1 DEF LandmarkInv, FirstOK, CostsOK, ResultOK
<1> QED
  BY <1>7, <1>8, <1>9, <1>10, <1>11, <1>12 DEF LandmarkInv

LEMMA UpdateKeeps ==
  ASSUME LandmarkInv, NEW o \in RelaxedOps, Update(o)
  PROVE  LandmarkInv'
<1>0. PICK p, x : p = prop[2] /\ x = prop[1]
  OBVIOUS
<1> DEFINE stale == h_max_supporter[o] = p /\ h_max_supporter_cost[o] > x
<1>1. /\ progress = "incremental" /\ o \in triggered_operators
      /\ triggered_operators' = triggered_operators \ {o}
      /\ UNCHANGED <<call_state, base_cost, cost, unsatisfied_preconditions, prop,
                     second_exploration_queue, cut, total_cost, progress>>
  BY DEF Update, IsNext
<1>2. stale => \E q \in NewSupporters(o) :
        /\ h_max_supporter' = [h_max_supporter EXCEPT ![o] = q]
        /\ h_max_supporter_cost' = [h_max_supporter_cost EXCEPT ![o] = h_max_cost[q]]
        /\ Enqueue(IF h_max_cost[q] # h_max_supporter_cost[o]
                   THEN Offers(o, h_max_cost[q] + cost[o.group]) ELSE {})
  BY <1>0 DEF Update
<1>3. ~stale => UNCHANGED <<h_max_supporter, h_max_supporter_cost, status, h_max_cost,
                            priority_queue>>
  BY <1>0 DEF Update
<1>4. LandmarkTypeOK /\ QueueOK /\ UpperValues /\ SupportersOK
  BY <1>1 DEF LandmarkInv, ValuesOK
<1>5. /\ p \in Propositions /\ IsReached(p) /\ x = h_max_cost[p] /\ x \in Nat
      /\ p \in o.preconditions /\ triggered_operators \subseteq Triggered(p)
      /\ triggered_operators \subseteq RelaxedOps
  BY <1>0, <1>1, <1>4 DEF QueueOK, LandmarkTypeOK, Triggered
<1>6. /\ status \in [Propositions -> Statuses] /\ h_max_cost \in [Propositions -> Nat]
      /\ priority_queue \subseteq Nat \X Propositions /\ cost \in [Groups -> Nat]
      /\ cost[o.group] \in Nat /\ call_state \in State
      /\ h_max_supporter \in [RelaxedOps -> Propositions \cup {None}]
      /\ h_max_supporter_cost \in [RelaxedOps -> Distances]
      /\ o.preconditions \subseteq Propositions /\ o.effects \subseteq Propositions
  BY <1>4, RelaxedTask DEF LandmarkTypeOK
<1>7. ASSUME NEW a \in RelaxedOps
      PROVE  /\ h_max_supporter[a] = None => \E q \in a.preconditions : ~IsReached(q)
             /\ h_max_supporter[a] # None =>
                   /\ Supports(a)
                   /\ h_max_supporter_cost[a] = h_max_cost[h_max_supporter[a]] \/ IsPending(a)
  BY <1>1, <1>4 DEF SupportersOK
<1> HIDE DEF stale
<1>8. CASE ~stale
  <2>1. /\ UNCHANGED <<h_max_supporter, h_max_supporter_cost, status, h_max_cost, priority_queue>>
    BY <1>3, <1>8
  <2>2. \A q : IsReached(q)' = IsReached(q) /\ InZone(q)' = InZone(q) /\ IsBefore(q)' = IsBefore(q)
    BY <2>1 DEF IsReached, InZone, IsBefore
  <2>3. LandmarkTypeOK'
    BY <1>1, <1>4, <2>1 DEF LandmarkTypeOK
  <2>4. QueueOK'
    BY <1>1, <1>4, <2>1 DEF QueueOK, IsReached, Triggered
  <2>5. ValuesOK'
    BY <1>1, <1>4, <2>1 DEF ValuesOK, UpperValues, Value, IsReached
  <2>6. SupportersOK'
    <3>1. \A a \in RelaxedOps : Supports(a)' = Supports(a)
      BY <1>1, <2>1 DEF Supports, IsReached
    <3>2. ASSUME NEW a \in RelaxedOps, h_max_supporter[a] # None
          PROVE  h_max_supporter_cost[a] = h_max_cost[h_max_supporter[a]] \/ IsPending(a)'
      <4>1. CASE a # o \/ Waits(h_max_supporter[a])
        <5>1. IsPending(a) => IsPending(a)'
          BY <1>1, <2>1, <4>1 DEF IsPending, Waits
        <5> QED
          BY <1>7, <3>2, <5>1
      <4>2. CASE a = o /\ h_max_supporter[a] # p /\ ~Waits(h_max_supporter[a])
        BY <1>0, <1>7, <3>2, <4>2 DEF IsPending
      <4>3. CASE a = o /\ h_max_supporter[a] = p
        <5>1. ~(h_max_supporter_cost[o] > x)
          BY <1>8, <4>3 DEF stale
        <5>2. Supports(o)
          BY <1>7, <3>2, <4>3
        <5>3. h_max_supporter_cost[o] \in Nat /\ h_max_cost[p] <= h_max_supporter_cost[o]
          BY <1>5, <5>2 DEF Supports
        <5> QED
          BY <1>5, <4>3, <5>1, <5>3
      <4> QED
        BY <4>1, <4>2, <4>3
    <3>3. \A a \in RelaxedOps : h_max_supporter[a] = None => \E q \in a.preconditions : ~IsReached(q)
      BY <1>7
    <3>4. \A a \in RelaxedOps : h_max_supporter[a] # None => Supports(a)
      BY <1>7
    <3>5. IsReached(artificial_goal)
      BY <1>1, <1>4 DEF SupportersOK
    <3> QED
      BY <1>1, <2>1, <2>2, <3>1, <3>2, <3>3, <3>4, <3>5 DEF SupportersOK
  <2>7. FirstOK' /\ SecondOK' /\ CostsOK' /\ ResultOK'
    BY <1>1 DEF LandmarkInv, FirstOK, SecondOK, CostsOK, ResultOK
  <2> QED
    BY <2>3, <2>4, <2>5, <2>6, <2>7 DEF LandmarkInv
<1>9. CASE stale
  <2>1. PICK q \in NewSupporters(o) :
          /\ h_max_supporter' = [h_max_supporter EXCEPT ![o] = q]
          /\ h_max_supporter_cost' = [h_max_supporter_cost EXCEPT ![o] = h_max_cost[q]]
          /\ Enqueue(IF h_max_cost[q] # h_max_supporter_cost[o]
                     THEN Offers(o, h_max_cost[q] + cost[o.group]) ELSE {})
    BY <1>2, <1>9
  <2>2. PICK y : y = h_max_cost[q]
    OBVIOUS
  <2>3. PICK offers : offers = IF y # h_max_supporter_cost[o] THEN Offers(o, y + cost[o.group]) ELSE {}
    OBVIOUS
  <2>4. Supports(o) /\ h_max_supporter[o] = p
    <3>1. h_max_supporter[o] = p /\ p # None
      BY <1>5, <1>9, RelaxedTask DEF stale
    <3> QED
      BY <1>7, <3>1
  <2>5. q \in o.preconditions /\ \A r \in o.preconditions : h_max_cost[r] <= h_max_cost[q]
    BY <2>1 DEF NewSupporters
  <2>6. /\ q \in Propositions /\ y \in Nat /\ IsReached(q)
        /\ \A r \in o.preconditions : IsReached(r) /\ h_max_cost[r] <= y /\ h_max_cost[r] \in Nat
        /\ x <= y
    BY <1>5, <1>6, <2>2, <2>4, <2>5 DEF Supports
  <2>7. /\ offers \in SUBSET (Propositions \X Nat)
        /\ \A z \in offers : z[2] = y + cost[o.group] /\ z[1] \in o.effects
        /\ y # h_max_supporter_cost[o] => \A r \in o.effects : <<r, y + cost[o.group]>> \in offers
    BY <1>6, <2>3, <2>6 DEF Offers
  <2>8. Enqueue(offers)
    BY <2>1, <2>2, <2>3
  <2>9. /\ h_max_cost' \in [Propositions -> Nat] /\ status' \in [Propositions -> Statuses]
        /\ priority_queue' \subseteq Nat \X Propositions
        /\ \A r \in Propositions : IsKept(r) \/ IsLowered(r, offers)
        /\ \A z \in offers : IsReached(z[1])' /\ h_max_cost'[z[1]] <= z[2]
    BY <1>6, <2>7, <2>8, EnqueueFacts
  <2>10. \A r \in Propositions : IsReached(r) => IsReached(r)' /\ h_max_cost'[r] <= h_max_cost[r]
    BY <1>6, <2>7, <2>8, EnqueueLowers
  <2>11. /\ h_max_supporter'[o] = q /\ h_max_supporter_cost'[o] = y
         /\ \A a \in RelaxedOps \ {o} : /\ h_max_supporter'[a] = h_max_supporter[a]
                                        /\ h_max_supporter_cost'[a] = h_max_supporter_cost[a]
    BY <1>6, <2>1, <2>2
  \* Propositions that are lowered were reached, and were dearer than q.
  <2>12. ASSUME NEW r \in Propositions, IsLowered(r, offers)
         PROVE  IsReached(r) /\ y < h_max_cost[r] /\ Waits(r)'
    <3>1. h_max_cost'[r] = y + cost[o.group] /\ r \in o.effects
      BY <2>7, <2>12 DEF IsLowered
    <3>2. IsReached(r)
      BY <2>4, <3>1 DEF Supports
    <3>3. h_max_cost'[r] < h_max_cost[r] /\ h_max_cost[r] \in Nat
      BY <1>6, <2>12, <3>2 DEF IsLowered
    <3>4. Waits(r)'
      BY <2>12 DEF IsLowered, Waits
    <3> QED
      BY <1>6, <2>6, <3>1, <3>2, <3>3, <3>4
  <2>13. \A r \in Propositions : IsReached(r)' <=> IsReached(r)
    BY <2>9, <2>10, <2>12 DEF IsKept, IsReached
  <2>14. h_max_cost'[q] = y /\ h_max_cost'[p] = x
    <3>1. ~IsLowered(q, offers) /\ ~IsLowered(p, offers)
      BY <1>5, <1>6, <2>2, <2>6, <2>12
    <3> QED
      BY <1>5, <2>2, <2>6, <2>9, <3>1 DEF IsKept
  <2>15. LandmarkTypeOK'
    <3>1. /\ h_max_supporter' \in [RelaxedOps -> Propositions \cup {None}]
          /\ h_max_supporter_cost' \in [RelaxedOps -> Distances]
      BY <1>6, <2>1, <2>2, <2>6 DEF Distances
    <3> QED
      BY <1>1, <1>4, <2>9, <3>1 DEF LandmarkTypeOK
  <2>16. QueueOK'
    <3>1. \A e \in priority_queue' : IsReached(e[2])' /\ h_max_cost'[e[2]] <= e[1]
      BY <1>4, <2>7, <2>8, QueueKept
    <3>2. /\ prop'[2] \in Propositions /\ IsReached(prop[2])' /\ prop'[1] = h_max_cost'[prop'[2]]
          /\ triggered_operators' \subseteq Triggered(prop[2])'
      BY <1>0, <1>1, <1>5, <2>13, <2>14 DEF IsReached, Triggered
    <3> QED
      BY <1>1, <1>4, <3>1, <3>2 DEF QueueOK
  <2>17. ValuesOK'
    <3>1. HMax(call_state, cost) \in Estimates
      BY <1>6, HMaxFacts DEF LowerEstimates
    <3>2. \A r \in Propositions : AtMost(HMax(call_state, cost)[r], HMax(call_state, cost)[r])
      BY <3>1, InftyAssumption DEF Estimates, AtMost, Distances
    <3>3. \A r \in o.preconditions : AtMost(HMax(call_state, cost)[r], y)
      <4> SUFFICES ASSUME NEW r \in o.preconditions PROVE AtMost(HMax(call_state, cost)[r], y)
        OBVIOUS
      <4>1. Value[r] = h_max_cost[r] /\ h_max_cost[r] <= y /\ h_max_cost[r] \in Nat
        BY <1>6, <2>6 DEF Value
      <4>2. AtMost(HMax(call_state, cost)[r], Value[r]) /\ HMax(call_state, cost)[r] \in Distances
        BY <1>4, <1>6, <3>1 DEF UpperValues, Estimates
      <4> QED
        BY <2>6, <4>1, <4>2, InftyAssumption DEF AtMost, Distances
    <3>4. \A z \in offers : AtMost(HMax(call_state, cost)[z[1]], z[2])
      BY <1>6, <2>6, <2>7, <3>3, OfferIsUpper
    <3>5. cost' = cost /\ call_state' = call_state
      BY <1>1
    <3>6. UpperValues'
      BY <1>4, <2>7, <2>8, <3>1, <3>2, <3>4, <3>5, ValuesKept
    <3> QED
      BY <3>6 DEF ValuesOK
  <2>18. Supports(o)'
    <3>1. \A r \in o.preconditions : IsReached(r)' /\ h_max_cost'[r] <= y
      <4> SUFFICES ASSUME NEW r \in o.preconditions PROVE IsReached(r)' /\ h_max_cost'[r] <= y
        OBVIOUS
      <4>1. h_max_cost'[r] <= h_max_cost[r] /\ IsReached(r)' /\ h_max_cost'[r] \in Nat
        BY <1>6, <2>6, <2>9, <2>10
      <4> QED
        BY <2>6, <4>1
    <3>2. \A r \in o.effects : IsReached(r)' /\ h_max_cost'[r] <= y + cost[o.group]
      <4> SUFFICES ASSUME NEW r \in o.effects
                   PROVE  IsReached(r)' /\ h_max_cost'[r] <= y + cost[o.group]
        OBVIOUS
      <4>1. r \in Propositions /\ IsReached(r) /\ h_max_cost[r] <= h_max_supporter_cost[o] + cost[o.group]
        BY <1>6, <2>4 DEF Supports
      <4>2. CASE y = h_max_supporter_cost[o]
        <5>1. h_max_cost'[r] <= h_max_cost[r] /\ IsReached(r)' /\ h_max_cost'[r] \in Nat
              /\ h_max_cost[r] \in Nat
          BY <1>6, <2>9, <2>10, <4>1
        <5> QED
          BY <1>6, <2>6, <4>1, <4>2, <5>1
      <4>3. CASE y # h_max_supporter_cost[o]
        <5>1. PICK z \in offers : z = <<r, y + cost[o.group]>>
          BY <2>7, <4>3
        <5>2. z[1] = r /\ z[2] = y + cost[o.group]
          BY <5>1
        <5>3. IsReached(z[1])' /\ h_max_cost'[z[1]] <= z[2]
          BY <2>9
        <5> QED
          BY <5>2, <5>3 DEF IsReached
      <4> QED
        BY <4>2, <4>3
    <3>3. cost' = cost
      BY <1>1
    <3> QED
      BY <2>5, <2>6, <2>11, <3>1, <3>2, <3>3 DEF Supports
  <2>19. ASSUME NEW a \in RelaxedOps
         PROVE  /\ h_max_supporter'[a] = None => \E r \in a.preconditions : ~IsReached(r)'
                /\ h_max_supporter'[a] # None =>
                    /\ Supports(a)'
                    /\ h_max_supporter_cost'[a] = h_max_cost'[h_max_supporter'[a]] \/ IsPending(a)'
    <3>1. CASE a = o
      BY <2>6, <2>11, <2>14, <2>18, <3>1, RelaxedTask
    <3>2. CASE a # o /\ h_max_supporter[a] = None
      BY <1>7, <2>11, <2>13, <3>2, RelaxedTask
    <3>3. CASE a # o /\ h_max_supporter[a] # None
      <4>1. PICK r \in Propositions : r = h_max_supporter[a]
        BY <1>6, <3>3
      <4>2. h_max_supporter'[a] = r /\ h_max_supporter_cost'[a] = h_max_supporter_cost[a]
            /\ cost' = cost /\ progress' = "incremental" /\ prop' = prop
        BY <1>1, <2>11, <3>3, <4>1
      <4>3. Supports(a)'
        BY <1>4, <1>7, <2>7, <2>8, <3>3, <4>1, <4>2, SupportsKept
      <4>4. CASE IsLowered(r, offers)
        <5>1. Waits(r)'
          BY <2>12, <4>4
        <5>2. IsPending(a)'
          BY <4>2, <5>1 DEF IsPending, Waits
        <5> QED
          BY <3>3, <4>1, <4>2, <4>3, <5>2
      <4>5. CASE IsKept(r)
        <5>1. h_max_cost'[r] = h_max_cost[r] /\ (Waits(r) => Waits(r)')
          BY <4>5 DEF IsKept, Waits
        <5>2. IsPending(a) => IsPending(a)'
          <6>1. CASE Waits(r)
            BY <4>2, <5>1, <6>1 DEF IsPending, Waits
          <6>2. CASE a \in triggered_operators /\ r = prop[2]
            BY <1>1, <3>3, <4>2, <6>2 DEF IsPending
          <6> QED
            BY <4>1, <6>1, <6>2 DEF IsPending
        <5> QED
          BY <1>7, <3>3, <4>1, <4>2, <4>3, <5>1, <5>2
      <4> QED
        BY <2>9, <4>4, <4>5
    <3> QED
      BY <3>1, <3>2, <3>3
  <2>20. SupportersOK'
    <3>1. IsReached(artificial_goal)'
      BY <1>1, <1>4, <2>13, RelaxedTask DEF SupportersOK
    <3> QED
      BY <2>19, <3>1 DEF SupportersOK
  <2>21. FirstOK' /\ SecondOK' /\ CostsOK' /\ ResultOK'
    BY <1>1 DEF LandmarkInv, FirstOK, SecondOK, CostsOK, ResultOK
  <2> QED
    BY <2>15, <2>16, <2>17, <2>20, <2>21 DEF LandmarkInv
<1> QED
  BY <1>8, <1>9

-----------------------------------------------------------------------------
(***************************************************************************)
(* Cuts                                                                    *)
(***************************************************************************)
\* When the second exploration ends, the propositions before the zone are
\* closed under the operators outside the cut.
LEMMA CutFacts ==
  ASSUME LandmarkInv, progress = "second", second_exploration_queue = {}
  PROVE  /\ CutGroups \subseteq Op /\ cut # {}
         /\ \A o \in cut : cost[o.group] > 0
         /\ \A ops \in SUBSET (RelaxedOps \ cut) :
               artificial_goal \notin ReachableWith(call_state, ops)
<1> DEFINE B == {p \in Propositions : IsBefore(p)}
           Z == {p \in Propositions : InZone(p)}
<1>1. /\ LandmarkTypeOK /\ SecondOK /\ UpperValues /\ IsReached(artificial_goal)
      /\ \A p \in Propositions : HMax(call_state, cost)[p] = Value[p]
      /\ \A o \in RelaxedOps : IsJustified(o)
  BY SteadyValues DEF LandmarkInv
<1>2. /\ cut \subseteq RelaxedOps /\ call_state \in State /\ cost \in [Groups -> Nat]
      /\ cost[GoalGroup] = 0 /\ h_max_supporter \in [RelaxedOps -> Propositions \cup {None}]
      /\ h_max_cost \in [Propositions -> Nat]
      /\ Holding(call_state) \subseteq Propositions /\ artificial_goal \in Propositions
  BY <1>1, RelaxedTask DEF LandmarkTypeOK
<1>3. /\ ZoneClosed(Z)
      /\ \A p \in Holding(call_state) : IsBefore(p)
      /\ \A o \in RelaxedOps :
            h_max_supporter[o] # None /\ IsBefore(h_max_supporter[o]) =>
               o \in cut \/ \A q \in o.effects : IsBefore(q)
      /\ \A o \in cut :
              /\ h_max_supporter[o] # None /\ IsBefore(h_max_supporter[o])
              /\ \E q \in o.effects : InZone(q)
  BY <1>1 DEF SecondOK
<1>4. \A p : ~(InZone(p) /\ IsBefore(p))
  BY DEF InZone, IsBefore
<1>5. ASSUME NEW o \in cut PROVE cost[o.group] > 0
  <2>1. o \in RelaxedOps /\ cost[o.group] \in Nat
    BY <1>2, RelaxedTask
  <2>2. PICK q \in o.effects : InZone(q)
    BY <1>3
  <2>3. q \in Z
    BY <2>1, <2>2, RelaxedTask
  <2>4. h_max_supporter[o] \notin Z
    BY <1>3, <1>4
  <2>5. cost[o.group] # 0
    BY <1>3, <2>1, <2>3, <2>4 DEF ZoneClosed
  <2> QED
    BY <2>1, <2>5
<1>6. CutGroups \subseteq Op
  <2> SUFFICES ASSUME NEW o \in cut PROVE o.group \in Op
    BY DEF CutGroups
  <2>1. o.group # GoalGroup
    BY <1>2, <1>5
  <2> QED
    BY <1>2, <2>1, RelaxedTask
<1>7. ClosedUnder(B, RelaxedOps \ cut)
  <2> SUFFICES ASSUME NEW o \in RelaxedOps \ cut, o.preconditions \subseteq B
               PROVE  o.effects \subseteq B
    BY DEF ClosedUnder
  <2>1. \A q \in o.preconditions : IsReached(q) /\ IsBefore(q)
    BY DEF IsReached, IsBefore
  <2>2. h_max_supporter[o] # None /\ h_max_supporter[o] \in o.preconditions
    BY <1>1, <2>1 DEF IsJustified, Supports
  <2>3. \A q \in o.effects : IsBefore(q)
    BY <1>3, <2>1, <2>2
  <2> QED
    BY <2>3, RelaxedTask
<1>8. Holding(call_state) \subseteq B /\ artificial_goal \notin B
  <2>1. InZone(artificial_goal)
    BY <1>3 DEF ZoneClosed
  <2> QED
    BY <1>2, <1>3, <1>4, <2>1
<1> HIDE DEF B, Z
<1>9. B \in SUBSET Propositions
  BY DEF B
<1>10. ASSUME NEW ops \in SUBSET (RelaxedOps \ cut)
       PROVE  artificial_goal \notin ReachableWith(call_state, ops)
  <2>1. ops \in SUBSET RelaxedOps /\ ClosedUnder(B, ops)
    BY <1>7 DEF ClosedUnder
  <2>2. ReachableWith(call_state, ops) \subseteq B
    BY <1>2, <1>8, <1>9, <2>1, ReachableWithFacts
  <2> QED
    BY <1>8, <2>2
<1>11. cut # {}
  <2> SUFFICES ASSUME cut = {} PROVE FALSE
    OBVIOUS
  <2>1. ClosedUnder(B, RelaxedOps)
    BY <1>7
  <2>2. HMax(call_state, cost)[artificial_goal] = Infty
    BY <1>2, <1>8, <1>9, <2>1, OutsideIsDear
  <2>3. Value[artificial_goal] \in Nat
    BY <1>1, <1>2 DEF Value
  <2> QED
    BY <1>1, <1>2, <2>2, <2>3, InftyAssumption
<1> QED
  BY <1>5, <1>6, <1>10, <1>11

\* Reducing the costs of groups by m makes the goal cheaper by at most m if all
\* ways through the groups to something as dear as the goal come last.
LEMMA GoalFallsByM ==
  ASSUME NEW s \in State, NEW c \in [Groups -> Nat], NEW d \in [Groups -> Nat], NEW m \in Nat,
         NEW X \in SUBSET Groups,
         \A g \in Groups : c[g] = d[g] + (IF g \in X THEN m ELSE 0),
         HMax(s, c)[artificial_goal] \in Nat,
         \A o \in InGroups(X) : \E q \in o.preconditions :
            AtMost(HMax(s, c)[artificial_goal], Plus(c[o.group], HMax(s, c)[q]))
  PROVE  /\ HMax(s, d)[artificial_goal] \in Nat
         /\ HMax(s, c)[artificial_goal] <= m + HMax(s, d)[artificial_goal]
<1>1. PICK h, G : h = HMax(s, c) /\ G = HMax(s, c)[artificial_goal]
  OBVIOUS
<1>2. /\ h \in Estimates /\ \A p \in Holding(s) : h[p] = 0
      /\ \A o \in RelaxedOps : \A p \in o.effects : AtMost(h[p], Through(c, h, o))
      /\ G \in Nat /\ G = h[artificial_goal] /\ artificial_goal \in Propositions
  <2>1. artificial_goal \in Propositions
    BY RelaxedTask
  <2> QED
    BY <1>1, <2>1, HMaxFacts DEF LowerEstimates
<1>3. HMax(s, d)[artificial_goal] \in Nat
  <2>1. \A o \in RelaxedOps : d[o.group] <= c[o.group]
    <3> SUFFICES ASSUME NEW o \in RelaxedOps PROVE d[o.group] <= c[o.group]
      OBVIOUS
    <3>1. /\ c[o.group] = d[o.group] + (IF o.group \in X THEN m ELSE 0)
          /\ d[o.group] \in Nat /\ c[o.group] \in Nat
      BY RelaxedTask
    <3> QED
      BY <3>1
  <2>2. AtMost(HMax(s, d)[artificial_goal], G) /\ HMax(s, d)[artificial_goal] \in Distances
    BY <1>1, <1>2, <2>1, CheaperCosts, HMaxFacts DEF LowerEstimates, Estimates
  <2> QED
    BY <1>2, <2>2, InftyAssumption DEF AtMost, Distances
<1>4. CASE G <= m
  BY <1>1, <1>2, <1>3, <1>4
<1>5. CASE G > m
  <2>1. PICK K \in Nat : K + m = G
    <3>1. G - m \in Nat /\ (G - m) + m = G
      BY <1>2, <1>5
    <3> QED
      BY <3>1
  <2> DEFINE g == [p \in Propositions |-> IF AtMost(h[p], K) THEN h[p] ELSE K]
  <2>2. \A p \in Propositions : h[p] \in Distances
    BY <1>2 DEF Estimates
  <2>3. g \in Estimates /\ \A p \in Propositions : g[p] = IF AtMost(h[p], K) THEN h[p] ELSE K
    BY <2>1, <2>2 DEF Estimates, Distances
  <2> HIDE DEF g
  <2>4. \A p \in Propositions : AtMost(g[p], K) /\ AtMost(g[p], h[p]) /\ g[p] \in Distances
    BY <2>1, <2>2, <2>3, InftyAssumption DEF AtMost, Distances
  <2>5. \A p \in Holding(s) : g[p] = 0
    BY <1>2, <2>1, <2>3, RelaxedTask, InftyAssumption DEF AtMost
  <2>6. ASSUME NEW o \in RelaxedOps, NEW p \in o.effects
        PROVE  AtMost(g[p], Through(d, g, o))
    <3>1. /\ p \in Propositions /\ o.preconditions \subseteq Propositions
          /\ c[o.group] \in Nat /\ d[o.group] \in Nat
          /\ c[o.group] = d[o.group] + (IF o.group \in X THEN m ELSE 0)
      BY RelaxedTask
    <3>2. /\ Through(d, g, o) \in Distances /\ Through(c, h, o) \in Distances
          /\ \A q \in o.preconditions : AtMost(Plus(d[o.group], g[q]), Through(d, g, o))
      BY <1>2, <2>3, ThroughFacts
    <3>3. ASSUME NEW q \in o.preconditions, AtMost(K, Plus(d[o.group], g[q]))
          PROVE  AtMost(g[p], Through(d, g, o))
      <4>1. g[q] \in Distances /\ d[o.group] \in Nat
        BY <2>4, <3>1
      <4>2. K \in Distances /\ g[p] \in Distances /\ Plus(d[o.group], g[q]) \in Distances
        BY <2>1, <2>4, <3>1, <4>1, InftyAssumption DEF Distances, Plus
      <4>3. AtMost(g[p], K)
        BY <2>4, <3>1
      <4>4. AtMost(g[p], Plus(d[o.group], g[q]))
        BY <3>3, <4>2, <4>3, AtMostTrans
      <4> QED
        BY <3>2, <4>2, <4>4, AtMostTrans
    <3>4. CASE \E q \in o.preconditions : ~AtMost(h[q], K)
      <4>1. PICK q \in o.preconditions : ~AtMost(h[q], K)
        BY <3>4
      <4>2. g[q] = K
        BY <2>3, <3>1, <4>1
      <4>3. AtMost(K, Plus(d[o.group], g[q]))
        BY <2>1, <3>1, <4>2, InftyAssumption DEF AtMost, Plus
      <4> QED
        BY <3>3, <4>3
    <3>5. CASE o.group \in X /\ \A q \in o.preconditions : AtMost(h[q], K)
      <4>1. PICK q \in o.preconditions : AtMost(G, Plus(c[o.group], h[q]))
        BY <1>1, <3>5 DEF InGroups
      <4>2. q \in Propositions /\ g[q] = h[q] /\ h[q] \in Nat
        BY <2>1, <2>2, <2>3, <3>1, <3>5, InftyAssumption DEF AtMost, Distances
      <4>3. G <= c[o.group] + h[q] /\ c[o.group] = d[o.group] + m
        BY <1>2, <3>1, <3>5, <4>1, <4>2, InftyAssumption DEF AtMost, Plus
      <4>4. K <= d[o.group] + h[q]
        BY <1>2, <2>1, <3>1, <4>2, <4>3
      <4>5. AtMost(K, Plus(d[o.group], g[q]))
        BY <2>1, <3>1, <4>2, <4>4, InftyAssumption DEF AtMost, Plus
      <4> QED
        BY <3>3, <4>5
    <3>6. CASE o.group \notin X /\ \A q \in o.preconditions : AtMost(h[q], K)
      <4>1. {g[q] : q \in o.preconditions} = {h[q] : q \in o.preconditions}
        BY <2>3, <3>1, <3>6
      <4>2. d[o.group] = c[o.group]
        BY <3>1, <3>6
      <4>3. Through(d, g, o) = Through(c, h, o)
        BY <4>1, <4>2 DEF Through
      <4>4. AtMost(h[p], Through(d, g, o))
        BY <1>2, <4>3
      <4> QED
        BY <2>2, <2>4, <3>1, <3>2, <4>4, AtMostTrans
    <3> QED
      BY <3>4, <3>5, <3>6
  <2>7. g \in LowerEstimates(s, d)
    BY <2>3, <2>5, <2>6 DEF LowerEstimates
  <2>8. g[artificial_goal] = K
    BY <1>2, <1>5, <2>1, <2>3, InftyAssumption DEF AtMost
  <2>9. AtMost(K, HMax(s, d)[artificial_goal])
    BY <1>2, <2>7, <2>8, HMaxFacts
  <2>10. K <= HMax(s, d)[artificial_goal]
    BY <1>3, <2>1, <2>9, InftyAssumption DEF AtMost
  <2> QED
    BY <1>1, <1>2, <1>3, <2>1, <2>10
<1> QED
  BY <1>2, <1>4, <1>5

LEMMA ApplyCutKeeps == ASSUME LandmarkInv, ApplyCut PROVE LandmarkInv'
<1> DEFINE again == {x \in RelaxedOps : x.group \in CutGroups /\ h_max_supporter[x] # None}
<1>1. /\ progress = "second" /\ second_exploration_queue = {}
      /\ cost' = [g \in Groups |-> cost[g] - IF g \in CutGroups THEN CutCost ELSE 0]
      /\ total_cost' = total_cost + CutCost
      /\ Enqueue(UNION {Offers(o, h_max_supporter_cost[o] + cost'[o.group]) : o \in again})
      /\ cut' = {} /\ progress' = "incremental"
      /\ UNCHANGED <<call_state, base_cost, unsatisfied_preconditions, h_max_supporter,
                     h_max_supporter_cost, prop, triggered_operators, second_exploration_queue>>
  BY DEF ApplyCut
<1>2. /\ CutGroups \subseteq Op /\ cut # {}
      /\ \A o \in cut : cost[o.group] > 0
      /\ \A ops \in SUBSET (RelaxedOps \ cut) :
               artificial_goal \notin ReachableWith(call_state, ops)
  BY <1>1, CutFacts
<1>3. /\ LandmarkTypeOK /\ QueueOK /\ SecondOK /\ CostsOK /\ UpperValues
      /\ IsReached(artificial_goal)
      /\ \A p \in Propositions : HMax(call_state, cost)[p] = Value[p]
      /\ \A o \in RelaxedOps : IsJustified(o)
  BY <1>1, SteadyValues DEF LandmarkInv
<1>4. /\ status \in [Propositions -> Statuses] /\ h_max_cost \in [Propositions -> Nat]
      /\ priority_queue = {} /\ triggered_operators = {}
      /\ priority_queue \subseteq Nat \X Propositions /\ cost \in [Groups -> Nat]
      /\ base_cost \in [Groups -> Nat] /\ cost[GoalGroup] = 0
      /\ call_state \in State /\ total_cost \in Nat
      /\ h_max_supporter \in [RelaxedOps -> Propositions \cup {None}]
      /\ h_max_supporter_cost \in [RelaxedOps -> Distances]
  BY <1>1, <1>3 DEF LandmarkTypeOK, QueueOK
<1>5. /\ cut \subseteq RelaxedOps /\ CutGroups \subseteq Groups /\ GoalGroup \notin CutGroups
      /\ again \subseteq RelaxedOps /\ \A o \in cut : o.group \in CutGroups
  BY <1>2, <1>3, RelaxedTask DEF CutGroups, LandmarkTypeOK
<1>6. /\ CutCost \in Nat /\ CutCost # 0 /\ \A g \in CutGroups : CutCost <= cost[g]
  <2> DEFINE C == {cost[o.group] : o \in cut}
  <2>1. C \in SUBSET Nat /\ C # {} /\ \A k \in C : k > 0
    BY <1>2, <1>4, <1>5
  <2>2. CutCost = Min(C)
    BY <1>2 DEF CutCost
  <2>3. \A g \in CutGroups : cost[g] \in C
    BY DEF CutGroups
  <2> HIDE DEF C
  <2>4. \E n \in C : \A k \in C : n <= k
    BY <2>1, LeastNumber
  <2>5. Min(C) \in C /\ \A k \in C : Min(C) <= k
    BY <2>4 DEF Min
  <2>6. CutCost \in C /\ \A k \in C : CutCost <= k
    BY <2>2, <2>5
  <2>7. CutCost \in Nat /\ CutCost # 0
    BY <2>1, <2>6
  <2> QED
    BY <2>3, <2>6, <2>7
<1>7. PICK m : m = CutCost
  OBVIOUS
<1>8. PICK d : d = cost'
  OBVIOUS
<1>9. ASSUME NEW g \in Groups
      PROVE  d[g] \in Nat /\ cost[g] = d[g] + (IF g \in CutGroups THEN m ELSE 0) /\ d[g] <= cost[g]
             /\ (g \notin CutGroups => d[g] = cost[g])
  <2>1. d[g] = cost[g] - IF g \in CutGroups THEN m ELSE 0
    BY <1>1, <1>7, <1>8
  <2>2. cost[g] \in Nat /\ m \in Nat /\ (g \in CutGroups => m <= cost[g])
    BY <1>4, <1>6, <1>7
  <2> QED
    BY <2>1, <2>2
<1>10. d \in [Groups -> Nat] /\ d[GoalGroup] = 0 /\ m \in Nat
  <2>1. d = [g \in Groups |-> d[g]]
    BY <1>1, <1>8
  <2>2. GoalGroup \in Groups
    BY RelaxedTask
  <2> QED
    BY <1>4, <1>5, <1>6, <1>7, <1>9, <2>1, <2>2
<1>11. \A o \in again : /\ Supports(o) /\ h_max_supporter[o] # None
                         /\ h_max_supporter_cost[o] = h_max_cost[h_max_supporter[o]]
                         /\ h_max_supporter_cost[o] \in Nat
                         /\ o.group \in Groups /\ d[o.group] \in Nat
  BY <1>3, <1>10, RelaxedTask DEF IsJustified, Supports
<1>12. \A o \in cut : o \in again /\ \E q \in o.effects : InZone(q)
  BY <1>1, <1>3, <1>5 DEF SecondOK
<1>13. \A o \in RelaxedOps : h_max_supporter[o] # None /\ o \notin again => o.group \notin CutGroups
  OBVIOUS
<1> DEFINE offers == UNION {Offers(o, h_max_supporter_cost[o] + d[o.group]) : o \in again}
<1> HIDE DEF again
<1>14. /\ offers \in SUBSET (Propositions \X Nat)
       /\ \A z \in offers : \E o \in again :
             z[1] \in o.effects /\ z[2] = h_max_supporter_cost[o] + d[o.group]
       /\ \A o \in again : \A p \in o.effects : <<p, h_max_supporter_cost[o] + d[o.group]>> \in offers
  <2>1. ASSUME NEW z \in offers
        PROVE  /\ z \in Propositions \X Nat
               /\ \E o \in again : z[1] \in o.effects /\ z[2] = h_max_supporter_cost[o] + d[o.group]
    <3>1. PICK o \in again : z \in Offers(o, h_max_supporter_cost[o] + d[o.group])
      OBVIOUS
    <3>2. PICK p \in o.effects : z = <<p, h_max_supporter_cost[o] + d[o.group]>>
      BY <3>1 DEF Offers
    <3>3. p \in Propositions /\ h_max_supporter_cost[o] + d[o.group] \in Nat
      BY <1>5, <1>9, <1>11, RelaxedTask
    <3> QED
      BY <3>2, <3>3
  <2>2. \A o \in again : \A p \in o.effects : <<p, h_max_supporter_cost[o] + d[o.group]>> \in offers
    BY DEF Offers
  <2> QED
    BY <2>1, <2>2
<1>15. Enqueue(offers)
  BY <1>1, <1>8
<1> HIDE DEF offers
<1>16. /\ h_max_cost' \in [Propositions -> Nat] /\ status' \in [Propositions -> Statuses]
       /\ priority_queue' \subseteq Nat \X Propositions
       /\ \A r \in Propositions : IsKept(r) \/ IsLowered(r, offers)
       /\ \A z \in offers : IsReached(z[1])' /\ h_max_cost'[z[1]] <= z[2]
  BY <1>4, <1>14, <1>15, EnqueueFacts
<1>17. \A r \in Propositions : IsReached(r) => IsReached(r)' /\ h_max_cost'[r] <= h_max_cost[r]
  BY <1>4, <1>14, <1>15, EnqueueLowers
<1>18. ASSUME NEW r \in Propositions, IsLowered(r, offers) PROVE IsReached(r) /\ Waits(r)'
  <2>1. PICK o \in again : r \in o.effects
    BY <1>14, <1>18 DEF IsLowered
  <2>2. IsReached(r)
    BY <1>11, <2>1 DEF Supports
  <2>3. Waits(r)'
    BY <1>18 DEF IsLowered, Waits
  <2> QED
    BY <2>2, <2>3
<1>19. \A r \in Propositions : IsReached(r)' <=> IsReached(r)
  BY <1>16, <1>17, <1>18 DEF IsKept, IsReached
<1>20. LandmarkTypeOK'
  <2>1. cost' \in [Groups -> Nat] /\ cost'[GoalGroup] = 0 /\ total_cost' \in Nat
    BY <1>1, <1>4, <1>6, <1>8, <1>10
  <2> QED
    BY <1>1, <1>3, <1>16, <2>1 DEF LandmarkTypeOK
<1>21. QueueOK'
  <2>1. \A e \in priority_queue' : IsReached(e[2])' /\ h_max_cost'[e[2]] <= e[1]
    BY <1>3, <1>14, <1>15, QueueKept
  <2> QED
    BY <1>1, <1>4, <2>1 DEF QueueOK
\* Values
<1>22. /\ \A p \in Propositions : AtMost(HMax(call_state, d)[p], HMax(call_state, cost)[p])
       /\ HMax(call_state, d) \in Estimates /\ HMax(call_state, cost) \in Estimates
  <2>1. \A o \in RelaxedOps : d[o.group] <= cost[o.group]
    BY <1>9, RelaxedTask
  <2>2. \A p \in Propositions : AtMost(HMax(call_state, d)[p], HMax(call_state, cost)[p])
    BY <1>4, <1>10, <2>1, CheaperCosts
  <2>3. HMax(call_state, d) \in Estimates /\ HMax(call_state, cost) \in Estimates
    BY <1>4, <1>10, HMaxFacts DEF LowerEstimates
  <2> QED
    BY <2>2, <2>3
<1>23. ASSUME NEW o \in again, NEW q \in o.preconditions
       PROVE  AtMost(HMax(call_state, d)[q], h_max_supporter_cost[o])
  <2>1. q \in Propositions /\ IsReached(q) /\ h_max_cost[q] <= h_max_supporter_cost[o]
        /\ h_max_cost[q] \in Nat /\ h_max_supporter_cost[o] \in Nat
    BY <1>4, <1>5, <1>11, RelaxedTask DEF Supports
  <2>2. HMax(call_state, cost)[q] = h_max_cost[q]
    BY <1>3, <2>1 DEF Value
  <2>3. HMax(call_state, d)[q] \in Distances /\ AtMost(HMax(call_state, d)[q], h_max_cost[q])
    BY <1>22, <2>1, <2>2 DEF Estimates
  <2> QED
    BY <2>1, <2>3, InftyAssumption DEF AtMost, Distances
<1>24. ValuesOK'
  <2>1. \A z \in offers : AtMost(HMax(call_state, d)[z[1]], z[2])
    <3> SUFFICES ASSUME NEW z \in offers PROVE AtMost(HMax(call_state, d)[z[1]], z[2])
      OBVIOUS
    <3>1. PICK o \in again : z[1] \in o.effects /\ z[2] = h_max_supporter_cost[o] + d[o.group]
      BY <1>14
    <3>2. o \in RelaxedOps /\ h_max_supporter_cost[o] \in Nat
      BY <1>5, <1>11
    <3>3. AtMost(HMax(call_state, d)[z[1]], h_max_supporter_cost[o] + d[o.group])
      BY <1>4, <1>10, <1>23, <3>1, <3>2, OfferIsUpper
    <3> QED
      BY <3>1, <3>3
  <2>2. call_state' = call_state
    BY <1>1
  <2>3. UpperValues'
    BY <1>3, <1>8, <1>14, <1>15, <1>22, <2>1, <2>2, ValuesKept
  <2> QED
    BY <2>3 DEF ValuesOK
\* Supporters
<1>25. ASSUME NEW o \in again PROVE Supports(o)'
  <2>1. Supports(o) /\ h_max_supporter_cost[o] \in Nat /\ o \in RelaxedOps
        /\ o.preconditions \subseteq Propositions
    BY <1>5, <1>11, RelaxedTask
  <2>2. \A q \in o.preconditions : IsReached(q)' /\ h_max_cost'[q] <= h_max_supporter_cost[o]
    <3> SUFFICES ASSUME NEW q \in o.preconditions
                 PROVE  IsReached(q)' /\ h_max_cost'[q] <= h_max_supporter_cost[o]
      OBVIOUS
    <3>1. IsReached(q) /\ h_max_cost[q] <= h_max_supporter_cost[o]
      BY <2>1 DEF Supports
    <3>2. IsReached(q)' /\ h_max_cost'[q] <= h_max_cost[q] /\ h_max_cost'[q] \in Nat
          /\ h_max_cost[q] \in Nat
      BY <1>4, <1>16, <1>17, <2>1, <3>1
    <3> QED
      BY <2>1, <3>1, <3>2
  <2>3. \A p \in o.effects : IsReached(p)' /\ h_max_cost'[p] <= h_max_supporter_cost[o] + d[o.group]
    <3> SUFFICES ASSUME NEW p \in o.effects
                 PROVE  IsReached(p)' /\ h_max_cost'[p] <= h_max_supporter_cost[o] + d[o.group]
      OBVIOUS
    <3>1. PICK z \in offers : z = <<p, h_max_supporter_cost[o] + d[o.group]>>
      BY <1>14
    <3>2. z[1] = p /\ z[2] = h_max_supporter_cost[o] + d[o.group]
      BY <3>1
    <3>3. IsReached(z[1])' /\ h_max_cost'[z[1]] <= z[2]
      BY <1>16
    <3> QED
      BY <3>2, <3>3 DEF IsReached
  <2>4. h_max_supporter' = h_max_supporter /\ h_max_supporter_cost' = h_max_supporter_cost
    BY <1>1
  <2> QED
    BY <1>8, <2>1, <2>2, <2>3, <2>4 DEF Supports
<1>26. ASSUME NEW o \in RelaxedOps, h_max_supporter[o] # None
       PROVE  /\ Supports(o)'
              /\ h_max_supporter_cost'[o] = h_max_cost'[h_max_supporter'[o]] \/ IsPending(o)'
  <2>1. Supports(o) /\ h_max_supporter_cost[o] = h_max_cost[h_max_supporter[o]]
    BY <1>3, <1>26 DEF IsJustified
  <2>2. h_max_supporter' = h_max_supporter /\ h_max_supporter_cost' = h_max_supporter_cost
        /\ progress' = "incremental"
    BY <1>1
  <2>3. Supports(o)'
    <3>1. CASE o \in again
      BY <1>25, <3>1
    <3>2. CASE o \notin again
      <4>1. cost'[o.group] = cost[o.group]
        BY <1>8, <1>9, <1>26, <1>13, <3>2, RelaxedTask
      <4> QED
        BY <1>3, <1>14, <1>15, <2>1, <2>2, <4>1, SupportsKept
    <3> QED
      BY <3>1, <3>2
  <2>4. PICK r \in Propositions : r = h_max_supporter[o]
    BY <1>4, <1>26
  <2>5. CASE IsKept(r)
    BY <2>1, <2>2, <2>3, <2>4, <2>5 DEF IsKept
  <2>6. CASE IsLowered(r, offers)
    <3>1. Waits(r)'
      BY <1>18, <2>6
    <3> QED
      BY <2>2, <2>3, <2>4, <3>1 DEF IsPending, Waits
  <2> QED
    BY <1>16, <2>5, <2>6
<1>27. SupportersOK'
  <2>1. \A o \in RelaxedOps : h_max_supporter[o] = None => \E q \in o.preconditions : ~IsReached(q)'
    BY <1>3, <1>19, RelaxedTask DEF IsJustified
  <2>2. IsReached(artificial_goal)' /\ h_max_supporter' = h_max_supporter
    BY <1>1, <1>3, <1>19, RelaxedTask
  <2> QED
    BY <1>26, <2>1, <2>2 DEF SupportersOK
\* Costs
\* An operator that is used in one way only is in the cut, or out of reach.
<1>28. ASSUME UsedInOneWay(call_state)
       PROVE  /\ HMax(call_state, d)[artificial_goal] \in Nat
              /\ HMax(call_state, cost)[artificial_goal] \in Nat
              /\ HMax(call_state, cost)[artificial_goal] <= m + HMax(call_state, d)[artificial_goal]
  <2>1. HMax(call_state, cost)[artificial_goal] \in Nat
    BY <1>3, <1>4, RelaxedTask DEF Value
  <2>2. PICK R : R = ReachableWith(call_state, RelaxedOps)
    OBVIOUS
  <2>3. ASSUME NEW p \in Propositions, p \notin R PROVE HMax(call_state, cost)[p] = Infty
    <3>1. R \in SUBSET Propositions /\ Holding(call_state) \subseteq R /\ ClosedUnder(R, RelaxedOps)
      BY <1>4, <2>2, ReachableWithFacts
    <3> QED
      BY <1>4, <2>3, <3>1, OutsideIsDear
  <2>4. ASSUME NEW o \in cut PROVE o.preconditions \subseteq R
    <3> SUFFICES ASSUME NEW q \in o.preconditions PROVE q \in R
      OBVIOUS
    <3>1. q \in Propositions /\ IsReached(q) /\ h_max_cost[q] \in Nat
      BY <1>4, <1>5, <1>11, <1>12, RelaxedTask DEF Supports
    <3>2. HMax(call_state, cost)[q] # Infty
      BY <1>3, <3>1, InftyAssumption DEF Value
    <3> QED
      BY <2>3, <3>1, <3>2
  <2>5. ASSUME NEW o \in InGroups(CutGroups)
        PROVE  \E q \in o.preconditions :
                  AtMost(HMax(call_state, cost)[artificial_goal],
                         Plus(cost[o.group], HMax(call_state, cost)[q]))
    <3>1. CASE o \in cut
      <4>1. PICK q \in o.preconditions : q = h_max_supporter[o]
        BY <1>11, <1>12, <3>1 DEF Supports
      <4>2. PICK p \in o.effects : InZone(p)
        BY <1>12, <3>1
      <4>3. p \in Propositions /\ q \in Propositions /\ cost[o.group] \in Nat
        BY <1>4, <1>5, <3>1, RelaxedTask
      <4>4. /\ IsReached(p) /\ IsReached(q) /\ h_max_cost[p] \in Nat /\ h_max_cost[q] \in Nat
            /\ h_max_cost[p] <= h_max_cost[q] + cost[o.group]
        BY <1>4, <1>11, <1>12, <3>1, <4>1, <4>3 DEF Supports
      <4>5. HMax(call_state, cost)[p] = h_max_cost[p] /\ HMax(call_state, cost)[q] = h_max_cost[q]
        BY <1>3, <4>3, <4>4 DEF Value
      <4>6. AtMost(HMax(call_state, cost)[artificial_goal], HMax(call_state, cost)[p])
        BY <1>1, <1>3, <4>2, <4>3 DEF SecondOK
      <4>7. AtMost(HMax(call_state, cost)[artificial_goal],
                   Plus(cost[o.group], HMax(call_state, cost)[q]))
        BY <2>1, <4>3, <4>4, <4>5, <4>6, InftyAssumption DEF AtMost, Plus
      <4> QED
        BY <4>7
    <3>2. CASE o \notin cut
      <4>1. PICK x \in cut : x.group = o.group
        BY DEF InGroups, CutGroups
      <4>2. x \in RelaxedOps /\ o \in RelaxedOps /\ x # o
        BY <1>5, <3>2 DEF InGroups
      <4>3. ~(o.preconditions \subseteq R)
        BY <1>28, <2>2, <2>4, <4>1, <4>2 DEF UsedInOneWay
      <4>4. PICK q \in o.preconditions : q \notin R
        BY <4>3
      <4>5. HMax(call_state, cost)[q] = Infty
        BY <2>3, <4>2, <4>4, RelaxedTask
      <4>6. AtMost(HMax(call_state, cost)[artificial_goal],
                   Plus(cost[o.group], HMax(call_state, cost)[q]))
        BY <4>5 DEF AtMost, Plus
      <4> QED
        BY <4>6
    <3> QED
      BY <3>1, <3>2
  <2>6. \A g \in Groups : cost[g] = d[g] + (IF g \in CutGroups THEN m ELSE 0)
    BY <1>9
  <2>7. /\ call_state \in State /\ cost \in [Groups -> Nat] /\ d \in [Groups -> Nat] /\ m \in Nat
        /\ CutGroups \in SUBSET Groups
    BY <1>4, <1>5, <1>10
  <2> QED
    BY <2>1, <2>5, <2>6, <2>7, GoalFallsByM
<1>29. ASSUME UsedInOneWay(call_state)
       PROVE  AtMost(HMax(call_state, base_cost)[artificial_goal],
                     Plus(total_cost', HMax(call_state, d)[artificial_goal]))
  <2>1. AtMost(HMax(call_state, base_cost)[artificial_goal],
               Plus(total_cost, HMax(call_state, cost)[artificial_goal]))
    BY <1>1, <1>3, <1>29 DEF CostsOK
  <2>2. HMax(call_state, base_cost)[artificial_goal] \in Distances
    <3>1. artificial_goal \in Propositions
      BY RelaxedTask
    <3> QED
      BY <1>4, <3>1, HMaxFacts DEF LowerEstimates, Estimates
  <2>3. total_cost' = total_cost + m
    BY <1>1, <1>7
  <2>4. PICK a, b, e : /\ a = HMax(call_state, base_cost)[artificial_goal]
                       /\ b = HMax(call_state, cost)[artificial_goal]
                       /\ e = HMax(call_state, d)[artificial_goal]
    OBVIOUS
  <2>5. b \in Nat /\ e \in Nat /\ b <= m + e
    BY <1>28, <1>29, <2>4
  <2>6. a \in Nat /\ a <= total_cost + b
    BY <1>4, <2>1, <2>2, <2>4, <2>5, InftyAssumption DEF AtMost, Plus, Distances
  <2>7. a <= (total_cost + m) + e
    BY <1>4, <1>10, <2>5, <2>6
  <2>8. AtMost(a, Plus(total_cost', e))
    BY <1>4, <1>10, <2>3, <2>5, <2>6, <2>7, InftyAssumption DEF AtMost, Plus
  <2> QED
    BY <2>4, <2>8
<1>30. ASSUME NEW ops \in RelaxedPlans(call_state)
       PROVE  total_cost' + CostOf(d, ops) <= CostOf(base_cost, ops)
  <2>1. /\ ops \in SUBSET Op
        /\ artificial_goal \in ReachableWith(call_state, InGroups(ops \cup {GoalGroup}))
    BY DEF RelaxedPlans
  <2>2. PICK g \in ops : g \in CutGroups
    <3>1. InGroups(ops \cup {GoalGroup}) \subseteq RelaxedOps
      BY DEF InGroups
    <3>2. ~(InGroups(ops \cup {GoalGroup}) \subseteq RelaxedOps \ cut)
      BY <1>2, <2>1
    <3>3. PICK o \in cut : o.group \in ops \cup {GoalGroup}
      BY <3>1, <3>2 DEF InGroups
    <3> QED
      BY <1>5, <3>3
  <2>3. \A h \in Groups : cost[h] = d[h] + (IF h \in CutGroups THEN m ELSE 0)
    BY <1>9
  <2>4. /\ CostOf(cost, ops) \in Nat /\ CostOf(d, ops) \in Nat
        /\ m + CostOf(d, ops) <= CostOf(cost, ops)
    BY <1>4, <1>10, <2>1, <2>2, <2>3, CostReduced
  <2>5. total_cost + CostOf(cost, ops) <= CostOf(base_cost, ops)
    BY <1>1, <1>3 DEF CostsOK
  <2>6. total_cost' = total_cost + m /\ CostOf(base_cost, ops) \in Nat
    BY <1>1, <1>4, <1>7, <2>1, CostIsNat
  <2> QED
    BY <1>4, <1>10, <2>4, <2>5, <2>6
<1>31. total_cost' # 0
  BY <1>1, <1>4, <1>6
<1>32. CostsOK'
  BY <1>1, <1>8, <1>29, <1>30, <1>31 DEF CostsOK
<1>33. FirstOK' /\ SecondOK' /\ ResultOK'
  BY <1>1 DEF FirstOK, SecondOK, ResultOK
<1> QED
  BY <1>20, <1>21, <1>24, <1>27, <1>32, <1>33 DEF LandmarkInv

-----------------------------------------------------------------------------
(***************************************************************************)
(* Theorems                                                                *)
(***************************************************************************)
\* Through every call of compute_landmarks the values bound those of h^max
\* from above, supporters justify them, and the costs of the cuts so far and
\* the costs that are left add up.
THEOREM LandmarksInvariant == LandmarksSpec => []LandmarkInv
<1>1. LandmarkInv /\ [LandmarksNext]_landmark_vars => LandmarkInv'
  <2> SUFFICES ASSUME LandmarkInv, [LandmarksNext]_landmark_vars PROVE LandmarkInv'
    OBVIOUS
  <2>1. ASSUME NEW s \in State, ComputeLandmarks(s) PROVE LandmarkInv'
    BY <2>1, ComputeLandmarksKeeps
  <2>2. CASE Pop
    BY <2>2, PopKeeps
  <2>3. CASE FirstDone
    BY <2>3, FirstDoneKeeps
  <2>4. ASSUME NEW o \in RelaxedOps, Trigger(o) PROVE LandmarkInv'
    BY <2>4, TriggerKeeps
  <2>5. ASSUME NEW o \in RelaxedOps, Update(o) PROVE LandmarkInv'
    BY <2>5, UpdateKeeps
  <2>6. CASE StartRound
    BY <2>6, StartRoundKeeps
  <2>7. CASE SecondExploration
    BY <2>7, SecondExplorationKeeps
  <2>8. CASE ApplyCut
    BY <2>8, ApplyCutKeeps
  <2>9. CASE RoundDone
    BY <2>9, RoundDoneKeeps
  <2>10. CASE Done
    BY <2>10, LandmarksDone
  <2>11. CASE UNCHANGED landmark_vars
    BY <2>11, LandmarksStutter
  <2> QED
    BY <2>1, <2>2, <2>3, <2>4, <2>5, <2>6, <2>7, <2>8, <2>9, <2>10, <2>11
       DEF LandmarksNext, Compute
<1> QED
  BY <1>1, LandmarksStart, PTL DEF LandmarksSpec

\* The incremental update of h^max (first_exploration_incremental) finds the
\* values that a computation from nothing would find, and dearest supporters.
THEOREM HMaxStaysExact == LandmarksSpec => []HMaxIsExact
<1>1. LandmarkInv => HMaxIsExact
  <2> SUFFICES ASSUME LandmarkInv, progress = "round" PROVE HMaxIsExact
    BY DEF HMaxIsExact
  <2>1. /\ \A p \in Propositions : HMax(call_state, cost)[p] = Value[p]
        /\ \A o \in RelaxedOps : IsJustified(o)
    BY SteadyValues
  <2>2. \A p \in Propositions :
           HMax(call_state, cost)[p] = IF status[p] = "unreached" THEN Infty ELSE h_max_cost[p]
    BY <2>1 DEF Value, IsReached
  <2>3. ASSUME NEW o \in RelaxedOps
        PROVE  IF h_max_supporter[o] = None
               THEN \E q \in o.preconditions : status[q] = "unreached"
               ELSE /\ h_max_supporter_cost[o] = HMax(call_state, cost)[h_max_supporter[o]]
                    /\ \A q \in o.preconditions :
                          AtMost(HMax(call_state, cost)[q], h_max_supporter_cost[o])
    <3>1. o.preconditions \subseteq Propositions
      BY RelaxedTask
    <3>2. CASE h_max_supporter[o] = None
      BY <2>1, <3>2 DEF IsJustified, IsReached
    <3>3. CASE h_max_supporter[o] # None
      <4>1. /\ Supports(o) /\ h_max_supporter_cost[o] = h_max_cost[h_max_supporter[o]]
        BY <2>1, <3>3 DEF IsJustified
      <4>2. \A q \in o.preconditions :
               IsReached(q) /\ HMax(call_state, cost)[q] = h_max_cost[q] /\ h_max_cost[q] \in Nat
               /\ h_max_cost[q] <= h_max_supporter_cost[o]
        BY <2>2, <3>1, <4>1 DEF Supports, IsReached, LandmarkInv, LandmarkTypeOK
      <4>3. h_max_supporter[o] \in o.preconditions /\ h_max_supporter_cost[o] \in Nat
        BY <4>1 DEF Supports
      <4> QED
        BY <3>3, <4>1, <4>2, <4>3, InftyAssumption DEF AtMost
    <3> QED
      BY <3>2, <3>3
  <2> QED
    BY <2>2, <2>3 DEF HMaxIsExact
<1> QED
  BY <1>1, LandmarksInvariant, PTL

\* Every cut that second_exploration finds is a disjunctive action landmark.
THEOREM CutsAreLandmarks == LandmarksSpec => []CutIsLandmark
<1>1. LandmarkInv => CutIsLandmark
  BY CutFacts DEF CutIsLandmark
<1> QED
  BY <1>1, LandmarksInvariant, PTL

\* compute_landmarks returns an admissible estimate that is 0 only if h^max is,
\* and at least h^max if no operator has to be used in two ways; it reports
\* exactly the states without a relaxed plan as dead ends.
THEOREM EstimatesAreBounded == LandmarksSpec => []EstimateIsBounded
<1>1. LandmarkInv => EstimateIsBounded
  <2> SUFFICES ASSUME LandmarkInv PROVE EstimateIsBounded
    OBVIOUS
  <2>1. /\ call_state \in State /\ cost \in [Groups -> Nat] /\ base_cost \in [Groups -> Nat]
        /\ total_cost \in Nat /\ CostsOK /\ ResultOK
    BY DEF LandmarkInv, LandmarkTypeOK
  <2>2. ASSUME progress = "done"
        PROVE  /\ total_cost = 0 => HMax(call_state, base_cost)[artificial_goal] = 0
               /\ UsedInOneWay(call_state) =>
                     AtMost(HMax(call_state, base_cost)[artificial_goal], total_cost)
               /\ RelaxedPlans(call_state) # {}
               /\ \A ops \in RelaxedPlans(call_state) : total_cost <= CostOf(base_cost, ops)
    <3>1. HMax(call_state, cost)[artificial_goal] = 0
      BY <2>1, <2>2 DEF ResultOK
    <3>2. /\ total_cost = 0 => cost = base_cost
          /\ UsedInOneWay(call_state) =>
                AtMost(HMax(call_state, base_cost)[artificial_goal], Plus(total_cost, 0))
          /\ \A ops \in RelaxedPlans(call_state) :
                total_cost + CostOf(cost, ops) <= CostOf(base_cost, ops)
      BY <2>1, <2>2, <3>1 DEF CostsOK
    <3>3. UsedInOneWay(call_state) => AtMost(HMax(call_state, base_cost)[artificial_goal], total_cost)
      BY <2>1, <3>2, InftyAssumption DEF Plus
    <3>4. artificial_goal \in ReachableWith(call_state, RelaxedOps)
      <4> DEFINE R == ReachableWith(call_state, RelaxedOps)
      <4>1. R \in SUBSET Propositions /\ Holding(call_state) \subseteq R /\ ClosedUnder(R, RelaxedOps)
        BY <2>1, ReachableWithFacts
      <4> HIDE DEF R
      <4>2. artificial_goal \notin R => HMax(call_state, cost)[artificial_goal] = Infty
        <5>1. artificial_goal \in Propositions
          BY RelaxedTask
        <5>2. call_state \in State /\ cost \in [Groups -> Nat]
          BY <2>1
        <5> QED
          BY <4>1, <5>1, <5>2, OutsideIsDear
      <4>3. artificial_goal \in R
        BY <3>1, <4>2, InftyAssumption
      <4> QED
        BY <4>3 DEF R
    <3>5. Op \in RelaxedPlans(call_state)
      <4>1. InGroups(Op \cup {GoalGroup}) = RelaxedOps
        BY RelaxedTask DEF InGroups
      <4> QED
        BY <3>4, <4>1 DEF RelaxedPlans
    <3>6. ASSUME NEW ops \in RelaxedPlans(call_state) PROVE total_cost <= CostOf(base_cost, ops)
      <4>1. CostOf(cost, ops) \in Nat /\ CostOf(base_cost, ops) \in Nat
        BY <2>1, CostIsNat DEF RelaxedPlans
      <4> QED
        BY <2>1, <3>2, <4>1
    <3> QED
      BY <3>1, <3>2, <3>3, <3>5, <3>6
  <2>3. ASSUME progress = "dead_end" PROVE RelaxedPlans(call_state) = {}
    <3> SUFFICES ASSUME NEW ops \in RelaxedPlans(call_state) PROVE FALSE
      OBVIOUS
    <3>1. /\ InGroups(ops \cup {GoalGroup}) \in SUBSET RelaxedOps
          /\ artificial_goal \in ReachableWith(call_state, InGroups(ops \cup {GoalGroup}))
      BY DEF RelaxedPlans, InGroups
    <3>2. HMax(call_state, cost)[artificial_goal] # Infty
      BY <2>1, <3>1, ReachedIsFinite
    <3> QED
      BY <2>1, <2>3, <3>2 DEF ResultOK
  <2> QED
    BY <2>2, <2>3 DEF EstimateIsBounded
<1> QED
  BY <1>1, LandmarksInvariant, PTL
=============================================================================
