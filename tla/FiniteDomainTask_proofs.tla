---------------------- MODULE FiniteDomainTask_proofs ----------------------
(***************************************************************************)
(* Proofs about the components that work on a task of finite-domain        *)
(* variables.                                                              *)
(*                                                                         *)
(* Merge-and-shrink: for every task without axioms and every combination   *)
(* of options, merge orders, partitions a shrink strategy computes and     *)
(* moments at which the time limit strikes,                                *)
(*  - the factors stay abstractions of the task (Homomorphic),             *)
(*  - the distances a factor carries are its distances                     *)
(*    (DistancesStayCurrent),                                              *)
(*  - the heuristic is admissible and consistent (AlwaysAdmissible),       *)
(*  - a label reduction to the fixpoint leaves nothing to reduce           *)
(*    (AlwaysReachesFixpoint),                                             *)
(*  - with exact bisimulations, and each operator deterministic in each    *)
(*    factor, the heuristic is perfect (AlwaysPerfect).                    *)
(* Each invariant is part of the next: MSInv says of every factor that it  *)
(* keeps transitions and goals, and of labels what a reduction has to know *)
(* of them; DistanceInv adds shapes and distances; AdmissibleInv adds what *)
(* may have been pruned; PerfectInv adds that the factors together step    *)
(* only where an operator does, as long as nothing inexact has been done.  *)
(* FixpointInv adds to MSInv what an iteration of the label reduction      *)
(* knows of the ones before it.                                            *)
(*                                                                         *)
(* Stubborn sets: for every task, whatever an earlier call has left        *)
(* behind,                                                                 *)
(*  - every plan contains a stubborn operator (PlansMeetTheSet),           *)
(*  - if operators respect the conditions of each other's effects, what    *)
(*    remains commutes with what is left out (RemainingCommutes) and       *)
(*    starts a cheapest plan (PlanKept).                                   *)
(* PruningInv says of each operator handled what the iteration has already *)
(* done for it, and of the others where they wait.                         *)
(***************************************************************************)
EXTENDS MergeAndShrink, StubbornSets, FiniteSetTheorems, SequenceTheorems,
        WellFoundedInduction, TLAPS

\* A factor has the fields it is created with.
IsRecord(f) ==
    f = [states |-> f.states, init |-> f.init, goals |-> f.goals, trans |-> f.trans,
         alpha |-> f.alpha, goal_dist |-> f.goal_dist, init_dist |-> f.init_dist]

KeepsTransitions(f, L) ==
    \A l \in L : \A o \in l : \A s \in State :
        Applicable(s, o) /\ f.alpha[s] # Pruned /\ f.alpha[Result(s, o)] # Pruned
        => <<f.alpha[s], f.alpha[Result(s, o)]>> \in f.trans[l]

KeepsGoals(f) == \A s \in GoalStates : f.alpha[s] # Pruned => f.alpha[s] \in f.goals

FactorOK(f, L) == IsRecord(f) /\ KeepsTransitions(f, L) /\ KeepsGoals(f)

\* Labels are disjoint sets of operators of equal cost.
LabelSetOK(L) ==
    /\ \A l \in L : l # {} /\ l \subseteq Op
    /\ \A k, l \in L : k # l => k \cap l = {}
    /\ \A l \in L : \A o, q \in l : Cost[o] = Cost[q]

LabelsOK == LabelSetOK(labels)
FactorsOK == \A i \in active : FactorOK(fts[i], labels)

\* The pair to be merged consists of two factors.
IndicesOK ==
    phase \in {"reduce_before_shrinking", "shrink", "reduce_before_merging", "merge"} =>
        \E i, j \in active : i # j /\ merge_indices = <<i, j>>

IsSequence(f) == \E S : f \in Seq(S)

SequenceOK == IsSequence(fts) /\ active \subseteq 1..Len(fts)

\* Before the atomic factors are created.
CreationOK ==
    phase \in {"data", "irrelevant", "create"} =>
        /\ labels = InitialLabels
        /\ active = {}
        /\ valid \in 0..Cardinality(Var)
        /\ position \in 1..(Cardinality(Var) + 1)

MSInv ==
    /\ config \in Configurations
    /\ LabelsOK /\ FactorsOK /\ IndicesOK /\ SequenceOK /\ CreationOK

-----------------------------------------------------------------------------
LEMMA VarFinite == Cardinality(Var) \in Nat
  BY TaskAssumption, FS_CardinalityType

\* The effects of an operator on a variable are values of that variable.
LEMMA FiredValue ==
  ASSUME NEW o \in Op, NEW v \in Var, NEW s, NEW e \in Fired(s, o, v)
  PROVE  e.fact[2] \in Domain[v]
<1>1. e \in [fact : Facts, cond : SUBSET Facts] /\ e.fact[1] = v
  BY TaskAssumption DEF Fired
<1>2. PICK w \in Var : e.fact \in {w} \X Domain[w]
  BY <1>1 DEF Facts
<1> QED
  BY <1>1, <1>2

LEMMA ResultInState ==
  ASSUME NEW s \in State, NEW o \in Op
  PROVE  Result(s, o) \in State
<1> DEFINE r == Result(s, o)
<1>1. ASSUME NEW v \in Var PROVE r[v] \in Domain[v]
  <2>1. CASE Fired(s, o, v) = {}
    BY <2>1 DEF Result, State
  <2>2. CASE Fired(s, o, v) # {}
    <3>1. PICK e \in Fired(s, o, v) : r[v] = e.fact[2]
      BY <2>2 DEF Result
    <3> QED
      BY <3>1, FiredValue
  <2> QED
    BY <2>1, <2>2
<1>2. r = [v \in Var |-> r[v]]
  BY DEF Result
<1> HIDE DEF r
<1>3. r \in [Var -> UNION {Domain[v] : v \in Var}]
  BY <1>1, <1>2
<1>4. r \in State
  BY <1>1, <1>3 DEF State
<1> QED
  BY <1>4 DEF r

-----------------------------------------------------------------------------
(***************************************************************************)
(* Operations on one factor                                                *)
(***************************************************************************)
\* Distances are no part of the abstraction.
LEMMA DistancesKeep ==
  ASSUME NEW f, NEW L, NEW d, NEW e, FactorOK(f, L)
  PROVE  FactorOK(SetDistances(f, d, e), L)
<1> DEFINE g == SetDistances(f, d, e)
<1>1. PICK x, y : g = [f EXCEPT !.goal_dist = x, !.init_dist = y]
  BY DEF SetDistances
<1> HIDE DEF g
<1>2. IsRecord(f)
  BY DEF FactorOK
<1>3. /\ g.trans = f.trans /\ g.alpha = f.alpha /\ g.goals = f.goals
      /\ IsRecord(g)
  BY <1>1, <1>2 DEF IsRecord
<1>4. FactorOK(g, L)
  BY <1>3 DEF FactorOK, KeepsTransitions, KeepsGoals
<1> QED
  BY <1>4 DEF g

\* An abstraction maps transitions and goals as it maps states, whatever its
\* classes are.
LEMMA AbstractionKeeps ==
  ASSUME NEW f, NEW classes, FactorOK(f, labels), LabelsOK
  PROVE  FactorOK(Abstracted(f, classes), labels)
<1> DEFINE m == Mapping(f.states, classes)
           image == [states |-> {m[s] : s \in f.states} \ {Pruned},
                     init |-> m[f.init],
                     goals |-> AbstractGoals(f, m),
                     trans |-> [l \in labels |->
                         {<<m[p[1]], m[p[2]]>> :
                             p \in {q \in f.trans[l] : m[q[1]] # Pruned /\ m[q[2]] # Pruned}}],
                     alpha |-> [s \in State |-> IF f.alpha[s] = Pruned THEN Pruned
                                                ELSE m[f.alpha[s]]],
                     goal_dist |-> NotComputed,
                     init_dist |-> NotComputed]
<1> HIDE DEF m
<1>1. /\ image.goals = AbstractGoals(f, m)
      /\ image.trans = [l \in labels |->
             {<<m[p[1]], m[p[2]]>> :
                 p \in {q \in f.trans[l] : m[q[1]] # Pruned /\ m[q[2]] # Pruned}}]
      /\ image.alpha = [s \in State |-> IF f.alpha[s] = Pruned THEN Pruned ELSE m[f.alpha[s]]]
      /\ IsRecord(image)
  BY DEF IsRecord
<1> HIDE DEF image
<1>2. KeepsTransitions(image, labels)
  <2> SUFFICES ASSUME NEW l \in labels, NEW o \in l, NEW s \in State, Applicable(s, o),
                      image.alpha[s] # Pruned, image.alpha[Result(s, o)] # Pruned
               PROVE  <<image.alpha[s], image.alpha[Result(s, o)]>> \in image.trans[l]
    BY DEF KeepsTransitions
  <2> DEFINE t == Result(s, o)
  <2>1. t \in State
    BY ResultInState DEF LabelsOK, LabelSetOK
  <2>2. /\ f.alpha[s] # Pruned /\ image.alpha[s] = m[f.alpha[s]]
        /\ f.alpha[t] # Pruned /\ image.alpha[t] = m[f.alpha[t]]
    BY <1>1, <2>1
  <2>3. <<f.alpha[s], f.alpha[t]>> \in f.trans[l]
    BY <2>2 DEF FactorOK, KeepsTransitions
  <2> DEFINE p == <<f.alpha[s], f.alpha[t]>>
  <2>4. p \in {q \in f.trans[l] : m[q[1]] # Pruned /\ m[q[2]] # Pruned}
    BY <2>2, <2>3
  <2>5. <<m[p[1]], m[p[2]]>> \in image.trans[l]
    BY <1>1, <2>4
  <2> QED
    BY <2>2, <2>5
<1>3. KeepsGoals(image)
  BY <1>1 DEF KeepsGoals, FactorOK, AbstractGoals, GoalStates
<1>4. FactorOK(image, labels)
  BY <1>1, <1>2, <1>3 DEF FactorOK
<1>5. \/ Abstracted(f, classes) = f
      \/ \E d, e : Abstracted(f, classes) = SetDistances(image, d, e)
  BY DEF Abstracted, WithDistances, image, m
<1> QED
  BY <1>4, <1>5, DistancesKeep

LEMMA PruningKeeps ==
  ASSUME NEW f, FactorOK(f, labels), LabelsOK
  PROVE  FactorOK(PruneStep(f), labels)
BY AbstractionKeeps DEF PruneStep

LEMMA ProductKeeps ==
  ASSUME NEW f, NEW g, FactorOK(f, labels), FactorOK(g, labels), LabelsOK
  PROVE  FactorOK(Product(f, g), labels)
<1> DEFINE h == [states |-> f.states \X g.states,
                 init |-> <<f.init, g.init>>,
                 goals |-> f.goals \X g.goals,
                 trans |-> [l \in labels |-> {<<<<p[1], q[1]>>, <<p[2], q[2]>>>> :
                                                 p \in f.trans[l], q \in g.trans[l]}],
                 alpha |-> [s \in State |-> IF f.alpha[s] = Pruned \/ g.alpha[s] = Pruned
                                            THEN Pruned ELSE <<f.alpha[s], g.alpha[s]>>],
                 goal_dist |-> NotComputed,
                 init_dist |-> NotComputed]
<1>1. /\ IsRecord(h)
      /\ h.goals = f.goals \X g.goals
      /\ h.trans = [l \in labels |-> {<<<<p[1], q[1]>>, <<p[2], q[2]>>>> :
                                         p \in f.trans[l], q \in g.trans[l]}]
      /\ h.alpha = [s \in State |-> IF f.alpha[s] = Pruned \/ g.alpha[s] = Pruned
                                    THEN Pruned ELSE <<f.alpha[s], g.alpha[s]>>]
  BY DEF IsRecord
<1> HIDE DEF h
<1>2. KeepsTransitions(h, labels)
  <2> SUFFICES ASSUME NEW l \in labels, NEW o \in l, NEW s \in State, Applicable(s, o),
                      h.alpha[s] # Pruned, h.alpha[Result(s, o)] # Pruned
               PROVE  <<h.alpha[s], h.alpha[Result(s, o)]>> \in h.trans[l]
    BY DEF KeepsTransitions
  <2> DEFINE t == Result(s, o)
  <2>1. t \in State
    BY ResultInState DEF LabelsOK, LabelSetOK
  <2>2. /\ f.alpha[s] # Pruned /\ g.alpha[s] # Pruned /\ h.alpha[s] = <<f.alpha[s], g.alpha[s]>>
        /\ f.alpha[t] # Pruned /\ g.alpha[t] # Pruned /\ h.alpha[t] = <<f.alpha[t], g.alpha[t]>>
    BY <1>1, <2>1
  <2> DEFINE p == <<f.alpha[s], f.alpha[t]>>
             q == <<g.alpha[s], g.alpha[t]>>
  <2>3. p \in f.trans[l] /\ q \in g.trans[l]
    BY <2>2 DEF FactorOK, KeepsTransitions
  <2>4. <<<<p[1], q[1]>>, <<p[2], q[2]>>>> \in h.trans[l]
    <3> HIDE DEF p, q
    <3> QED
      BY <1>1, <2>3
  <2> QED
    BY <2>2, <2>4
<1>3. KeepsGoals(h)
  <2> SUFFICES ASSUME NEW s \in GoalStates, h.alpha[s] # Pruned PROVE h.alpha[s] \in h.goals
    BY DEF KeepsGoals
  <2>1. f.alpha[s] # Pruned /\ g.alpha[s] # Pruned /\ h.alpha[s] = <<f.alpha[s], g.alpha[s]>>
    BY <1>1 DEF GoalStates
  <2>2. f.alpha[s] \in f.goals /\ g.alpha[s] \in g.goals
    BY <2>1 DEF FactorOK, KeepsGoals
  <2> QED
    BY <1>1, <2>1, <2>2
<1>4. FactorOK(WithDistances(h, labels), labels)
  <2>1. FactorOK(h, labels)
    BY <1>1, <1>2, <1>3 DEF FactorOK
  <2> QED
    BY <2>1, DistancesKeep DEF WithDistances
<1> QED
  BY <1>4 DEF Product, h

\* The atomic factor of a variable has a transition for every step of the
\* task: an effect on the variable fires, or fails, or there is none.
LEMMA AtomicTransComplete ==
  ASSUME NEW v \in Var, NEW o \in Op, NEW s \in State, Applicable(s, o)
  PROVE  <<s[v], Result(s, o)[v]>> \in AtomicTrans(v, o)
<1> DEFINE pre == {f[2] : f \in {g \in Pre[o] : g[1] = v}}
           from == IF pre = {} THEN Domain[v] ELSE pre
           effects == {e \in Effects[o] : e.fact[1] = v}
           MayFire(x, e) == \A f \in e.cond : f[1] = v => f[2] = x
           MayFail(x, e) == \E f \in e.cond : f[1] # v \/ f[2] # x
           x == s[v]
           y == Result(s, o)[v]
           fire == UNION {{<<z, e.fact[2]>> : z \in {w \in from : MayFire(w, e)}} : e \in effects}
           fail == {<<z, z>> : z \in {w \in from : \E e \in effects : MayFail(w, e)}}
<1>1. x \in from
  <2>1. CASE pre = {}
    BY <2>1 DEF State
  <2>2. CASE pre # {}
    <3>1. PICK g \in Pre[o] : g[1] = v
      BY <2>2
    <3>2. s[v] = g[2]
      BY <3>1 DEF Applicable, Holds
    <3> QED
      BY <2>2, <3>1, <3>2
  <2> QED
    BY <2>1, <2>2
<1>2. AtomicTrans(v, o) = IF effects = {} THEN {<<z, z>> : z \in from} ELSE fire \cup fail
  BY DEF AtomicTrans
<1>3. CASE Fired(s, o, v) = {}
  <2>1. y = x
    BY <1>3 DEF Result
  <2>2. CASE effects = {}
    <3>1. <<x, x>> \in {<<z, z>> : z \in from}
      BY <1>1
    <3> QED
      BY <1>2, <2>1, <2>2, <3>1
  <2>3. CASE effects # {}
    <3>1. PICK e \in effects : TRUE
      BY <2>3
    <3>2. ~Holds(s, e.cond)
      BY <1>3, <3>1 DEF Fired
    <3>3. PICK f \in e.cond : s[f[1]] # f[2]
      BY <3>2 DEF Holds
    <3>4. MayFail(x, e)
      BY <3>3
    <3>5. <<x, x>> \in fail
      <4> HIDE DEF from, effects, MayFail, x
      <4> QED
        BY <1>1, <3>1, <3>4
    <3> QED
      BY <1>2, <2>1, <2>3, <3>5
  <2> QED
    BY <2>2, <2>3
<1>4. CASE Fired(s, o, v) # {}
  <2>1. PICK e \in Fired(s, o, v) : y = e.fact[2]
    BY <1>4 DEF Result
  <2>2. e \in effects /\ Holds(s, e.cond)
    BY DEF Fired
  <2>3. MayFire(x, e)
    BY <2>2 DEF Holds
  <2>4. <<x, y>> \in fire
    <3> HIDE DEF from, effects, MayFire, x, y
    <3> QED
      BY <1>1, <2>1, <2>2, <2>3
  <2> QED
    BY <1>2, <2>2, <2>4
<1> QED
  BY <1>3, <1>4

LEMMA AtomicKeeps ==
  ASSUME NEW v \in Var
  PROVE  FactorOK(WithDistances(AtomicFactor(v), InitialLabels), InitialLabels)
<1> DEFINE f == AtomicFactor(v)
<1>1. /\ IsRecord(f)
      /\ f.goals = {x \in Domain[v] : \A g \in Goal : g[1] = v => g[2] = x}
      /\ f.trans = [l \in InitialLabels |-> AtomicTrans(v, CHOOSE o \in l : TRUE)]
      /\ f.alpha = [s \in State |-> s[v]]
  BY DEF IsRecord, AtomicFactor
<1> HIDE DEF f
<1>2. KeepsTransitions(f, InitialLabels)
  <2> SUFFICES ASSUME NEW l \in InitialLabels, NEW o \in l, NEW s \in State, Applicable(s, o)
               PROVE  <<f.alpha[s], f.alpha[Result(s, o)]>> \in f.trans[l]
    BY DEF KeepsTransitions
  <2>1. o \in Op /\ l = {o}
    BY DEF InitialLabels
  <2>2. (CHOOSE q \in l : TRUE) = o
    BY <2>1
  <2>3. Result(s, o) \in State
    BY <2>1, ResultInState
  <2>4. f.alpha[s] = s[v] /\ f.alpha[Result(s, o)] = Result(s, o)[v]
    BY <1>1, <2>3
  <2>5. f.trans[l] = AtomicTrans(v, o)
    BY <1>1, <2>2
  <2> QED
    BY <2>1, <2>4, <2>5, AtomicTransComplete
<1>3. KeepsGoals(f)
  BY <1>1 DEF KeepsGoals, GoalStates, Holds, State
<1>4. FactorOK(f, InitialLabels)
  BY <1>1, <1>2, <1>3 DEF FactorOK
<1> QED
  BY <1>4, DistancesKeep DEF WithDistances, f

LEMMA InitialLabelsOK == LabelSetOK(InitialLabels)
  BY DEF LabelSetOK, InitialLabels

-----------------------------------------------------------------------------
(***************************************************************************)
(* Label reduction                                                         *)
(***************************************************************************)
LEMMA CostOfLabel ==
  ASSUME LabelsOK, NEW k \in labels, NEW o \in k
  PROVE  LabelCost(k) = Cost[o]
BY DEF LabelsOK, LabelSetOK, LabelCost

\* The labels put together are a class of an equivalence relation.
LEMMA ClassesOfLabels ==
  ASSUME NEW i, NEW K \in LabelMapping(i)
  PROVE  /\ K \subseteq labels /\ K # {}
         /\ \A k, l \in K : Combinable(i, k, l)
         /\ \A M \in LabelMapping(i) : M \cap K # {} => M = K
<1>1. \A k, l, m : Combinable(i, k, l) /\ Combinable(i, m, l) => Combinable(i, k, m)
  BY DEF Combinable
<1>2. \A k : Combinable(i, k, k)
  BY DEF Combinable
<1>3. PICK l \in labels : K = {k \in labels : Combinable(i, k, l)}
  BY DEF LabelMapping
<1>4. ASSUME NEW M \in LabelMapping(i), NEW n \in M \cap K
      PROVE  M = K
  <2>1. PICK m \in labels : M = {k \in labels : Combinable(i, k, m)}
    BY DEF LabelMapping
  <2> QED
    BY <1>1, <1>2, <1>3, <1>4, <2>1
<1> QED
  BY <1>1, <1>2, <1>3, <1>4

\* The old labels a new one stands for: they cover it, and they cannot be told
\* apart but in the factor the reduction is about.
LEMMA OldLabelsOfNew ==
  ASSUME LabelsOK, NEW i, NEW l \in NewLabels(i)
  PROVE  /\ OldLabels(l) # {}
         /\ l = UNION OldLabels(l)
         /\ \A k, m \in OldLabels(l) : Combinable(i, k, m)
<1>1. \A k, m \in labels : k # {} /\ (k \cap m # {} => k = m)
  BY DEF LabelsOK, LabelSetOK
<1>2. CASE l \in labels
  <2>1. OldLabels(l) = {l}
    BY <1>1, <1>2 DEF OldLabels
  <2>2. Combinable(i, l, l)
    BY DEF Combinable
  <2> QED
    BY <2>1, <2>2
<1>3. CASE l \notin labels
  <2>1. PICK K \in LabelMapping(i) : l = UNION K
    BY <1>3 DEF NewLabels
  <2>2. K \subseteq labels /\ K # {} /\ \A k, m \in K : Combinable(i, k, m)
    BY ClassesOfLabels
  <2>3. OldLabels(l) = K
    BY <1>1, <2>1, <2>2 DEF OldLabels
  <2> QED
    BY <2>1, <2>2, <2>3
<1> QED
  BY <1>2, <1>3

LEMMA NewLabelsOK ==
  ASSUME LabelsOK, NEW i
  PROVE  LabelSetOK(NewLabels(i))
<1>1. \A k, m \in labels : k # {} /\ k \subseteq Op /\ (k \cap m # {} => k = m)
  BY DEF LabelsOK, LabelSetOK
<1>2. ASSUME NEW l \in NewLabels(i)
      PROVE  l # {} /\ l \subseteq Op
  BY <1>1, OldLabelsOfNew DEF OldLabels
<1>3. ASSUME NEW l \in NewLabels(i), NEW o \in l, NEW q \in l
      PROVE  Cost[o] = Cost[q]
  <2>1. PICK k \in OldLabels(l), m \in OldLabels(l) : o \in k /\ q \in m
    BY OldLabelsOfNew
  <2>2. LabelCost(k) = LabelCost(m)
    BY OldLabelsOfNew DEF Combinable
  <2> QED
    BY <2>1, <2>2, CostOfLabel DEF OldLabels
<1>4. ASSUME NEW k \in NewLabels(i), NEW l \in NewLabels(i), NEW o \in k \cap l
      PROVE  k = l
  <2>1. PICK x \in OldLabels(k), y \in OldLabels(l) : o \in x /\ o \in y
    BY OldLabelsOfNew
  <2>2. x \in labels /\ x \in OldLabels(k) /\ x \in OldLabels(l)
    BY <1>1, <2>1 DEF OldLabels
  <2>3. CASE x \in UNION LabelMapping(i)
    <3>1. PICK K \in LabelMapping(i) : x \in K
      BY <2>3
    <3>2. ASSUME NEW n \in NewLabels(i), x \in OldLabels(n) PROVE n = UNION K
      <4>1. n \notin labels
        <5> SUFFICES ASSUME n \in labels PROVE FALSE
          OBVIOUS
        <5>1. n = x
          BY <1>1, <2>2, <3>2 DEF OldLabels
        <5>2. PICK M \in LabelMapping(i) : n = UNION M
          BY <5>1, <2>3 DEF NewLabels
        <5>3. M \subseteq labels /\ M # {}
          BY <5>2, ClassesOfLabels
        <5>4. M = {x}
          BY <1>1, <5>1, <5>2, <5>3
        <5>5. Cardinality(M) > 1
          BY <5>2 DEF LabelMapping
        <5> QED
          BY <5>4, <5>5, FS_Singleton
      <4>2. PICK M \in LabelMapping(i) : n = UNION M
        BY <4>1 DEF NewLabels
      <4>3. M \subseteq labels /\ (M \cap K # {} => M = K)
        BY <4>2, ClassesOfLabels
      <4>4. x \in M
        BY <1>1, <2>2, <3>2, <4>2, <4>3 DEF OldLabels
      <4> QED
        BY <3>1, <4>2, <4>3, <4>4
    <3> QED
      BY <2>2, <3>2
  <2>4. CASE x \notin UNION LabelMapping(i)
    <3>1. ASSUME NEW n \in NewLabels(i), x \in OldLabels(n) PROVE n = x
      <4>1. CASE n \in labels
        BY <1>1, <2>2, <3>1, <4>1 DEF OldLabels
      <4>2. CASE n \notin labels
        <5>1. PICK M \in LabelMapping(i) : n = UNION M
          BY <4>2 DEF NewLabels
        <5>2. M \subseteq labels
          BY <5>1, ClassesOfLabels
        <5>3. x \in M
          BY <1>1, <2>2, <3>1, <5>1, <5>2 DEF OldLabels
        <5> QED
          BY <2>4, <5>1, <5>3
      <4> QED
        BY <4>1, <4>2
    <3> QED
      BY <2>2, <3>1
  <2> QED
    BY <2>3, <2>4
<1> QED
  BY <1>2, <1>3, <1>4 DEF LabelSetOK

\* Transitions of labels that are put together are united where they differ.
LEMMA ReducedTransKeep ==
  ASSUME LabelsOK, NEW i, NEW j \in active, FactorOK(fts[j], labels)
  PROVE  FactorOK([fts[j] EXCEPT !.trans = [l \in NewLabels(i) |-> ReducedTrans(fts[j], j = i, l)]],
                  NewLabels(i))
<1> DEFINE f == fts[j]
           L == NewLabels(i)
           trans == [l \in L |-> ReducedTrans(f, j = i, l)]
           g == [f EXCEPT !.trans = trans]
<1>1. IsRecord(f) /\ KeepsTransitions(f, labels) /\ KeepsGoals(f)
  BY DEF FactorOK
<1>2. g.alpha = f.alpha /\ g.goals = f.goals /\ g.trans = trans /\ IsRecord(g)
  <2> HIDE DEF f, trans
  <2> QED
    BY <1>1 DEF IsRecord
<1> HIDE DEF g
<1>3. ASSUME NEW l \in L, NEW o \in l, NEW p,
             \A k \in labels : o \in k => p \in f.trans[k]
      PROVE  p \in trans[l]
  <2>1. PICK k \in OldLabels(l) : o \in k
    BY OldLabelsOfNew
  <2>2. p \in f.trans[k]
    BY <1>3, <2>1 DEF OldLabels
  <2>3. CASE j = i
    <3>1. trans[l] = UNION {f.trans[m] : m \in OldLabels(l)}
      BY <2>3 DEF ReducedTrans
    <3> QED
      BY <2>2, <3>1
  <2>4. CASE j # i
    <3>1. PICK m \in OldLabels(l) : trans[l] = f.trans[m]
      BY <2>1, <2>4 DEF ReducedTrans
    <3>2. f.trans[k] = f.trans[m]
      BY <2>4, OldLabelsOfNew DEF Combinable
    <3> QED
      BY <2>2, <3>1, <3>2
  <2> QED
    BY <2>3, <2>4
<1>4. KeepsTransitions(g, L)
  <2> SUFFICES ASSUME NEW l \in L, NEW o \in l, NEW s \in State, Applicable(s, o),
                      f.alpha[s] # Pruned, f.alpha[Result(s, o)] # Pruned
               PROVE  <<f.alpha[s], f.alpha[Result(s, o)]>> \in trans[l]
    BY <1>2 DEF KeepsTransitions
  <2>1. \A k \in labels : o \in k => <<f.alpha[s], f.alpha[Result(s, o)]>> \in f.trans[k]
    BY <1>1 DEF KeepsTransitions
  <2> QED
    BY <1>3, <2>1
<1>5. FactorOK(g, L)
  BY <1>1, <1>2, <1>4 DEF FactorOK, KeepsGoals
<1> QED
  BY <1>5 DEF g

-----------------------------------------------------------------------------
(***************************************************************************)
(* The sequence of factors                                                 *)
(***************************************************************************)
LEMMA SequenceDomain ==
  ASSUME NEW f, IsSequence(f)
  PROVE  Len(f) \in Nat /\ DOMAIN f = 1..Len(f) /\ f = [i \in 1..Len(f) |-> f[i]]
BY DEF IsSequence

LEMMA FunctionIsSequence ==
  ASSUME NEW n \in Nat, NEW f, f = [i \in 1..n |-> f[i]]
  PROVE  IsSequence(f) /\ Len(f) = n
<1>1. f \in Seq({f[i] : i \in 1..n})
  OBVIOUS
<1>2. Len(f) = n
  BY <1>1
<1>3. IsSequence(f)
  BY <1>1, Zenon DEF IsSequence
<1> QED
  BY <1>2, <1>3

LEMMA SameDomainIsSequence ==
  ASSUME NEW f, IsSequence(f), NEW g, g = [j \in DOMAIN f |-> g[j]]
  PROVE  IsSequence(g) /\ Len(g) = Len(f)
<1>1. Len(f) \in Nat /\ g = [j \in 1..Len(f) |-> g[j]]
  BY SequenceDomain
<1> QED
  BY <1>1, FunctionIsSequence

LEMMA SequenceAppend ==
  ASSUME NEW f, IsSequence(f), NEW x
  PROVE  /\ IsSequence(Append(f, x)) /\ Len(Append(f, x)) = Len(f) + 1
         /\ Append(f, x)[Len(f) + 1] = x
         /\ \A j \in 1..Len(f) : Append(f, x)[j] = f[j]
<1>1. PICK S : f \in Seq(S)
  BY DEF IsSequence
<1>2. f \in Seq(S \cup {x}) /\ x \in S \cup {x}
  BY <1>1
<1>3. Append(f, x) \in Seq(S \cup {x})
  BY <1>2
<1> QED
  BY <1>2, <1>3 DEF IsSequence

-----------------------------------------------------------------------------
(***************************************************************************)
(* The invariant                                                           *)
(***************************************************************************)
LEMMA InitMSInv ==
  ASSUME Init
  PROVE  MSInv
<1>1. LabelsOK
  BY InitialLabelsOK DEF Init, LabelsOK
<1>2. FactorsOK /\ IndicesOK
  BY DEF Init, FactorsOK, IndicesOK
<1>3. SequenceOK
  <2>1. <<>> \in Seq({})
    OBVIOUS
  <2> QED
    BY <2>1 DEF Init, SequenceOK, IsSequence
<1>4. CreationOK
  BY VarFinite DEF Init, CreationOK
<1> QED
  BY <1>1, <1>2, <1>3, <1>4 DEF MSInv, Init

\* Steps that change no factor and no label.
LEMMA FactorsUnchanged ==
  ASSUME MSInv, UNCHANGED <<config, labels, fts, active>>, IndicesOK', CreationOK'
  PROVE  MSInv'
BY DEF MSInv, LabelsOK, FactorsOK, SequenceOK

LEMMA BuildKeeps ==
  ASSUME MSInv, Build \/ BuildDone
  PROVE  MSInv'
<1>1. UNCHANGED <<config, labels, fts, active>>
  BY DEF Build, BuildDone
<1>2. IndicesOK'
  BY DEF Build, BuildDone, IndicesOK
<1>3. CreationOK'
  <2>1. /\ labels = InitialLabels /\ active = {}
        /\ valid \in 0..Cardinality(Var) /\ position \in 1..(Cardinality(Var) + 1)
    BY DEF MSInv, CreationOK, Build, BuildDone
  <2>2. valid' \in 0..Cardinality(Var) /\ position' \in 1..(Cardinality(Var) + 1)
    <3>1. CASE Build
      BY <2>1, <3>1, VarFinite DEF Build
    <3>2. CASE BuildDone
      BY <2>1, <3>2, VarFinite DEF BuildDone, creation
    <3> QED
      BY <3>1, <3>2
  <2> QED
    BY <1>1, <2>1, <2>2 DEF CreationOK
<1> QED
  BY <1>1, <1>2, <1>3, FactorsUnchanged

LEMMA CreateKeeps ==
  ASSUME MSInv, Create
  PROVE  MSInv'
<1>1. CASE valid = 0
  <2>1. UNCHANGED <<config, labels, fts, active>> /\ phase' = "crash"
    BY <1>1 DEF Create
  <2>2. IndicesOK' /\ CreationOK'
    BY <2>1 DEF IndicesOK, CreationOK
  <2> QED
    BY <2>1, <2>2, FactorsUnchanged
<1>2. CASE valid # 0
  <2>1. /\ labels = InitialLabels
        /\ valid \in Nat /\ 1..valid \subseteq Var
    BY TaskAssumption, VarFinite DEF MSInv, CreationOK, Create
  <2>2. /\ fts' = [v \in 1..valid |-> WithDistances(AtomicFactor(v), InitialLabels)]
        /\ active' = 1..valid /\ phase' = "atomic" /\ UNCHANGED <<config, labels>>
    BY <1>2 DEF Create
  <2>3. IsSequence(fts') /\ Len(fts') = valid
    BY <2>1, <2>2, FunctionIsSequence
  <2>4. \A i \in active' : FactorOK(fts'[i], labels')
    BY <2>1, <2>2, AtomicKeeps
  <2>5. LabelsOK'
    BY <2>2 DEF MSInv, LabelsOK
  <2> QED
    BY <2>2, <2>3, <2>4, <2>5 DEF MSInv, FactorsOK, SequenceOK, IndicesOK, CreationOK
<1> QED
  BY <1>1, <1>2

Replaces(g, f, n, x) == g = [f EXCEPT ![n] = x]

\* One factor is replaced.
LEMMA ReplacedFactor ==
  ASSUME NEW f, IsSequence(f), NEW n, NEW x, NEW g, Replaces(g, f, n, x)
  PROVE  /\ IsSequence(g) /\ Len(g) = Len(f)
         /\ \A j \in 1..Len(f) : g[j] = IF j = n THEN x ELSE f[j]
<1>1. DOMAIN f = 1..Len(f)
  BY SequenceDomain
<1>2. /\ g = [j \in DOMAIN f |-> g[j]]
      /\ \A j \in 1..Len(f) : g[j] = IF j = n THEN x ELSE f[j]
  BY <1>1 DEF Replaces
<1> QED
  BY <1>2, SameDomainIsSequence

\* Pruning one factor.
LEMMA PrunedFactors ==
  ASSUME SequenceOK, NEW n, fts' = [fts EXCEPT ![n] = PruneStep(fts[n])]
  PROVE  /\ IsSequence(fts') /\ Len(fts') = Len(fts)
         /\ \A j \in 1..Len(fts) : fts'[j] = IF j = n THEN PruneStep(fts[n]) ELSE fts[j]
<1>1. PICK x : x = PruneStep(fts[n])
  OBVIOUS
<1>2. IsSequence(fts) /\ Replaces(fts', fts, n, x)
  BY <1>1 DEF SequenceOK, Replaces
<1>3. /\ IsSequence(fts') /\ Len(fts') = Len(fts)
      /\ \A j \in 1..Len(fts) : fts'[j] = IF j = n THEN x ELSE fts[j]
  BY <1>2, ReplacedFactor
<1> QED
  BY <1>1, <1>3

LEMMA PruneFactorKeeps ==
  ASSUME MSInv, NEW n, fts' = [fts EXCEPT ![n] = PruneStep(fts[n])],
         UNCHANGED <<config, labels, active>>, IndicesOK', CreationOK'
  PROVE  MSInv'
<1>1. IsSequence(fts) /\ active \subseteq 1..Len(fts) /\ LabelsOK /\ SequenceOK
  BY DEF MSInv, SequenceOK
<1>2. /\ IsSequence(fts') /\ Len(fts') = Len(fts)
      /\ \A j \in 1..Len(fts) : fts'[j] = IF j = n THEN PruneStep(fts[n]) ELSE fts[j]
  BY <1>1, PrunedFactors
<1>3. \A i \in active' : FactorOK(fts'[i], labels')
  BY <1>1, <1>2, PruningKeeps DEF MSInv, FactorsOK
<1> QED
  BY <1>1, <1>2, <1>3 DEF MSInv, FactorsOK, SequenceOK, LabelsOK

LEMMA ReduceLabelsKeeps ==
  ASSUME MSInv, ReduceLabels
  PROVE  MSInv'
<1> DEFINE i == ReductionIndex
<1>1. /\ UNCHANGED <<config, phase, active, merge_indices>>
      /\ phase \notin {"data", "irrelevant", "create"}
  BY ConfigurationsAssumption DEF ReduceLabels, ReducesNow, MSInv
<1>2. IndicesOK' /\ CreationOK'
  BY <1>1 DEF MSInv, IndicesOK, CreationOK
<1>3. CASE UNCHANGED <<labels, fts>>
  BY <1>1, <1>2, <1>3, FactorsUnchanged
<1>4. CASE Reduce(i)
  <2>1. labels' = NewLabels(i)
    BY <1>4 DEF Reduce
  <2>2. LabelsOK'
    BY <2>1, NewLabelsOK DEF MSInv, LabelsOK
  <2>3. IsSequence(fts) /\ Len(fts) \in Nat /\ DOMAIN fts = 1..Len(fts)
    BY SequenceDomain DEF MSInv, SequenceOK
  <2>4. /\ fts' = [j \in 1..Len(fts) |-> fts'[j]]
        /\ \A j \in active \cap 1..Len(fts) :
              fts'[j] = [fts[j] EXCEPT !.trans =
                            [l \in NewLabels(i) |-> ReducedTrans(fts[j], j = i, l)]]
    BY <1>4, <2>3 DEF Reduce
  <2>5. IsSequence(fts') /\ Len(fts') = Len(fts)
    BY <2>3, <2>4, FunctionIsSequence
  <2>6. ASSUME NEW j \in active PROVE FactorOK(fts'[j], labels')
    <3>1. LabelsOK /\ FactorOK(fts[j], labels)
      BY DEF MSInv, FactorsOK
    <3>2. j \in 1..Len(fts)
      BY DEF MSInv, SequenceOK
    <3> QED
      BY <2>1, <2>4, <3>1, <3>2, ReducedTransKeep
  <2> QED
    BY <1>1, <1>2, <2>2, <2>5, <2>6 DEF MSInv, FactorsOK, SequenceOK
<1> QED
  BY <1>3, <1>4 DEF ReduceLabels

\* The factors after a shrink step; i and j are those to be merged.
ShrinkStep(i, j, P, Q) ==
    /\ merge_indices = <<i, j>> /\ i # j
    /\ \E t : P \in Shrunk(fts[i], t)
    /\ \E t : Q \in Shrunk(fts[j], t)
    /\ exact' => exact /\ IsBisimulation(fts[i], P) /\ IsBisimulation(fts[j], Q)
    /\ IsSequence(fts') /\ Len(fts') = Len(fts)
    /\ \A k \in 1..Len(fts) : fts'[k] = IF k = i THEN Abstracted(fts[i], P)
                                         ELSE IF k = j THEN Abstracted(fts[j], Q)
                                         ELSE fts[k]

ShrunkTo(i, j, P, Q) ==
    /\ fts' = [fts EXCEPT ![i] = Abstracted(@, P), ![j] = Abstracted(@, Q)]
    /\ exact' = (exact /\ IsBisimulation(fts[i], P) /\ IsBisimulation(fts[j], Q))

LEMMA ShrunkFactors ==
  ASSUME IndicesOK, SequenceOK, Shrink
  PROVE  \E i, j \in active : \E P, Q : ShrinkStep(i, j, P, Q)
<1>1. PICK i \in active, j \in active : i # j /\ merge_indices = <<i, j>>
  BY DEF Shrink, IndicesOK
<1>2. PICK t, u : \E P \in Shrunk(fts[i], t), Q \in Shrunk(fts[j], u) : ShrunkTo(i, j, P, Q)
  <2>1. i = merge_indices[1] /\ j = merge_indices[2]
    BY <1>1
  <2> DEFINE sizes == ShrinkSizes(Cardinality(fts[merge_indices[1]].states),
                                  Cardinality(fts[merge_indices[2]].states))
  <2>2. \E P \in Shrunk(fts[merge_indices[1]], sizes[1]),
           Q \in Shrunk(fts[merge_indices[2]], sizes[2]) :
          ShrunkTo(merge_indices[1], merge_indices[2], P, Q)
    BY Zenon DEF Shrink, ShrunkTo
  <2> HIDE DEF sizes
  <2>3. PICK t, u : t = sizes[1] /\ u = sizes[2]
    OBVIOUS
  <2> QED
    BY <2>1, <2>2, <2>3
<1>3. PICK P \in Shrunk(fts[i], t), Q \in Shrunk(fts[j], u) : ShrunkTo(i, j, P, Q)
  BY <1>2
<1>4. PICK x, y : x = Abstracted(fts[i], P) /\ y = Abstracted(fts[j], Q)
  OBVIOUS
<1>5. PICK middle : middle = [fts EXCEPT ![i] = x] /\ Replaces(middle, fts, i, x)
  BY DEF Replaces
<1>6. IsSequence(fts) /\ active \subseteq 1..Len(fts)
  BY DEF SequenceOK
<1>7. Replaces(fts', middle, j, y)
  BY <1>1, <1>3, <1>4, <1>5, <1>6, SequenceDomain DEF Replaces, ShrunkTo
<1>8. /\ IsSequence(middle) /\ Len(middle) = Len(fts)
      /\ \A k \in 1..Len(fts) : middle[k] = IF k = i THEN x ELSE fts[k]
  BY <1>5, <1>6, ReplacedFactor
<1>9. /\ IsSequence(fts') /\ Len(fts') = Len(middle)
      /\ \A k \in 1..Len(middle) : fts'[k] = IF k = j THEN y ELSE middle[k]
  BY <1>7, <1>8, ReplacedFactor
<1>10. exact' => exact /\ IsBisimulation(fts[i], P) /\ IsBisimulation(fts[j], Q)
  BY <1>3 DEF ShrunkTo
<1>11. ShrinkStep(i, j, P, Q)
  BY <1>1, <1>4, <1>8, <1>9, <1>10 DEF ShrinkStep
<1> QED
  BY <1>11

LEMMA ShrinkKeeps ==
  ASSUME MSInv, Shrink
  PROVE  MSInv'
<1>1. IsSequence(fts) /\ active \subseteq 1..Len(fts) /\ LabelsOK /\ IndicesOK /\ SequenceOK
  BY DEF MSInv, SequenceOK
<1>2. PICK i \in active, j \in active : \E P, Q : ShrinkStep(i, j, P, Q)
  BY <1>1, ShrunkFactors
<1>3. PICK P, Q : ShrinkStep(i, j, P, Q)
  BY <1>2
<1>4. /\ UNCHANGED <<config, labels, active, merge_indices>>
      /\ phase' = "reduce_before_merging"
  BY DEF Shrink
<1>5. IndicesOK' /\ CreationOK'
  BY <1>3, <1>4 DEF IndicesOK, CreationOK, ShrinkStep
<1>6. FactorOK(Abstracted(fts[i], P), labels) /\ FactorOK(Abstracted(fts[j], Q), labels)
  BY <1>1, AbstractionKeeps DEF MSInv, FactorsOK
<1>7. \A k \in active' : FactorOK(fts'[k], labels')
  BY <1>1, <1>3, <1>4, <1>6 DEF MSInv, FactorsOK, ShrinkStep
<1> QED
  BY <1>1, <1>3, <1>4, <1>5, <1>7 DEF MSInv, FactorsOK, SequenceOK, LabelsOK, ShrinkStep

\* The factors after i and j have been merged.
MergeStep(i, j) ==
    /\ merge_indices = <<i, j>> /\ i # j
    /\ active' = (active \ {i, j}) \cup {Len(fts) + 1}
    /\ Len(fts) \in Nat
    /\ IsSequence(fts') /\ Len(fts') = Len(fts) + 1
    /\ fts'[Len(fts) + 1] = Product(fts[i], fts[j])
    /\ \A k \in active \ {i, j} : k \in 1..Len(fts) /\ fts'[k] = fts[k]

LEMMA MergedFactors ==
  ASSUME IndicesOK, SequenceOK, Merge
  PROVE  \E i, j \in active : MergeStep(i, j)
<1>1. PICK i \in active, j \in active : i # j /\ merge_indices = <<i, j>>
  BY DEF Merge, IndicesOK
<1>2. PICK product : product = Product(fts[i], fts[j])
  OBVIOUS
<1>3. PICK first : first = [fts EXCEPT ![i] = Merged] /\ Replaces(first, fts, i, Merged)
  BY DEF Replaces
<1>4. PICK rest : rest = [fts EXCEPT ![i] = Merged, ![j] = Merged]
  OBVIOUS
<1>5. /\ fts' = Append(rest, product)
      /\ active' = (active \ {i, j}) \cup {Len(fts) + 1}
  <2>1. i = merge_indices[1] /\ j = merge_indices[2]
    BY <1>1
  <2> QED
    BY <1>2, <1>4, <2>1, Zenon DEF Merge
<1>6. IsSequence(fts) /\ Len(fts) \in Nat /\ active \subseteq 1..Len(fts)
  BY SequenceDomain DEF SequenceOK
<1>7. /\ IsSequence(first) /\ Len(first) = Len(fts)
      /\ \A k \in 1..Len(fts) : first[k] = IF k = i THEN Merged ELSE fts[k]
  BY <1>3, <1>6, ReplacedFactor
<1>8. Replaces(rest, first, j, Merged)
  BY <1>3, <1>4 DEF Replaces
<1>9. /\ IsSequence(rest) /\ Len(rest) = Len(first)
      /\ \A k \in 1..Len(first) : rest[k] = IF k = j THEN Merged ELSE first[k]
  BY <1>7, <1>8, ReplacedFactor
<1>10. /\ IsSequence(fts') /\ Len(fts') = Len(fts) + 1 /\ fts'[Len(fts) + 1] = product
       /\ \A k \in 1..Len(fts) : k # i /\ k # j => fts'[k] = fts[k]
  BY <1>5, <1>7, <1>9, SequenceAppend
<1>11. \A k \in active \ {i, j} : k \in 1..Len(fts) /\ fts'[k] = fts[k]
  BY <1>6, <1>10
<1>12. MergeStep(i, j)
  BY <1>1, <1>2, <1>5, <1>6, <1>10, <1>11 DEF MergeStep
<1> QED
  BY <1>12

LEMMA MergeKeeps ==
  ASSUME MSInv, Merge
  PROVE  MSInv'
<1>1. LabelsOK /\ IndicesOK /\ SequenceOK
  BY DEF MSInv
<1>2. PICK i \in active, j \in active : MergeStep(i, j)
  BY <1>1, MergedFactors
<1>3. UNCHANGED <<config, labels>> /\ phase' = "prune"
  BY DEF Merge
<1>4. IndicesOK' /\ CreationOK'
  BY <1>3 DEF IndicesOK, CreationOK
<1>5. FactorOK(Product(fts[i], fts[j]), labels)
  BY <1>1, ProductKeeps DEF MSInv, FactorsOK
<1>6. \A k \in active' : FactorOK(fts'[k], labels')
  BY <1>2, <1>3, <1>5 DEF MSInv, FactorsOK, MergeStep
<1>7. active' \subseteq 1..Len(fts')
  BY <1>2 DEF MergeStep
<1> QED
  BY <1>2, <1>3, <1>4, <1>6, <1>7 DEF MSInv, FactorsOK, SequenceOK, LabelsOK, MergeStep

\* The rest of the steps leaves labels and factors alone.
LEMMA OthersKeep ==
  ASSUME MSInv,
         \/ AtomicDone \/ ReductionDone \/ LoopEnds \/ Finished \/ UNCHANGED vars
         \/ \E i, j \in active : GetNext(i, j)
         \/ \E i \in active : OutOfTime(i)
  PROVE  MSInv'
<1>1. UNCHANGED <<config, labels, fts, active>>
  BY DEF AtomicDone, ReductionDone, LoopEnds, Finished, vars, GetNext, OutOfTime
<1>2. IndicesOK'
  <2>1. CASE \E i, j \in active : GetNext(i, j)
    BY <1>1, <2>1 DEF GetNext, IndicesOK
  <2>2. CASE AtomicDone \/ LoopEnds \/ \E i \in active : OutOfTime(i)
    BY <2>2 DEF AtomicDone, LoopEnds, OutOfTime, IndicesOK
  <2>3. CASE ReductionDone \/ Finished \/ UNCHANGED vars
    BY <1>1, <2>3 DEF MSInv, ReductionDone, Finished, vars, IndicesOK
  <2> QED
    BY <2>1, <2>2, <2>3
<1>3. CreationOK'
  <2>1. CASE Finished \/ UNCHANGED vars
    BY <2>1 DEF MSInv, Finished, vars, CreationOK
  <2>2. CASE ~(Finished \/ UNCHANGED vars)
    BY <2>2 DEF AtomicDone, ReductionDone, LoopEnds, GetNext, OutOfTime, CreationOK
  <2> QED
    BY <2>1, <2>2
<1> QED
  BY <1>1, <1>2, <1>3, FactorsUnchanged

LEMMA NextKeeps ==
  ASSUME MSInv, [Next]_vars
  PROVE  MSInv'
<1>1. CASE PruneAtomic
  <2>1. IndicesOK' /\ CreationOK'
    BY <1>1 DEF PruneAtomic, IndicesOK, CreationOK
  <2> QED
    BY <1>1, <2>1, PruneFactorKeeps DEF PruneAtomic
<1>2. CASE Prune
  <2>1. IndicesOK' /\ CreationOK'
    BY <1>2 DEF Prune, IndicesOK, CreationOK
  <2> QED
    BY <1>2, <2>1, PruneFactorKeeps DEF Prune
<1> QED
  BY <1>1, <1>2, BuildKeeps, CreateKeeps, ReduceLabelsKeeps, ShrinkKeeps, MergeKeeps,
     OthersKeep DEF Next, Step

\* However factors are merged, shrunk, pruned and relabelled, and whenever the
\* construction is cut off, every factor is an abstraction of the task.
THEOREM FactorsAreAbstractions == Spec => []MSInv
<1>1. Init => MSInv
  BY InitMSInv
<1>2. MSInv /\ [Next]_vars => MSInv'
  BY NextKeeps
<1> QED
  BY <1>1, <1>2, PTL DEF Spec

\* Transitions and goals are preserved and labels have one cost
\* (merge_and_shrink_heuristic.cc, build).
THEOREM Homomorphic == Spec => []Homomorphism
<1>1. MSInv => Homomorphism
  <2> SUFFICES ASSUME MSInv PROVE Homomorphism
    OBVIOUS
  <2>1. TransitionsPreserved
    BY DEF MSInv, FactorsOK, FactorOK, KeepsTransitions, TransitionsPreserved
  <2>2. GoalsPreserved
    BY DEF MSInv, FactorsOK, FactorOK, KeepsGoals, GoalsPreserved
  <2>3. LabelsHaveOneCost
    BY DEF MSInv, LabelsOK, LabelSetOK, LabelsHaveOneCost
  <2> QED
    BY <2>1, <2>2, <2>3 DEF Homomorphism
<1> QED
  BY <1>1, FactorsAreAbstractions, PTL

-----------------------------------------------------------------------------
(***************************************************************************)
(* Recursion over 0..N                                                     *)
(***************************************************************************)
\* Every set of numbers that is not empty has a least element.
LEMMA LeastNumber ==
  ASSUME NEW S \in SUBSET Nat, S # {}
  PROVE  \E n \in S : \A m \in S : n <= m
<1>1. PICK n \in S : \A m \in S : <<m, n>> \notin OpToRel(<, Nat)
  BY NatLessThanWellFounded, WFMin
<1>2. \A m \in S : ~(m < n)
  BY <1>1 DEF OpToRel
<1> QED
  BY <1>2

\* Induction, for a set of numbers.
LEMMA Induct ==
  ASSUME NEW N \in Nat, NEW S, 0 \in S,
         \A i \in 1..N : i - 1 \in S => i \in S
  PROVE  N \in S
<1> DEFINE Out == {i \in 0..N : i \notin S}
<1> SUFFICES ASSUME Out # {} PROVE FALSE
  OBVIOUS
<1>1. PICK n \in Out : \A m \in Out : n <= m
  <2>1. Out \in SUBSET Nat
    OBVIOUS
  <2> HIDE DEF Out
  <2> QED
    BY <2>1, LeastNumber
<1>2. n \in 1..N /\ n - 1 \notin Out
  BY <1>1
<1>3. n - 1 \in S
  BY <1>2
<1> QED
  BY <1>1, <1>2, <1>3

\* A step function on T is iterated n times.
Iterates(f, N, T, base, F) ==
    f = [n \in 0..N |-> IF n = 0 THEN base ELSE F[f[n - 1]]] /\ \A n \in 0..N : f[n] \in T

LEMMA Iteration ==
  ASSUME NEW N \in Nat, NEW T, NEW base \in T, NEW F \in [T -> T]
  PROVE  \E f : Iterates(f, N, T, base, F)
<1> DEFINE Is(f, n) == f[0] = base /\ \A i \in 1..n : f[i] = F[f[i-1]]
           S == {n \in Nat : \E f \in [0..n -> T] : Is(f, n)}
<1>1. 0 \in S
  <2>1. [i \in 0..0 |-> base] \in [0..0 -> T] /\ Is([i \in 0..0 |-> base], 0)
    OBVIOUS
  <2> QED
    BY <2>1
<1>2. ASSUME NEW n \in 1..N, n - 1 \in S PROVE n \in S
  <2>1. PICK f \in [0..(n-1) -> T] : Is(f, n-1)
    BY <1>2
  <2> DEFINE e == [i \in 0..n |-> IF i = n THEN F[f[n-1]] ELSE f[i]]
  <2>2. f[n-1] \in T /\ F[f[n-1]] \in T
    OBVIOUS
  <2>3. e \in [0..n -> T]
    BY <2>2
  <2>4. e[0] = base
    BY <2>1
  <2>5. ASSUME NEW i \in 1..n PROVE e[i] = F[e[i-1]]
    <3>1. e[i-1] = f[i-1]
      OBVIOUS
    <3>2. CASE i = n
      <4>1. e[n] = F[f[n-1]]
        OBVIOUS
      <4> HIDE DEF e
      <4> QED
        BY <3>1, <3>2, <4>1
    <3>3. CASE i # n
      <4>1. i \in 1..(n-1) /\ e[i] = f[i]
        BY <3>3
      <4> QED
        BY <2>1, <3>1, <4>1
    <3> QED
      BY <3>2, <3>3
  <2> HIDE DEF e
  <2> QED
    BY <2>3, <2>4, <2>5
<1>3. N \in S
  <2> HIDE DEF S
  <2> QED
    BY <1>1, <1>2, Induct
<1>4. PICK f \in [0..N -> T] : Is(f, N)
  BY <1>3
<1>5. \A n \in 0..N : f[n] = IF n = 0 THEN base ELSE F[f[n - 1]]
  BY <1>4
<1> HIDE DEF Is
<1>6. f = [n \in 0..N |-> IF n = 0 THEN base ELSE F[f[n - 1]]]
  BY <1>5
<1> QED
  BY <1>6 DEF Iterates

-----------------------------------------------------------------------------
(***************************************************************************)
(* Distances                                                               *)
(***************************************************************************)
Distances == Nat \cup {Infty}

IsGraph(S, A, T) ==
    IsFiniteSet(S) /\ T \subseteq S /\ A \subseteq S \X S \X Nat

\* Lower bounds of distances: 0 at the targets, and no arc is cheaper than the
\* difference of its ends.
Potentials(S, A, T) ==
    {e \in [S -> Distances] :
        /\ \A t \in T : e[t] = 0
        /\ \A a \in A : AtMost(e[a[1]], Plus(a[3], e[a[2]]))}

LEMMA UnsettledFacts ==
  ASSUME NEW S, NEW A, A \subseteq S \X S \X Nat, NEW D, D \subseteq S \X Nat
  PROVE  /\ Unsettled(A, D) \subseteq S \X Nat
         /\ \A q : q \in Unsettled(A, D) <=>
               /\ \E a \in A, p \in D : a[2] = p[1] /\ q = <<a[1], a[3] + p[2]>>
               /\ \A p \in D : p[1] # q[1]
<1>1. \A q : q \in Unsettled(A, D) <=>
               /\ \E a \in A, p \in D : a[2] = p[1] /\ q = <<a[1], a[3] + p[2]>>
               /\ \A p \in D : p[1] # q[1]
  BY DEF Unsettled
<1>2. \A a \in A, p \in D : <<a[1], a[3] + p[2]>> \in S \X Nat
  OBVIOUS
<1> QED
  BY <1>1, <1>2

LEMMA UnsettledElement ==
  ASSUME NEW S, NEW A, A \subseteq S \X S \X Nat, NEW D, D \subseteq S \X Nat,
         NEW q \in Unsettled(A, D)
  PROVE  /\ q \in S \X Nat
         /\ \E a \in A, p \in D : a[2] = p[1] /\ q = <<a[1], a[3] + p[2]>>
         /\ \A p \in D : p[1] # q[1]
<1>1. \A x \in Unsettled(A, D) : x \in S \X Nat
  BY UnsettledFacts
<1>2. /\ \E a \in A, p \in D : a[2] = p[1] /\ q = <<a[1], a[3] + p[2]>>
      /\ \A p \in D : p[1] # q[1]
  BY DEF Unsettled
<1> QED
  BY <1>1, <1>2

LEMMA NearestFacts ==
  ASSUME NEW S, NEW U, U \subseteq S \X Nat, U # {}
  PROVE  Nearest(U) \in U /\ \A q \in U : Nearest(U)[2] <= q[2]
<1> DEFINE K == {q[2] : q \in U}
<1>1. K \in SUBSET Nat /\ K # {}
  OBVIOUS
<1>2. PICK k \in K : \A m \in K : k <= m
  <2> HIDE DEF K
  <2> QED
    BY <1>1, LeastNumber
<1>3. PICK p \in U : p[2] = k
  BY <1>2
<1>4. \A q \in U : p[2] <= q[2]
  BY <1>2, <1>3
<1> QED
  BY <1>4 DEF Nearest

Covered(D) == {p[1] : p \in D}

\* What has been settled after n turns.
SettledOK(S, A, T, D, n) ==
    /\ D \subseteq S \X Nat
    /\ \A p, q \in D : p[1] = q[1] => p[2] = q[2]
    /\ \A p \in D, q \in Unsettled(A, D) : p[2] <= q[2]
    /\ \A a \in A, p, q \in D : a[2] = p[1] /\ a[1] = q[1] => q[2] <= a[3] + p[2]
    /\ \A t \in T : <<t, 0>> \in D
    /\ \A e \in Potentials(S, A, T) : \A p \in D : AtMost(e[p[1]], p[2])
    /\ Unsettled(A, D) = {} \/ Cardinality(Covered(D)) >= n

LEMMA CoveredFinite ==
  ASSUME NEW S, IsFiniteSet(S), NEW D, D \subseteq S \X Nat
  PROVE  /\ Covered(D) \subseteq S /\ IsFiniteSet(Covered(D))
         /\ Cardinality(Covered(D)) \in Nat
         /\ Cardinality(Covered(D)) <= Cardinality(S)
         /\ Cardinality(Covered(D)) = Cardinality(S) => Covered(D) = S
<1>1. Covered(D) \subseteq S
  BY DEF Covered
<1> QED
  BY <1>1, FS_Subset, FS_CardinalityType

LEMMA FirstSettled ==
  ASSUME NEW S, NEW A, NEW T, IsGraph(S, A, T)
  PROVE  SettledOK(S, A, T, {<<t, 0>> : t \in T}, 0)
<1> DEFINE D == {<<t, 0>> : t \in T}
<1>1. D \subseteq S \X Nat /\ \A p \in D : p[1] \in T /\ p[2] = 0
  BY DEF IsGraph
<1>2. \A t \in T : <<t, 0>> \in D
  OBVIOUS
<1> HIDE DEF D
<1>3. Unsettled(A, D) \subseteq S \X Nat
  BY <1>1, UnsettledFacts DEF IsGraph
<1>4. \A p \in D, q \in Unsettled(A, D) : p[2] <= q[2]
  BY <1>1, <1>3
<1>5. \A a \in A, p, q \in D : q[2] <= a[3] + p[2]
  BY <1>1 DEF IsGraph
<1>6. \A e \in Potentials(S, A, T) : \A p \in D : AtMost(e[p[1]], p[2])
  BY <1>1, InftyAssumption DEF Potentials, AtMost
<1>7. Cardinality(Covered(D)) >= 0
  BY <1>1, CoveredFinite DEF IsGraph
<1> QED
  BY <1>1, <1>2, <1>4, <1>5, <1>6, <1>7 DEF SettledOK, D

\* The pair settled next.
LEMMA SettleKeeps ==
  ASSUME NEW S, NEW A, NEW T, IsGraph(S, A, T), NEW D, NEW n \in Nat,
         SettledOK(S, A, T, D, n)
  PROVE  SettledOK(S, A, T, Settle(A, D), n + 1)
<1>1. /\ D \subseteq S \X Nat /\ A \subseteq S \X S \X Nat /\ IsFiniteSet(S)
      /\ \A p, q \in D : p[1] = q[1] => p[2] = q[2]
      /\ \A p \in D, q \in Unsettled(A, D) : p[2] <= q[2]
      /\ \A a \in A, p, q \in D : a[2] = p[1] /\ a[1] = q[1] => q[2] <= a[3] + p[2]
      /\ \A t \in T : <<t, 0>> \in D
      /\ \A e \in Potentials(S, A, T) : \A p \in D : AtMost(e[p[1]], p[2])
      /\ Unsettled(A, D) = {} \/ Cardinality(Covered(D)) >= n
  BY DEF SettledOK, IsGraph
<1>2. CASE Unsettled(A, D) = {}
  BY <1>2 DEF Settle, SettledOK
<1>3. CASE Unsettled(A, D) # {}
  <2>1. PICK m : m = Nearest(Unsettled(A, D))
    OBVIOUS
  <2>2. PICK E : E = D \cup {m}
    OBVIOUS
  <2>3. Settle(A, D) = E
    BY <1>3, <2>1, <2>2 DEF Settle
  <2>4. /\ Unsettled(A, D) \subseteq S \X Nat
        /\ m \in Unsettled(A, D) /\ \A q \in Unsettled(A, D) : m[2] <= q[2]
    BY <1>1, <1>3, <2>1, UnsettledFacts, NearestFacts
  <2>5. PICK b \in A, r \in D : b[2] = r[1] /\ m = <<b[1], b[3] + r[2]>>
    BY <1>1, <2>4, UnsettledFacts
  <2>6. \A p \in D : p[1] # m[1]
    BY <1>1, <2>4, UnsettledFacts
  <2>7. m \in S \X Nat /\ E \subseteq S \X Nat
    BY <1>1, <2>2, <2>4
  <2>8. \A p, q \in E : p[1] = q[1] => p[2] = q[2]
    BY <1>1, <2>2, <2>6
  <2>9. \A p \in D : p[2] <= m[2]
    BY <1>1, <2>4
  <2>10. ASSUME NEW p \in E, NEW q \in Unsettled(A, E) PROVE p[2] <= q[2]
    <3>1. /\ q \in S \X Nat
          /\ \A x \in E : x[1] # q[1]
          /\ \E a \in A, x \in E : a[2] = x[1] /\ q = <<a[1], a[3] + x[2]>>
      BY <1>1, <2>7, UnsettledElement
    <3>2. PICK a \in A, x \in E : a[2] = x[1] /\ q = <<a[1], a[3] + x[2]>>
      BY <3>1
    <3>3. p[2] <= m[2]
      BY <2>2, <2>7, <2>9
    <3>4. m[2] <= q[2]
      <4>1. CASE x \in D
        <5>1. q \in Unsettled(A, D)
          BY <1>1, <2>2, <3>1, <3>2, <4>1, UnsettledFacts
        <5> QED
          BY <2>4, <5>1
      <4>2. CASE x = m
        <5>1. q[2] = a[3] + m[2] /\ a[3] \in Nat
          BY <1>1, <3>2, <4>2
        <5> QED
          BY <2>7, <5>1
      <4> QED
        BY <2>2, <4>1, <4>2
    <3>5. p[2] \in Nat /\ m[2] \in Nat /\ q[2] \in Nat
      BY <2>7, <3>1
    <3> QED
      BY <3>3, <3>4, <3>5
  <2>11. ASSUME NEW a \in A, NEW p \in E, NEW q \in E, a[2] = p[1], a[1] = q[1]
         PROVE  q[2] <= a[3] + p[2]
    <3>1. a[3] \in Nat /\ p[2] \in Nat /\ q[2] \in Nat /\ m[2] \in Nat
      BY <1>1, <2>7
    <3>2. CASE p \in D /\ q \in D
      BY <1>1, <2>11, <3>2
    <3>3. CASE p \in D /\ q = m
      <4>1. PICK x : x = <<a[1], a[3] + p[2]>>
        OBVIOUS
      <4>2. x \in Unsettled(A, D)
        BY <1>1, <2>6, <2>11, <3>3, <4>1, UnsettledFacts
      <4>3. m[2] <= x[2]
        BY <2>4, <4>2
      <4> QED
        BY <3>3, <4>1, <4>3
    <3>4. CASE p = m
      <4>1. q[2] <= m[2]
        BY <2>2, <2>9, <3>1
      <4> QED
        BY <3>1, <3>4, <4>1
    <3> QED
      BY <2>2, <3>2, <3>3, <3>4
  <2>12. ASSUME NEW e \in Potentials(S, A, T) PROVE AtMost(e[m[1]], m[2])
    <3>1. e \in [S -> Distances] /\ AtMost(e[b[1]], Plus(b[3], e[b[2]]))
      BY DEF Potentials
    <3>2. AtMost(e[r[1]], r[2])
      BY <1>1
    <3>3. b[3] \in Nat /\ r[2] \in Nat /\ b[1] \in S /\ r[1] \in S
      BY <1>1
    <3>4. e[b[1]] \in Distances /\ e[r[1]] \in Distances
      BY <3>1, <3>3
    <3>5. e[r[1]] \in Nat /\ e[r[1]] <= r[2]
      BY <3>2, <3>3, <3>4, InftyAssumption DEF AtMost, Distances
    <3>6. e[b[1]] \in Nat /\ e[b[1]] <= b[3] + e[r[1]]
      BY <2>5, <3>1, <3>3, <3>4, <3>5, InftyAssumption DEF AtMost, Plus, Distances
    <3>7. e[m[1]] <= m[2] /\ e[m[1]] \in Nat
      BY <2>5, <3>3, <3>5, <3>6
    <3> QED
      BY <3>7, InftyAssumption DEF AtMost
  <2>13. Cardinality(Covered(E)) >= n + 1
    <3>1. Covered(E) = Covered(D) \cup {m[1]} /\ m[1] \notin Covered(D)
      BY <2>2, <2>6 DEF Covered
    <3>2. Cardinality(Covered(E)) = Cardinality(Covered(D)) + 1
      <4>1. PICK C : C = Covered(D)
        OBVIOUS
      <4>2. IsFiniteSet(C)
        BY <1>1, <4>1, CoveredFinite
      <4>3. Cardinality(C \cup {m[1]}) = Cardinality(C) + 1
        BY <3>1, <4>1, <4>2, FS_AddElement
      <4> QED
        BY <3>1, <4>1, <4>3
    <3> QED
      BY <1>1, <1>3, <3>2, CoveredFinite
  <2>14. \A t \in T : <<t, 0>> \in E
    BY <1>1, <2>2
  <2>15. \A e \in Potentials(S, A, T) : \A p \in E : AtMost(e[p[1]], p[2])
    BY <1>1, <2>2, <2>12
  <2> QED
    BY <2>3, <2>7, <2>8, <2>10, <2>11, <2>13, <2>14, <2>15 DEF SettledOK
<1> QED
  BY <1>2, <1>3

\* The function computed is the greatest of the potentials.
LEMMA ShortestPathsFacts ==
  ASSUME NEW S, NEW A, NEW T, IsGraph(S, A, T)
  PROVE  /\ ShortestPaths(S, A, T) \in Potentials(S, A, T)
         /\ \A e \in Potentials(S, A, T) : \A s \in S : AtMost(e[s], ShortestPaths(S, A, T)[s])
<1> DEFINE N == Cardinality(S)
           base == {<<t, 0>> : t \in T}
           Is(f) == f = [n \in 0..N |-> IF n = 0 THEN base
                                        ELSE Only({Settle(A, D) : D \in {f[n - 1]}})]
           settled == CHOOSE f : Is(f)
           TT == SUBSET (S \X Nat)
           F == [D \in TT |-> Settle(A, D)]
<1>1. N \in Nat /\ IsFiniteSet(S) /\ A \subseteq S \X S \X Nat
  BY FS_CardinalityType DEF IsGraph
<1>2. F \in [TT -> TT]
  <2>1. ASSUME NEW D \in TT PROVE Settle(A, D) \in TT
    <3>1. D \subseteq S \X Nat
      OBVIOUS
    <3>2. Unsettled(A, D) \subseteq S \X Nat
      BY <1>1, <3>1, UnsettledFacts
    <3>3. Unsettled(A, D) # {} => Nearest(Unsettled(A, D)) \in S \X Nat
      BY <3>2, NearestFacts
    <3> QED
      BY <3>1, <3>3 DEF Settle
  <2> QED
    BY <2>1
<1>3. base \in TT
  BY DEF IsGraph
<1>4. \A x : Only({x}) = x
  BY DEF Only
<1>5. Is(settled)
  <2>1. PICK f : Iterates(f, N, TT, base, F)
    <3> HIDE DEF N, TT, base, F
    <3> QED
      BY <1>1, <1>2, <1>3, Iteration
  <2>2. \A n \in 0..N : n # 0 =>
           F[f[n - 1]] = Only({Settle(A, D) : D \in {f[n - 1]}})
    <3>1. ASSUME NEW n \in 0..N, n # 0
          PROVE F[f[n - 1]] = Only({Settle(A, D) : D \in {f[n - 1]}})
      <4>1. n - 1 \in 0..N
        BY <1>1, <3>1
      <4>2. f[n - 1] \in TT
        BY <2>1, <4>1 DEF Iterates
      <4>3. F[f[n - 1]] = Settle(A, f[n - 1])
        BY <4>2
      <4>4. {Settle(A, D) : D \in {f[n - 1]}} = {Settle(A, f[n - 1])}
        OBVIOUS
      <4> QED
        BY <1>4, <4>3, <4>4
    <3> QED
      BY <3>1
  <2> HIDE DEF F, base, N, TT
  <2>3. f = [n \in 0..N |-> IF n = 0 THEN base
                            ELSE Only({Settle(A, D) : D \in {f[n - 1]}})]
    BY <2>1, <2>2 DEF Iterates
  <2> QED
    BY <2>3
<1>6. PICK d : d = [s \in S |-> DistanceIn(settled[N], s)]
  OBVIOUS
<1>7. ShortestPaths(S, A, T) = d
  <2>1. ShortestPaths(S, A, T) = Only({[s \in S |-> DistanceIn(D, s)] : D \in {settled[N]}})
    BY DEF ShortestPaths
  <2> HIDE DEF settled, N
  <2>2. {[s \in S |-> DistanceIn(D, s)] : D \in {settled[N]}} = {d}
    BY <1>6
  <2> QED
    BY <1>4, <2>1, <2>2
<1> HIDE DEF settled
<1>8. settled[0] = base
  BY <1>1, <1>5
<1>9. \A n \in 1..N : settled[n] = Settle(A, settled[n - 1])
  <2>1. ASSUME NEW n \in 1..N PROVE settled[n] = Settle(A, settled[n - 1])
    <3>1. n \in 0..N /\ n # 0
      BY <1>1
    <3>2. settled[n] = Only({Settle(A, D) : D \in {settled[n - 1]}})
      BY <1>5, <3>1
    <3>3. {Settle(A, D) : D \in {settled[n - 1]}} = {Settle(A, settled[n - 1])}
      OBVIOUS
    <3> QED
      BY <1>4, <3>2, <3>3
  <2> QED
    BY <2>1
<1> HIDE DEF N, base, Is
<1> DEFINE OK == {n \in 0..N : SettledOK(S, A, T, settled[n], n)}
<1>10. 0 \in OK
  BY <1>1, <1>8, FirstSettled DEF base
<1>11. ASSUME NEW n \in 1..N, n - 1 \in OK PROVE n \in OK
  <2>1. n - 1 \in Nat /\ (n - 1) + 1 = n /\ SettledOK(S, A, T, settled[n - 1], n - 1)
    BY <1>1, <1>11
  <2>2. SettledOK(S, A, T, Settle(A, settled[n - 1]), (n - 1) + 1)
    BY <2>1, SettleKeeps
  <2> QED
    BY <1>1, <1>9, <2>1, <2>2
<1>12. SettledOK(S, A, T, settled[N], N)
  <2>1. N \in OK
    <3> HIDE DEF OK
    <3> QED
      BY <1>1, <1>10, <1>11, Induct
  <2> QED
    BY <2>1
<1>13. PICK D : D = settled[N]
  OBVIOUS
<1>14. /\ D \subseteq S \X Nat
       /\ \A p, q \in D : p[1] = q[1] => p[2] = q[2]
       /\ \A a \in A, p, q \in D : a[2] = p[1] /\ a[1] = q[1] => q[2] <= a[3] + p[2]
       /\ \A t \in T : <<t, 0>> \in D
       /\ \A e \in Potentials(S, A, T) : \A p \in D : AtMost(e[p[1]], p[2])
       /\ Unsettled(A, D) = {} \/ Cardinality(Covered(D)) >= N
  BY <1>12, <1>13 DEF SettledOK
<1>15. Unsettled(A, D) = {}
  <2> SUFFICES ASSUME NEW q \in Unsettled(A, D), Cardinality(Covered(D)) >= N PROVE FALSE
    BY <1>14
  <2>1. Covered(D) = S
    BY <1>1, <1>14, CoveredFinite DEF N
  <2>2. q[1] \in S /\ \A p \in D : p[1] # q[1]
    BY <1>1, <1>14, UnsettledElement
  <2> QED
    BY <2>1, <2>2 DEF Covered
<1>16. \A p \in D : d[p[1]] = p[2]
  BY <1>6, <1>13, <1>14 DEF DistanceIn
<1>17. \A s \in S : d[s] = Infty \/ \E p \in D : p[1] = s /\ d[s] = p[2]
  BY <1>6, <1>13, <1>14 DEF DistanceIn
<1>18. d \in [S -> Distances]
  BY <1>6, <1>14, <1>17 DEF Distances
<1>19. \A t \in T : d[t] = 0
  BY <1>14, <1>16
<1>20. ASSUME NEW a \in A PROVE AtMost(d[a[1]], Plus(a[3], d[a[2]]))
  <2>1. a[1] \in S /\ a[2] \in S /\ a[3] \in Nat
    BY <1>1
  <2>2. CASE d[a[2]] = Infty
    BY <2>2 DEF AtMost, Plus
  <2>3. CASE d[a[2]] # Infty
    <3>1. PICK p \in D : p[1] = a[2] /\ d[a[2]] = p[2]
      BY <1>17, <2>1, <2>3
    <3>2. PICK q \in D : q[1] = a[1]
      <4>1. PICK x : x = <<a[1], a[3] + p[2]>>
        OBVIOUS
      <4>2. x \notin Unsettled(A, D)
        BY <1>15
      <4> QED
        BY <1>1, <1>14, <3>1, <4>1, <4>2, UnsettledFacts
    <3>3. q[2] <= a[3] + p[2] /\ d[a[1]] = q[2] /\ q[2] \in Nat /\ p[2] \in Nat
      BY <1>14, <1>16, <3>1, <3>2
    <3> QED
      BY <2>1, <3>1, <3>3, InftyAssumption DEF AtMost, Plus
  <2> QED
    BY <2>2, <2>3
<1>21. ASSUME NEW e \in Potentials(S, A, T), NEW s \in S PROVE AtMost(e[s], d[s])
  BY <1>14, <1>17 DEF AtMost
<1> QED
  BY <1>7, <1>18, <1>19, <1>20, <1>21 DEF Potentials

-----------------------------------------------------------------------------
(***************************************************************************)
(* Definitions: what the factors are, and which distances they carry.      *)
(***************************************************************************)
\* A factor is a finite transition system, and alpha maps the states of the
\* task to its states or prunes them.
FactorShape(f, L) ==
    /\ IsFiniteSet(f.states) /\ Pruned \notin f.states
    /\ f.goals \subseteq f.states
    /\ \A l \in L : f.trans[l] \subseteq f.states \X f.states
    /\ \A s \in State : f.alpha[s] \in f.states \cup {Pruned}
    /\ f.init = f.alpha[InitialState]

DistancesOK(f, L) ==
    /\ NeedGoalDistances => f.goal_dist = GoalDistances(f, L)
    /\ NeedInitDistances /\ f.init # Pruned => f.init_dist = InitDistances(f, L)

\* What is pruned of the states the search can meet leads to no goal, and to
\* nothing that has not been pruned.
PruningSafe(f) ==
    \A s \in Reachable :
        f.alpha[s] = Pruned =>
            /\ RealDistance[s] = Infty
            /\ \A o \in Op : Applicable(s, o) => f.alpha[Result(s, o)] = Pruned

\* No operator is without a label.
LabelsCover == UNION labels = Op

\* A pruned initial state ends the construction.
InitialStatesKept == phase # "done" => \A i \in active : fts[i].init # Pruned

\* The last factor has not been merged; before the first merge, none has.
LastIsActive ==
    /\ phase \notin {"data", "irrelevant", "create", "crash"} => Len(fts) \in active
    /\ phase \in {"data", "irrelevant", "create", "atomic"} => position \in Nat \ {0}
    /\ phase = "atomic" => active = 1..Len(fts)
    /\ phase = "done" => final \in active

ShapesOK == \A i \in active : FactorShape(fts[i], labels) /\ DistancesOK(fts[i], labels)
PruningIsSafe == \A i \in active : PruningSafe(fts[i])

\* The name of the pruned state is not the name of a state of a product.
PrunedIsNoPair == \A x, y : Pruned # <<x, y>>

DistanceInv ==
    /\ PrunedIsNoPair
    /\ MSInv
    /\ LabelsCover /\ ShapesOK /\ InitialStatesKept /\ LastIsActive

AdmissibleInv == DistanceInv /\ PruningIsSafe

-----------------------------------------------------------------------------
LEMMA AtMostBothWays ==
  ASSUME NEW a \in Distances, NEW b \in Distances, AtMost(a, b), AtMost(b, a)
  PROVE  a = b
BY InftyAssumption DEF AtMost, Distances

LEMMA ZeroAtMost ==
  ASSUME NEW c \in Nat, NEW a \in Distances
  PROVE  Plus(c, a) \in Distances /\ AtMost(0, a) /\ AtMost(0, Plus(c, a))
BY InftyAssumption DEF AtMost, Distances, Plus

\* What a graph's distances satisfy.
LEMMA DistanceFacts ==
  ASSUME NEW S, NEW A, NEW T, IsGraph(S, A, T), NEW d, d = ShortestPaths(S, A, T)
  PROVE  /\ d \in [S -> Distances] /\ \A t \in T : d[t] = 0
         /\ \A s, t \in S, c \in Nat : <<s, t, c>> \in A => AtMost(d[s], Plus(c, d[t]))
<1>1. d \in Potentials(S, A, T)
  BY ShortestPathsFacts
<1>2. /\ d \in [S -> Distances] /\ \A t \in T : d[t] = 0
      /\ \A a \in A : AtMost(d[a[1]], Plus(a[3], d[a[2]]))
  BY <1>1 DEF Potentials
<1> QED
  BY <1>2

\* A lower bound of the distances.
LEMMA LowerBound ==
  ASSUME NEW S, NEW A, NEW T, IsGraph(S, A, T), NEW e \in [S -> Distances],
         \A t \in T : e[t] = 0,
         \A s, t \in S, c \in Nat : <<s, t, c>> \in A => AtMost(e[s], Plus(c, e[t]))
  PROVE  \A s \in S : AtMost(e[s], ShortestPaths(S, A, T)[s])
<1>1. \A a \in A : AtMost(e[a[1]], Plus(a[3], e[a[2]]))
  <2> SUFFICES ASSUME NEW a \in A PROVE AtMost(e[a[1]], Plus(a[3], e[a[2]]))
    OBVIOUS
  <2>1. a \in S \X S \X Nat
    BY DEF IsGraph
  <2>2. a = <<a[1], a[2], a[3]>> /\ a[1] \in S /\ a[2] \in S /\ a[3] \in Nat
    BY <2>1
  <2>3. <<a[1], a[2], a[3]>> \in A
    BY <2>2
  <2> QED
    BY <2>2, <2>3
<1>2. e \in Potentials(S, A, T)
  BY <1>1 DEF Potentials
<1> QED
  BY <1>2, ShortestPathsFacts

\* If states of equal distance are put together, and what is pruned is reached
\* from nothing but what is pruned or infinitely far away, distances are kept.
Quotient(S, A, T, m, d, S2, A2, T2) ==
    /\ IsGraph(S, A, T) /\ Pruned \notin S
    /\ d = ShortestPaths(S, A, T)
    /\ \A s \in S : m[s] = Pruned \/ (m[s] \in S /\ d[m[s]] = d[s])
    /\ S2 = {m[s] : s \in S} \ {Pruned}
    /\ T2 = {m[t] : t \in T} \ {Pruned}
    /\ \A s, t \in S, c \in Nat : <<s, t, c>> \in A /\ m[s] # Pruned /\ m[t] # Pruned =>
           <<m[s], m[t], c>> \in A2
    /\ \A x \in A2 : \E s, t \in S, c \in Nat :
           <<s, t, c>> \in A /\ m[s] # Pruned /\ m[t] # Pruned /\ x = <<m[s], m[t], c>>
    /\ \A s, t \in S, c \in Nat : <<s, t, c>> \in A /\ m[s] # Pruned /\ m[t] = Pruned =>
           d[t] = Infty

LEMMA QuotientIsGraph ==
  ASSUME NEW S, NEW A, NEW T, NEW m, NEW d, NEW S2, NEW A2, NEW T2,
         Quotient(S, A, T, m, d, S2, A2, T2)
  PROVE  IsGraph(S2, A2, T2) /\ S2 \subseteq S
<1>1. S2 \subseteq S
  BY DEF Quotient
<1>2. IsFiniteSet(S2)
  BY <1>1, FS_Subset DEF Quotient, IsGraph
<1>3. T2 \subseteq S2
  <2>1. /\ T \subseteq S /\ S2 = {m[s] : s \in S} \ {Pruned}
        /\ T2 = {m[t] : t \in T} \ {Pruned}
    BY DEF Quotient, IsGraph
  <2> QED
    BY <2>1
<1>4. ASSUME NEW x \in A2 PROVE x \in S2 \X S2 \X Nat
  <2>1. PICK s, t \in S, c \in Nat :
          <<s, t, c>> \in A /\ m[s] # Pruned /\ m[t] # Pruned /\ x = <<m[s], m[t], c>>
    BY DEF Quotient
  <2>2. m[s] \in S2 /\ m[t] \in S2
    BY <2>1 DEF Quotient
  <2> QED
    BY <2>1, <2>2
<1> QED
  BY <1>1, <1>2, <1>3, <1>4 DEF IsGraph

LEMMA QuotientDistances ==
  ASSUME NEW S, NEW A, NEW T, NEW m, NEW d, NEW S2, NEW A2, NEW T2,
         Quotient(S, A, T, m, d, S2, A2, T2)
  PROVE  ShortestPaths(S2, A2, T2) = [s \in S2 |-> d[s]]
<1>1. IsGraph(S2, A2, T2) /\ S2 \subseteq S /\ IsGraph(S, A, T) /\ T \subseteq S /\ T2 \subseteq S2
  <2>1. IsGraph(S2, A2, T2) /\ S2 \subseteq S
    BY QuotientIsGraph
  <2>2. IsGraph(S, A, T)
    BY DEF Quotient
  <2> QED
    BY <2>1, <2>2 DEF IsGraph
<1>2. PICK d2 : d2 = ShortestPaths(S2, A2, T2)
  OBVIOUS
<1>3. /\ d2 \in [S2 -> Distances] /\ \A t \in T2 : d2[t] = 0
      /\ \A s, t \in S2, c \in Nat : <<s, t, c>> \in A2 => AtMost(d2[s], Plus(c, d2[t]))
  BY <1>1, <1>2, DistanceFacts
<1>4. /\ d \in [S -> Distances] /\ \A t \in T : d[t] = 0
      /\ \A s, t \in S, c \in Nat : <<s, t, c>> \in A => AtMost(d[s], Plus(c, d[t]))
  BY <1>1, DistanceFacts DEF Quotient
<1>5. \A s \in S : m[s] # Pruned => m[s] \in S2 /\ d[m[s]] = d[s]
  BY DEF Quotient
<1>6. \A x \in S2 : \E s \in S : x = m[s] /\ m[s] # Pruned
  BY DEF Quotient
<1>7. PICK D : D = [s \in S2 |-> d[s]]
  OBVIOUS
<1>8. \A s \in S2 : AtMost(D[s], d2[s])
  <2>1. D \in [S2 -> Distances]
    BY <1>1, <1>4, <1>7
  <2>2. \A t \in T2 : D[t] = 0
    <3> SUFFICES ASSUME NEW x \in T2 PROVE D[x] = 0
      OBVIOUS
    <3>1. PICK t \in T : x = m[t] /\ m[t] # Pruned
      BY DEF Quotient
    <3>2. D[x] = d[x] /\ d[x] = d[t] /\ d[t] = 0
      BY <1>1, <1>4, <1>5, <1>7, <3>1
    <3> QED
      BY <3>2
  <2>3. ASSUME NEW x \in S2, NEW y \in S2, NEW k \in Nat, <<x, y, k>> \in A2
        PROVE  AtMost(D[x], Plus(k, D[y]))
    <3>1. PICK s, t \in S, c \in Nat : /\ <<s, t, c>> \in A /\ m[s] # Pruned /\ m[t] # Pruned
                                       /\ <<x, y, k>> = <<m[s], m[t], c>>
      BY <2>3 DEF Quotient
    <3>2. x = m[s] /\ y = m[t] /\ k = c
      BY <3>1
    <3>3. D[x] = d[s] /\ D[y] = d[t]
      BY <1>5, <1>7, <3>1, <3>2
    <3> QED
      BY <1>4, <3>1, <3>2, <3>3
  <2> QED
    BY <1>1, <1>2, <2>1, <2>2, <2>3, LowerBound
<1>9. PICK e : e = [s \in S |-> IF m[s] # Pruned THEN d2[m[s]]
                                ELSE IF d[s] = Infty THEN Infty ELSE 0]
  OBVIOUS
<1>10. \A s \in S : AtMost(e[s], d[s])
  <2>1. e \in [S -> Distances]
    <3>1. \A s \in S : e[s] \in Distances
      BY <1>3, <1>5, <1>9 DEF Distances
    <3> QED
      BY <1>9, <3>1
  <2>2. \A t \in T : e[t] = 0
    <3> SUFFICES ASSUME NEW t \in T PROVE e[t] = 0
      OBVIOUS
    <3>1. t \in S /\ d[t] = 0
      BY <1>1, <1>4
    <3>2. CASE m[t] # Pruned
      <4>1. m[t] \in T2
        BY <3>2 DEF Quotient
      <4> QED
        BY <1>3, <1>9, <3>1, <3>2, <4>1
    <3>3. CASE m[t] = Pruned
      BY <1>9, <3>1, <3>3, InftyAssumption
    <3> QED
      BY <3>2, <3>3
  <2>3. ASSUME NEW s \in S, NEW t \in S, NEW c \in Nat, <<s, t, c>> \in A
        PROVE  AtMost(e[s], Plus(c, e[t]))
    <3>1. AtMost(d[s], Plus(c, d[t])) /\ d[s] \in Distances /\ d[t] \in Distances
      BY <1>4, <2>3
    <3>2. e[s] \in Distances /\ e[t] \in Distances
      BY <2>1
    <3>3. d[t] = Infty => e[t] = Infty
      <4> SUFFICES ASSUME d[t] = Infty PROVE e[t] = Infty
        OBVIOUS
      <4>1. CASE m[t] = Pruned
        BY <1>9, <4>1
      <4>2. CASE m[t] # Pruned
        <5>1. m[t] \in S2 /\ D[m[t]] = Infty /\ d2[m[t]] \in Distances
          BY <1>3, <1>5, <1>7, <4>2
        <5>2. AtMost(D[m[t]], d2[m[t]])
          BY <1>8, <5>1
        <5> QED
          BY <1>9, <4>2, <5>1, <5>2 DEF AtMost
      <4> QED
        BY <4>1, <4>2
    <3>4. CASE m[s] # Pruned /\ m[t] # Pruned
      <4>1. <<m[s], m[t], c>> \in A2
        BY <2>3, <3>4 DEF Quotient
      <4>2. e[s] = d2[m[s]] /\ e[t] = d2[m[t]] /\ m[s] \in S2 /\ m[t] \in S2
        BY <1>5, <1>9, <3>4
      <4> QED
        BY <1>3, <4>1, <4>2
    <3>5. CASE m[s] # Pruned /\ m[t] = Pruned
      <4>1. e[t] = Infty
        BY <2>3, <3>3, <3>5 DEF Quotient
      <4> QED
        BY <4>1 DEF AtMost, Plus
    <3>6. CASE m[s] = Pruned /\ d[s] # Infty
      <4>1. e[s] = 0
        BY <1>9, <3>6
      <4> QED
        BY <3>2, <4>1, ZeroAtMost
    <3>7. CASE m[s] = Pruned /\ d[s] = Infty
      <4>1. d[t] = Infty
        BY <3>1, <3>7, InftyAssumption DEF AtMost, Plus, Distances
      <4> QED
        BY <3>3, <4>1 DEF AtMost, Plus
    <3> QED
      BY <3>4, <3>5, <3>6, <3>7
  <2>4. d = ShortestPaths(S, A, T)
    BY DEF Quotient
  <2> QED
    BY <1>1, <2>1, <2>2, <2>3, <2>4, LowerBound
<1>11. ASSUME NEW x \in S2 PROVE d2[x] = D[x]
  <2>1. PICK s \in S : x = m[s] /\ m[s] # Pruned
    BY <1>6
  <2>2. D[x] = d[s] /\ e[s] = d2[x] /\ D[x] \in Distances
    BY <1>4, <1>5, <1>7, <1>9, <2>1
  <2>3. AtMost(d2[x], D[x]) /\ AtMost(D[x], d2[x])
    BY <1>8, <1>10, <2>2
  <2> QED
    BY <1>3, <2>2, <2>3, AtMostBothWays
<1>12. d2 = D
  BY <1>3, <1>7, <1>11
<1> QED
  BY <1>2, <1>7, <1>12

-----------------------------------------------------------------------------
(***************************************************************************)
(* Arcs and distances of a factor                                          *)
(***************************************************************************)
LEMMA TurnedFacts ==
  ASSUME NEW S, NEW A, A \subseteq S \X S \X Nat
  PROVE  /\ Turned(A) \subseteq S \X S \X Nat
         /\ \A s, t, c : <<s, t, c>> \in Turned(A) <=> <<t, s, c>> \in A
<1>1. \A a \in A : a = <<a[1], a[2], a[3]>> /\ <<a[2], a[1], a[3]>> \in S \X S \X Nat
  OBVIOUS
<1>2. ASSUME NEW s, NEW t, NEW c, <<s, t, c>> \in Turned(A) PROVE <<t, s, c>> \in A
  <2>1. PICK a \in A : <<s, t, c>> = <<a[2], a[1], a[3]>>
    BY <1>2 DEF Turned
  <2>2. s = a[2] /\ t = a[1] /\ c = a[3]
    BY <2>1
  <2> QED
    BY <1>1, <2>2
<1>3. ASSUME NEW s, NEW t, NEW c, <<t, s, c>> \in A PROVE <<s, t, c>> \in Turned(A)
  <2>1. PICK a \in A : a = <<t, s, c>>
    BY <1>3
  <2>2. <<a[2], a[1], a[3]>> = <<s, t, c>>
    BY <2>1
  <2> QED
    BY <2>2 DEF Turned
<1> QED
  BY <1>1, <1>2, <1>3 DEF Turned

LEMMA ArcsFacts ==
  ASSUME NEW f, NEW L, \A l \in L : f.trans[l] \subseteq f.states \X f.states, LabelSetOK(L)
  PROVE  /\ ArcsOf(f, L) \subseteq f.states \X f.states \X Nat
         /\ \A s, t, c : <<s, t, c>> \in ArcsOf(f, L) <=>
                \E l \in L : <<s, t>> \in f.trans[l] /\ c = LabelCost(l)
<1>1. \A l \in L : LabelCost(l) \in Nat
  <2> SUFFICES ASSUME NEW l \in L PROVE LabelCost(l) \in Nat
    OBVIOUS
  <2>1. l # {} /\ l \subseteq Op
    BY DEF LabelSetOK
  <2> QED
    BY <2>1, TaskAssumption DEF LabelCost
<1>2. ASSUME NEW l \in L, NEW p \in f.trans[l]
      PROVE  p = <<p[1], p[2]>> /\ <<p[1], p[2], LabelCost(l)>> \in f.states \X f.states \X Nat
  <2>1. p \in f.states \X f.states
    OBVIOUS
  <2> QED
    BY <1>1, <2>1
<1>3. ASSUME NEW s, NEW t, NEW c, <<s, t, c>> \in ArcsOf(f, L)
      PROVE  \E l \in L : <<s, t>> \in f.trans[l] /\ c = LabelCost(l)
  <2>0. PICK l \in L : \E p \in f.trans[l] : <<s, t, c>> = <<p[1], p[2], LabelCost(l)>>
    BY <1>3 DEF ArcsOf
  <2>1. PICK p \in f.trans[l] : <<s, t, c>> = <<p[1], p[2], LabelCost(l)>>
    BY <2>0
  <2>2. s = p[1] /\ t = p[2] /\ c = LabelCost(l)
    BY <2>1
  <2> QED
    BY <1>2, <2>2
<1>4. ASSUME NEW s, NEW t, NEW l \in L, <<s, t>> \in f.trans[l]
      PROVE  <<s, t, LabelCost(l)>> \in ArcsOf(f, L)
  <2>1. PICK p \in f.trans[l] : p = <<s, t>>
    BY <1>4
  <2>2. <<p[1], p[2], LabelCost(l)>> = <<s, t, LabelCost(l)>>
    BY <2>1
  <2> QED
    BY <2>2 DEF ArcsOf
<1>5. ArcsOf(f, L) \subseteq f.states \X f.states \X Nat
  BY <1>2 DEF ArcsOf
<1> QED
  BY <1>3, <1>4, <1>5

LEMMA FactorGraph ==
  ASSUME NEW f, NEW L, FactorShape(f, L), LabelSetOK(L)
  PROVE  /\ IsGraph(f.states, ArcsOf(f, L), f.goals)
         /\ f.init \in f.states \cup {Pruned}
         /\ f.init # Pruned => IsGraph(f.states, Turned(ArcsOf(f, L)), {f.init})
<1>1. /\ IsFiniteSet(f.states) /\ f.goals \subseteq f.states
      /\ f.init \in f.states \cup {Pruned}
      /\ \A l \in L : f.trans[l] \subseteq f.states \X f.states
  BY TaskAssumption DEF FactorShape
<1>2. ArcsOf(f, L) \subseteq f.states \X f.states \X Nat
  BY <1>1, ArcsFacts
<1>3. Turned(ArcsOf(f, L)) \subseteq f.states \X f.states \X Nat
  BY <1>2, TurnedFacts
<1> QED
  BY <1>1, <1>2, <1>3 DEF IsGraph

\* An arc of a factor, for the distances to goals and for those from the
\* initial state.
LEMMA FactorArc ==
  ASSUME NEW f, NEW L, FactorShape(f, L), LabelSetOK(L),
         NEW s, NEW t, NEW c, <<s, t, c>> \in ArcsOf(f, L)
  PROVE  /\ s \in f.states /\ t \in f.states /\ c \in Nat
         /\ AtMost(GoalDistances(f, L)[s], Plus(c, GoalDistances(f, L)[t]))
         /\ f.init # Pruned =>
               AtMost(InitDistances(f, L)[t], Plus(c, InitDistances(f, L)[s]))
<1>1. IsGraph(f.states, ArcsOf(f, L), f.goals)
  BY FactorGraph
<1>2. s \in f.states /\ t \in f.states /\ c \in Nat
  BY <1>1 DEF IsGraph
<1>3. PICK d : d = GoalDistances(f, L)
  OBVIOUS
<1>4. d = ShortestPaths(f.states, ArcsOf(f, L), f.goals)
  BY <1>3 DEF GoalDistances
<1>5. AtMost(d[s], Plus(c, d[t]))
  BY <1>1, <1>2, <1>4, DistanceFacts
<1>6. ASSUME f.init # Pruned
      PROVE  AtMost(InitDistances(f, L)[t], Plus(c, InitDistances(f, L)[s]))
  <2>1. IsGraph(f.states, Turned(ArcsOf(f, L)), {f.init})
    BY <1>6, FactorGraph
  <2>2. PICK e : e = InitDistances(f, L)
    OBVIOUS
  <2>3. e = ShortestPaths(f.states, Turned(ArcsOf(f, L)), {f.init})
    BY <2>2 DEF InitDistances
  <2>4. <<t, s, c>> \in Turned(ArcsOf(f, L))
    BY <1>1, TurnedFacts DEF IsGraph
  <2>5. AtMost(e[t], Plus(c, e[s]))
    BY <1>2, <2>1, <2>3, <2>4, DistanceFacts
  <2> QED
    BY <2>2, <2>5
<1> QED
  BY <1>2, <1>3, <1>5, <1>6

LEMMA SetDistancesFields ==
  ASSUME NEW f, IsRecord(f), NEW x, NEW y, NEW g, g = SetDistances(f, x, y)
  PROVE  /\ IsRecord(g)
         /\ g.states = f.states /\ g.init = f.init /\ g.goals = f.goals
         /\ g.trans = f.trans /\ g.alpha = f.alpha
         /\ NeedGoalDistances => g.goal_dist = x
         /\ NeedInitDistances => g.init_dist = y
<1>1. PICK v, w : /\ g = [f EXCEPT !.goal_dist = v, !.init_dist = w]
                  /\ NeedGoalDistances => v = x
                  /\ NeedInitDistances => w = y
  BY DEF SetDistances
<1> QED
  BY <1>1 DEF IsRecord

LEMMA SameDistances ==
  ASSUME NEW f, NEW g, NEW L, g.states = f.states, g.init = f.init, g.goals = f.goals,
         ArcsOf(g, L) = ArcsOf(f, L)
  PROVE  GoalDistances(g, L) = GoalDistances(f, L) /\ InitDistances(g, L) = InitDistances(f, L)
BY DEF GoalDistances, InitDistances

LEMMA SameArcs ==
  ASSUME NEW f, NEW g, NEW L, g.trans = f.trans
  PROVE  ArcsOf(g, L) = ArcsOf(f, L)
BY DEF ArcsOf

LEMMA SameShape ==
  ASSUME NEW f, NEW g, NEW L, FactorShape(f, L),
         g.states = f.states, g.init = f.init, g.goals = f.goals,
         g.trans = f.trans, g.alpha = f.alpha
  PROVE  FactorShape(g, L)
BY DEF FactorShape

\* Distances computed anew are current.
LEMMA ComputedDistances ==
  ASSUME NEW f, NEW L, IsRecord(f), FactorShape(f, L)
  PROVE  FactorShape(WithDistances(f, L), L) /\ DistancesOK(WithDistances(f, L), L)
<1>1. PICK g : g = WithDistances(f, L)
  OBVIOUS
<1>2. /\ g.states = f.states /\ g.init = f.init /\ g.goals = f.goals
      /\ g.trans = f.trans /\ g.alpha = f.alpha
      /\ NeedGoalDistances => g.goal_dist = GoalDistances(f, L)
      /\ NeedInitDistances => g.init_dist = InitDistances(f, L)
  BY <1>1, SetDistancesFields DEF WithDistances
<1>3. GoalDistances(g, L) = GoalDistances(f, L) /\ InitDistances(g, L) = InitDistances(f, L)
  BY <1>2, SameArcs, SameDistances
<1>4. FactorShape(g, L)
  BY <1>2, SameShape
<1>5. DistancesOK(g, L)
  BY <1>2, <1>3 DEF DistancesOK
<1> QED
  BY <1>1, <1>4, <1>5

-----------------------------------------------------------------------------
(***************************************************************************)
(* Abstractions of a factor: pruning and shrinking                         *)
(***************************************************************************)
\* The classes an abstraction is made of: either no state is without a class,
\* or the dead states are.
ClassesOK(f, classes) ==
    /\ \A B \in classes : B \subseteq f.states
    /\ \A s \in f.states : (\E B \in classes : s \in B) \/ s \in Irrelevant(f) \cup Unreachable(f)
    /\ \/ \A s \in f.states : \E B \in classes : s \in B
       \/ \A s \in f.states : (\E B \in classes : s \in B) => s \notin Irrelevant(f) \cup Unreachable(f)

LEMMA MappingFacts ==
  ASSUME NEW f, NEW classes, Pruned \notin f.states,
         \A B \in classes : B \subseteq f.states,
         NEW m, m = Mapping(f.states, classes), NEW s \in f.states
  PROVE  /\ m[s] = Pruned <=> ~ \E B \in classes : s \in B
         /\ m[s] # Pruned => m[s] \in f.states
         /\ m[s] # Pruned => \E B \in classes : s \in B /\ m[s] \in B
<1>1. CASE \E B \in classes : s \in B
  <2>1. PICK B \in classes : s \in B /\ m[s] = CHOOSE t \in B : TRUE
    <3>1. PICK C : C = CHOOSE B \in classes : s \in B
      OBVIOUS
    <3>2. C \in classes /\ s \in C
      BY <1>1, <3>1
    <3>3. m[s] = CHOOSE t \in C : TRUE
      BY <1>1, <3>1 DEF Mapping
    <3> QED
      BY <3>2, <3>3
  <2>2. m[s] \in B
    BY <2>1
  <2>3. m[s] \in f.states
    BY <2>1, <2>2
  <2> QED
    BY <1>1, <2>1, <2>2, <2>3
<1>2. CASE ~ \E B \in classes : s \in B
  BY <1>2 DEF Mapping
<1> QED
  BY <1>1, <1>2

\* What has been pruned can only be reached from what has been pruned, as far as the
\* distances tell.
LEMMA DeadStates ==
  ASSUME NEW f, FactorShape(f, labels), LabelsOK, DistancesOK(f, labels), f.init # Pruned,
         NEW classes, ClassesOK(f, classes), NEW m, m = Mapping(f.states, classes),
         NEW s, NEW t, NEW c, <<s, t, c>> \in ArcsOf(f, labels)
  PROVE  /\ m[s] # Pruned /\ m[t] = Pruned /\ NeedGoalDistances => f.goal_dist[t] = Infty
         /\ m[t] # Pruned /\ m[s] = Pruned /\ NeedInitDistances => f.init_dist[s] = Infty
<1>1. LabelSetOK(labels) /\ Pruned \notin f.states
  BY DEF LabelsOK, FactorShape
<1>2. s \in f.states /\ t \in f.states /\ c \in Nat
  BY <1>1, FactorArc
<1>3. NeedGoalDistances => AtMost(f.goal_dist[s], Plus(c, f.goal_dist[t]))
  BY <1>1, FactorArc DEF DistancesOK
<1>4. NeedInitDistances => AtMost(f.init_dist[t], Plus(c, f.init_dist[s]))
  BY <1>1, FactorArc DEF DistancesOK
<1>5. /\ \A x \in f.states : m[x] = Pruned <=> ~ \E B \in classes : x \in B
  BY <1>1, MappingFacts DEF ClassesOK
<1>6. NeedGoalDistances => f.goal_dist[s] \in Distances /\ f.goal_dist[t] \in Distances
  <2> SUFFICES ASSUME NeedGoalDistances
               PROVE f.goal_dist[s] \in Distances /\ f.goal_dist[t] \in Distances
    OBVIOUS
  <2>1. PICK d : d = f.goal_dist
    OBVIOUS
  <2>2. d = ShortestPaths(f.states, ArcsOf(f, labels), f.goals)
    BY <2>1 DEF DistancesOK, GoalDistances
  <2>3. IsGraph(f.states, ArcsOf(f, labels), f.goals)
    BY <1>1, FactorGraph
  <2>4. d \in [f.states -> Distances]
    BY <2>2, <2>3, DistanceFacts
  <2>5. d[s] \in Distances /\ d[t] \in Distances
    BY <1>2, <2>4
  <2> QED
    BY <2>1, <2>5
<1>7. NeedInitDistances => f.init_dist[s] \in Distances /\ f.init_dist[t] \in Distances
  <2> SUFFICES ASSUME NeedInitDistances
               PROVE f.init_dist[s] \in Distances /\ f.init_dist[t] \in Distances
    OBVIOUS
  <2>1. PICK d : d = f.init_dist
    OBVIOUS
  <2>2. PICK A, T : A = Turned(ArcsOf(f, labels)) /\ T = {f.init}
    OBVIOUS
  <2>3. d = ShortestPaths(f.states, A, T)
    BY <2>1, <2>2 DEF DistancesOK, InitDistances
  <2>4. d \in [f.states -> Distances]
    <3>1. IsGraph(f.states, A, T)
      BY <1>1, <2>2, FactorGraph
    <3> QED
      BY <2>3, <3>1, DistanceFacts
  <2>5. d[s] \in Distances /\ d[t] \in Distances
    BY <1>2, <2>4
  <2> QED
    BY <2>1, <2>5
<1>8. /\ \A x \in Irrelevant(f) : NeedGoalDistances /\ f.goal_dist[x] = Infty
      /\ \A x \in Unreachable(f) : NeedInitDistances /\ f.init_dist[x] = Infty
  BY DEF Irrelevant, Unreachable, NeedGoalDistances, NeedInitDistances
<1>9. \A x \in f.states : x \notin Irrelevant(f) \cup Unreachable(f) =>
         /\ config.prune_irrelevant => f.goal_dist[x] # Infty
         /\ config.prune_unreachable => f.init_dist[x] # Infty
  BY DEF Irrelevant, Unreachable
<1>10. /\ \A x \in Irrelevant(f) : config.prune_irrelevant
       /\ \A x \in Unreachable(f) : config.prune_unreachable
  BY DEF Irrelevant, Unreachable
<1>11. \A x \in f.states : m[x] = Pruned => x \in Irrelevant(f) \cup Unreachable(f)
  BY <1>5 DEF ClassesOK
<1>12. ASSUME NEW x \in f.states, m[x] = Pruned, NEW y \in f.states, m[y] # Pruned
       PROVE  y \notin Irrelevant(f) \cup Unreachable(f)
  BY <1>5, <1>12 DEF ClassesOK
<1>13. ASSUME m[s] # Pruned, m[t] = Pruned, NeedGoalDistances PROVE f.goal_dist[t] = Infty
  <2>1. t \in Irrelevant(f) \cup Unreachable(f) /\ s \notin Irrelevant(f) \cup Unreachable(f)
    BY <1>2, <1>11, <1>12, <1>13
  <2>2. CASE t \in Irrelevant(f)
    BY <1>8, <2>2
  <2>3. CASE t \in Unreachable(f)
    <3>1. f.init_dist[s] # Infty /\ f.init_dist[t] = Infty /\ NeedInitDistances
      BY <1>2, <1>8, <1>9, <1>10, <2>1, <2>3
    <3> QED
      BY <1>2, <1>4, <1>7, <3>1, InftyAssumption DEF AtMost, Plus, Distances
  <2> QED
    BY <2>1, <2>2, <2>3
<1>14. ASSUME m[t] # Pruned, m[s] = Pruned, NeedInitDistances PROVE f.init_dist[s] = Infty
  <2>1. s \in Irrelevant(f) \cup Unreachable(f) /\ t \notin Irrelevant(f) \cup Unreachable(f)
    BY <1>2, <1>11, <1>12, <1>14
  <2>2. CASE s \in Unreachable(f)
    BY <1>8, <2>2
  <2>3. CASE s \in Irrelevant(f)
    <3>1. f.goal_dist[t] # Infty /\ f.goal_dist[s] = Infty /\ NeedGoalDistances
      BY <1>2, <1>8, <1>9, <1>10, <2>1, <2>3
    <3> QED
      BY <1>2, <1>3, <1>6, <3>1, InftyAssumption DEF AtMost, Plus, Distances
  <2> QED
    BY <2>1, <2>2, <2>3
<1> QED
  BY <1>13, <1>14

\* The image of a factor under a mapping.
IsImage(f, m, g) ==
    /\ IsRecord(g)
    /\ g.states = {m[s] : s \in f.states} \ {Pruned}
    /\ g.init = m[f.init]
    /\ g.goals = AbstractGoals(f, m)
    /\ g.trans = [l \in labels |->
           {<<m[p[1]], m[p[2]]>> :
               p \in {q \in f.trans[l] : m[q[1]] # Pruned /\ m[q[2]] # Pruned}}]
    /\ g.alpha = [s \in State |-> IF f.alpha[s] = Pruned THEN Pruned ELSE m[f.alpha[s]]]

LEMMA AbstractedIsImage ==
  ASSUME NEW f, NEW classes, NEW m, m = Mapping(f.states, classes)
  PROVE  \E g : /\ IsImage(f, m, g)
                /\ \/ Abstracted(f, classes) = f
                   \/ Abstracted(f, classes) = WithDistances(g, labels)
                   \/ /\ Preserved(f, classes)
                      /\ Abstracted(f, classes) =
                            SetDistances(g, [s \in g.states |-> f.goal_dist[s]],
                                            [s \in g.states |-> f.init_dist[s]])
<1> DEFINE image == [states |-> {m[s] : s \in f.states} \ {Pruned},
                     init |-> m[f.init],
                     goals |-> AbstractGoals(f, m),
                     trans |-> [l \in labels |->
                         {<<m[p[1]], m[p[2]]>> :
                             p \in {q \in f.trans[l] : m[q[1]] # Pruned /\ m[q[2]] # Pruned}}],
                     alpha |-> [s \in State |-> IF f.alpha[s] = Pruned THEN Pruned
                                                ELSE m[f.alpha[s]]],
                     goal_dist |-> NotComputed,
                     init_dist |-> NotComputed]
<1>1. IsImage(f, m, image)
  BY DEF IsImage, IsRecord
<1>2. \/ Abstracted(f, classes) = f
      \/ Abstracted(f, classes) = WithDistances(image, labels)
      \/ /\ Preserved(f, classes)
         /\ Abstracted(f, classes) =
               SetDistances(image, [s \in image.states |-> f.goal_dist[s]],
                                   [s \in image.states |-> f.init_dist[s]])
  BY DEF Abstracted
<1> HIDE DEF image
<1> QED
  BY <1>1, <1>2

LEMMA ImageArcs ==
  ASSUME NEW f, NEW m, NEW g, IsImage(f, m, g), FactorShape(f, labels),
         \A s \in f.states : m[s] = Pruned \/ m[s] \in f.states
  PROVE  /\ \A l \in labels : g.trans[l] \subseteq g.states \X g.states
         /\ \A l \in labels : \A s, t : <<s, t>> \in f.trans[l] /\ m[s] # Pruned /\ m[t] # Pruned
               => <<m[s], m[t]>> \in g.trans[l]
         /\ \A l \in labels : \A p \in g.trans[l] : \E s, t \in f.states :
               <<s, t>> \in f.trans[l] /\ m[s] # Pruned /\ m[t] # Pruned /\ p = <<m[s], m[t]>>
<1>1. ASSUME NEW l \in labels, NEW s, NEW t, <<s, t>> \in f.trans[l],
             m[s] # Pruned, m[t] # Pruned
      PROVE  <<m[s], m[t]>> \in g.trans[l]
  <2>1. PICK q \in f.trans[l] : q = <<s, t>>
    BY <1>1
  <2>2. q[1] = s /\ q[2] = t
    BY <2>1
  <2>3. q \in {x \in f.trans[l] : m[x[1]] # Pruned /\ m[x[2]] # Pruned}
    BY <1>1, <2>2
  <2>4. g.trans[l] = {<<m[p[1]], m[p[2]]>> :
               p \in {x \in f.trans[l] : m[x[1]] # Pruned /\ m[x[2]] # Pruned}}
    BY DEF IsImage
  <2>5. <<m[q[1]], m[q[2]]>> \in g.trans[l]
    BY <2>3, <2>4
  <2> QED
    BY <2>2, <2>5
<1>2. ASSUME NEW l \in labels, NEW p \in g.trans[l]
      PROVE  \E s, t \in f.states :
               <<s, t>> \in f.trans[l] /\ m[s] # Pruned /\ m[t] # Pruned /\ p = <<m[s], m[t]>>
  <2>1. g.trans[l] = {<<m[q[1]], m[q[2]]>> :
               q \in {x \in f.trans[l] : m[x[1]] # Pruned /\ m[x[2]] # Pruned}}
    BY DEF IsImage
  <2>2. PICK q \in {x \in f.trans[l] : m[x[1]] # Pruned /\ m[x[2]] # Pruned} :
          p = <<m[q[1]], m[q[2]]>>
    BY <2>1
  <2>3. q \in f.states \X f.states /\ q \in f.trans[l] /\ m[q[1]] # Pruned /\ m[q[2]] # Pruned
    BY DEF FactorShape
  <2>4. PICK s \in f.states, t \in f.states : q = <<s, t>>
    BY <2>3
  <2>5. q[1] = s /\ q[2] = t
    BY <2>4
  <2> QED
    BY <2>2, <2>3, <2>4, <2>5
<1>3. \A s \in f.states : m[s] # Pruned => m[s] \in g.states
  BY DEF IsImage
<1>4. \A l \in labels : \A p \in g.trans[l] : p \in g.states \X g.states
  <2> SUFFICES ASSUME NEW l \in labels, NEW p \in g.trans[l] PROVE p \in g.states \X g.states
    OBVIOUS
  <2>1. PICK s \in f.states, t \in f.states :
          <<s, t>> \in f.trans[l] /\ m[s] # Pruned /\ m[t] # Pruned /\ p = <<m[s], m[t]>>
    BY <1>2
  <2>2. m[s] \in g.states /\ m[t] \in g.states
    BY <1>3, <2>1
  <2> QED
    BY <2>1, <2>2
<1> QED
  BY <1>1, <1>2, <1>4

LEMMA ImageShape ==
  ASSUME NEW f, NEW m, NEW g, IsImage(f, m, g), FactorShape(f, labels), f.init # Pruned,
         \A s \in f.states : m[s] = Pruned \/ m[s] \in f.states
  PROVE  FactorShape(g, labels)
<1>1. IsFiniteSet(f.states) /\ f.goals \subseteq f.states
      /\ \A s \in State : f.alpha[s] \in f.states \cup {Pruned}
      /\ f.init = f.alpha[InitialState]
      /\ Pruned \notin f.states
  BY DEF FactorShape
<1>2. g.states \subseteq f.states /\ \A s \in f.states : m[s] \in g.states \cup {Pruned}
  BY DEF IsImage
<1>3. IsFiniteSet(g.states)
  BY <1>1, <1>2, FS_Subset
<1>4. g.goals \subseteq g.states
  <2>1. g.goals = {m[s] : s \in f.goals} \ {Pruned}
    BY DEF IsImage, AbstractGoals
  <2> QED
    BY <1>1, <1>2, <2>1
<1>5. \A s \in State : g.alpha[s] = IF f.alpha[s] = Pruned THEN Pruned ELSE m[f.alpha[s]]
  BY DEF IsImage
<1>6. \A s \in State : g.alpha[s] \in g.states \cup {Pruned}
  BY <1>1, <1>2, <1>5
<1>7. g.init = g.alpha[InitialState]
  <2>1. g.init = m[f.init]
    BY DEF IsImage
  <2> QED
    BY <1>1, <1>5, <2>1, TaskAssumption
<1>8. \A l \in labels : g.trans[l] \subseteq g.states \X g.states
  BY ImageArcs
<1> QED
  BY <1>1, <1>2, <1>3, <1>4, <1>6, <1>7, <1>8 DEF FactorShape

-----------------------------------------------------------------------------
(***************************************************************************)
(* Distances that are carried over (Distances::apply_abstraction)          *)
(***************************************************************************)
LEMMA ImageArcsOf ==
  ASSUME NEW f, NEW m, NEW g, IsImage(f, m, g), FactorShape(f, labels), LabelsOK,
         \A s \in f.states : m[s] = Pruned \/ m[s] \in f.states
  PROVE  /\ \A s, t, c : <<s, t, c>> \in ArcsOf(f, labels) /\ m[s] # Pruned /\ m[t] # Pruned
               => <<m[s], m[t], c>> \in ArcsOf(g, labels)
         /\ \A x \in ArcsOf(g, labels) : \E s, t \in f.states, c \in Nat :
               /\ <<s, t, c>> \in ArcsOf(f, labels)
               /\ m[s] # Pruned /\ m[t] # Pruned /\ x = <<m[s], m[t], c>>
         /\ ArcsOf(g, labels) \subseteq g.states \X g.states \X Nat
<1>1. LabelSetOK(labels) /\ \A l \in labels : f.trans[l] \subseteq f.states \X f.states
  BY DEF LabelsOK, FactorShape
<1>2. \A l \in labels : g.trans[l] \subseteq g.states \X g.states
  BY ImageArcs
<1>3. /\ ArcsOf(f, labels) \subseteq f.states \X f.states \X Nat
      /\ \A s, t, c : <<s, t, c>> \in ArcsOf(f, labels) <=>
                \E l \in labels : <<s, t>> \in f.trans[l] /\ c = LabelCost(l)
  BY <1>1, ArcsFacts
<1>4. /\ ArcsOf(g, labels) \subseteq g.states \X g.states \X Nat
      /\ \A s, t, c : <<s, t, c>> \in ArcsOf(g, labels) <=>
                \E l \in labels : <<s, t>> \in g.trans[l] /\ c = LabelCost(l)
  BY <1>1, <1>2, ArcsFacts
<1>5. ASSUME NEW s, NEW t, NEW c, <<s, t, c>> \in ArcsOf(f, labels),
             m[s] # Pruned, m[t] # Pruned
      PROVE  <<m[s], m[t], c>> \in ArcsOf(g, labels)
  <2>1. PICK l \in labels : <<s, t>> \in f.trans[l] /\ c = LabelCost(l)
    BY <1>3, <1>5
  <2>2. <<m[s], m[t]>> \in g.trans[l]
    BY <1>5, <2>1, ImageArcs
  <2> QED
    BY <1>4, <2>1, <2>2
<1>6. ASSUME NEW x \in ArcsOf(g, labels)
      PROVE  \E s, t \in f.states, c \in Nat :
               /\ <<s, t, c>> \in ArcsOf(f, labels)
               /\ m[s] # Pruned /\ m[t] # Pruned /\ x = <<m[s], m[t], c>>
  <2>1. PICK u \in g.states, v \in g.states, c \in Nat : x = <<u, v, c>>
    BY <1>4
  <2>2. PICK l \in labels : <<u, v>> \in g.trans[l] /\ c = LabelCost(l)
    BY <1>4, <2>1
  <2>3. PICK s \in f.states, t \in f.states :
          <<s, t>> \in f.trans[l] /\ m[s] # Pruned /\ m[t] # Pruned /\ <<u, v>> = <<m[s], m[t]>>
    BY <2>2, ImageArcs
  <2>4. <<s, t, c>> \in ArcsOf(f, labels)
    BY <1>3, <2>2, <2>3
  <2>5. x = <<m[s], m[t], c>>
    BY <2>1, <2>3
  <2> QED
    BY <2>1, <2>3, <2>4, <2>5
<1> QED
  BY <1>4, <1>5, <1>6

\* Distances that are carried over stay those of the factor
\* (Distances::apply_abstraction).
LEMMA CarriedDistances ==
  ASSUME NEW f, FactorShape(f, labels), LabelsOK, DistancesOK(f, labels), f.init # Pruned,
         NEW classes, ClassesOK(f, classes), Preserved(f, classes),
         NEW m, m = Mapping(f.states, classes), NEW g, IsImage(f, m, g),
         NEW h, h = SetDistances(g, [s \in g.states |-> f.goal_dist[s]],
                                    [s \in g.states |-> f.init_dist[s]])
  PROVE  DistancesOK(h, labels)
<1>1. /\ h.states = g.states /\ h.init = g.init /\ h.goals = g.goals /\ h.trans = g.trans
      /\ NeedGoalDistances => h.goal_dist = [s \in g.states |-> f.goal_dist[s]]
      /\ NeedInitDistances => h.init_dist = [s \in g.states |-> f.init_dist[s]]
  BY SetDistancesFields DEF IsImage
<1>2. GoalDistances(h, labels) = GoalDistances(g, labels)
      /\ InitDistances(h, labels) = InitDistances(g, labels)
  BY <1>1, SameArcs, SameDistances
<1>3. LabelSetOK(labels) /\ Pruned \notin f.states /\ f.goals \subseteq f.states
  BY DEF LabelsOK, FactorShape
<1>4. \A s \in f.states :
         /\ m[s] # Pruned => m[s] \in f.states
         /\ m[s] # Pruned => \E B \in classes : s \in B /\ m[s] \in B
  BY <1>3, MappingFacts DEF ClassesOK
<1>5. \A s \in f.states : m[s] # Pruned =>
         /\ NeedGoalDistances => f.goal_dist[m[s]] = f.goal_dist[s]
         /\ NeedInitDistances => f.init_dist[m[s]] = f.init_dist[s]
  BY <1>4 DEF Preserved
<1>6. g.states = {m[s] : s \in f.states} \ {Pruned} /\ g.init = m[f.init]
      /\ g.goals = {m[t] : t \in f.goals} \ {Pruned}
  BY DEF IsImage, AbstractGoals
<1>7. PICK A : A = ArcsOf(f, labels)
  OBVIOUS
<1>8. PICK A2 : A2 = ArcsOf(g, labels)
  OBVIOUS
<1>9. /\ \A s, t \in f.states, c \in Nat : <<s, t, c>> \in A /\ m[s] # Pruned /\ m[t] # Pruned
               => <<m[s], m[t], c>> \in A2
      /\ \A x \in A2 : \E s, t \in f.states, c \in Nat :
            <<s, t, c>> \in A /\ m[s] # Pruned /\ m[t] # Pruned /\ x = <<m[s], m[t], c>>
      /\ A2 \subseteq g.states \X g.states \X Nat
  BY <1>4, <1>7, <1>8, ImageArcsOf
<1>10. IsGraph(f.states, A, f.goals) /\ IsGraph(f.states, Turned(A), {f.init})
       /\ f.init \in f.states
  BY <1>3, <1>7, FactorGraph
<1>11. ASSUME NeedGoalDistances PROVE h.goal_dist = GoalDistances(h, labels)
  <2>1. PICK d : d = f.goal_dist
    OBVIOUS
  <2>2. d = ShortestPaths(f.states, A, f.goals)
    BY <1>7, <1>11, <2>1 DEF DistancesOK, GoalDistances
  <2>3. \A s \in f.states : m[s] = Pruned \/ (m[s] \in f.states /\ d[m[s]] = d[s])
    BY <1>4, <1>5, <1>11, <2>1
  <2>4. \A s, t \in f.states, c \in Nat :
          <<s, t, c>> \in A /\ m[s] # Pruned /\ m[t] = Pruned => d[t] = Infty
    BY <1>7, <1>11, <2>1, DeadStates
  <2>5. Quotient(f.states, A, f.goals, m, d, g.states, A2, g.goals)
    BY <1>3, <1>6, <1>9, <1>10, <2>2, <2>3, <2>4 DEF Quotient
  <2>6. ShortestPaths(g.states, A2, g.goals) = [s \in g.states |-> d[s]]
    BY <2>5, QuotientDistances
  <2> QED
    BY <1>1, <1>2, <1>8, <1>11, <2>1, <2>6 DEF GoalDistances
<1>12. ASSUME NeedInitDistances, h.init # Pruned PROVE h.init_dist = InitDistances(h, labels)
  <2>1. PICK d : d = f.init_dist
    OBVIOUS
  <2>2. d = ShortestPaths(f.states, Turned(A), {f.init})
    BY <1>7, <1>12, <2>1 DEF DistancesOK, InitDistances
  <2>3. \A s \in f.states : m[s] = Pruned \/ (m[s] \in f.states /\ d[m[s]] = d[s])
    BY <1>4, <1>5, <1>12, <2>1
  <2>4. A \subseteq f.states \X f.states \X Nat
    BY <1>10 DEF IsGraph
  <2>5. /\ \A s, t, c : <<s, t, c>> \in Turned(A) <=> <<t, s, c>> \in A
        /\ \A s, t, c : <<s, t, c>> \in Turned(A2) <=> <<t, s, c>> \in A2
        /\ Turned(A2) \subseteq g.states \X g.states \X Nat
    BY <1>9, <2>4, TurnedFacts
  <2>6. ASSUME NEW s \in f.states, NEW t \in f.states, NEW c \in Nat,
               <<s, t, c>> \in Turned(A), m[s] # Pruned, m[t] = Pruned
        PROVE  d[t] = Infty
    <3>1. <<t, s, c>> \in ArcsOf(f, labels)
      BY <1>7, <2>5, <2>6
    <3>2. f.init_dist[t] = Infty
      BY <1>12, <2>6, <3>1, DeadStates
    <3> QED
      BY <2>1, <3>2
  <2>7. \A s, t \in f.states, c \in Nat :
          <<s, t, c>> \in Turned(A) /\ m[s] # Pruned /\ m[t] # Pruned
          => <<m[s], m[t], c>> \in Turned(A2)
    BY <1>9, <2>5
  <2>8. ASSUME NEW x \in Turned(A2)
        PROVE  \E s, t \in f.states, c \in Nat : /\ <<s, t, c>> \in Turned(A)
                                                 /\ m[s] # Pruned /\ m[t] # Pruned
                                                 /\ x = <<m[s], m[t], c>>
    <3>1. PICK u, v \in g.states, k \in Nat : x = <<u, v, k>>
      BY <2>5
    <3>2. <<v, u, k>> \in A2
      BY <2>5, <3>1
    <3>3. PICK s, t \in f.states, c \in Nat : /\ <<s, t, c>> \in A
                                              /\ m[s] # Pruned /\ m[t] # Pruned
                                              /\ <<v, u, k>> = <<m[s], m[t], c>>
      BY <1>9, <3>2
    <3>4. x = <<m[t], m[s], c>> /\ <<t, s, c>> \in Turned(A)
      BY <2>5, <3>1, <3>3
    <3> QED
      BY <3>3, <3>4
  <2>9. {g.init} = {m[t] : t \in {f.init}} \ {Pruned}
    BY <1>1, <1>6, <1>12
  <2>10. Quotient(f.states, Turned(A), {f.init}, m, d, g.states, Turned(A2), {g.init})
    <3>1. PICK B : B = Turned(A)
      OBVIOUS
    <3>2. PICK B2 : B2 = Turned(A2)
      OBVIOUS
    <3>3. \A s, t \in f.states, c \in Nat :
            <<s, t, c>> \in B /\ m[s] # Pruned /\ m[t] = Pruned => d[t] = Infty
      BY <2>6, <3>1
    <3>4. \A x \in B2 : \E s, t \in f.states, c \in Nat :
            /\ <<s, t, c>> \in B /\ m[s] # Pruned /\ m[t] # Pruned /\ x = <<m[s], m[t], c>>
      BY <2>8, <3>1, <3>2
    <3>5. \A s, t \in f.states, c \in Nat :
            <<s, t, c>> \in B /\ m[s] # Pruned /\ m[t] # Pruned => <<m[s], m[t], c>> \in B2
      BY <2>7, <3>1, <3>2
    <3>6. IsGraph(f.states, B, {f.init}) /\ d = ShortestPaths(f.states, B, {f.init})
      BY <1>10, <2>2, <3>1
    <3>7. Quotient(f.states, B, {f.init}, m, d, g.states, B2, {g.init})
      BY <1>3, <1>6, <2>3, <2>9, <3>3, <3>4, <3>5, <3>6 DEF Quotient
    <3> QED
      BY <3>1, <3>2, <3>7
  <2>11. ShortestPaths(g.states, Turned(A2), {g.init}) = [s \in g.states |-> d[s]]
    BY <2>10, QuotientDistances
  <2> QED
    BY <1>1, <1>2, <1>8, <1>12, <2>1, <2>11 DEF InitDistances
<1> QED
  BY <1>11, <1>12 DEF DistancesOK

\* An abstraction gives a factor whose distances are current.
LEMMA AbstractionDistances ==
  ASSUME NEW f, IsRecord(f), FactorShape(f, labels), LabelsOK, DistancesOK(f, labels),
         f.init # Pruned, NEW classes, ClassesOK(f, classes)
  PROVE  /\ FactorShape(Abstracted(f, classes), labels)
         /\ DistancesOK(Abstracted(f, classes), labels)
<1>1. PICK m : m = Mapping(f.states, classes)
  OBVIOUS
<1>2. PICK g : /\ IsImage(f, m, g)
               /\ \/ Abstracted(f, classes) = f
                  \/ Abstracted(f, classes) = WithDistances(g, labels)
                  \/ /\ Preserved(f, classes)
                     /\ Abstracted(f, classes) =
                           SetDistances(g, [s \in g.states |-> f.goal_dist[s]],
                                           [s \in g.states |-> f.init_dist[s]])
  BY <1>1, AbstractedIsImage
<1>3. \A s \in f.states : m[s] = Pruned \/ m[s] \in f.states
  BY <1>1, MappingFacts DEF ClassesOK, FactorShape
<1>4. FactorShape(g, labels) /\ IsRecord(g)
  BY <1>2, <1>3, ImageShape DEF IsImage
<1>5. CASE Abstracted(f, classes) = f
  BY <1>5
<1>6. CASE Abstracted(f, classes) = WithDistances(g, labels)
  BY <1>4, <1>6, ComputedDistances
<1>7. CASE /\ Preserved(f, classes)
           /\ Abstracted(f, classes) = SetDistances(g, [s \in g.states |-> f.goal_dist[s]],
                                                       [s \in g.states |-> f.init_dist[s]])
  <2>1. PICK h : h = SetDistances(g, [s \in g.states |-> f.goal_dist[s]],
                                     [s \in g.states |-> f.init_dist[s]])
    OBVIOUS
  <2>2. DistancesOK(h, labels)
    BY <1>1, <1>2, <1>7, <2>1, CarriedDistances
  <2>3. FactorShape(h, labels)
    BY <1>4, <2>1, SetDistancesFields, SameShape
  <2> QED
    BY <1>7, <2>1, <2>2, <2>3
<1> QED
  BY <1>2, <1>5, <1>6, <1>7

-----------------------------------------------------------------------------
(***************************************************************************)
(* The operations on factors                                               *)
(***************************************************************************)
\* The states of the task an abstraction prunes.
LEMMA AbstractionAlpha ==
  ASSUME NEW f, NEW classes, FactorShape(f, labels), ClassesOK(f, classes)
  PROVE  \/ \A s \in State : Abstracted(f, classes).alpha[s] = f.alpha[s]
         \/ \A s \in State : Abstracted(f, classes).alpha[s] = Pruned <=>
               f.alpha[s] = Pruned \/ ~ \E B \in classes : f.alpha[s] \in B
<1>1. PICK m : m = Mapping(f.states, classes)
  OBVIOUS
<1>2. PICK g : /\ IsImage(f, m, g)
               /\ \/ Abstracted(f, classes) = f
                  \/ \E d, e : Abstracted(f, classes) = SetDistances(g, d, e)
  <2>1. PICK g : /\ IsImage(f, m, g)
                 /\ \/ Abstracted(f, classes) = f
                    \/ Abstracted(f, classes) = WithDistances(g, labels)
                    \/ Abstracted(f, classes) =
                          SetDistances(g, [s \in g.states |-> f.goal_dist[s]],
                                          [s \in g.states |-> f.init_dist[s]])
    BY <1>1, AbstractedIsImage
  <2>2. WithDistances(g, labels) =
           SetDistances(g, GoalDistances(g, labels), InitDistances(g, labels))
    BY DEF WithDistances
  <2> QED
    BY <2>1, <2>2, Zenon
<1>3. CASE Abstracted(f, classes) = f
  BY <1>3
<1>4. CASE \E d, e : Abstracted(f, classes) = SetDistances(g, d, e)
  <2>1. Abstracted(f, classes).alpha = g.alpha
    BY <1>2, <1>4, SetDistancesFields DEF IsImage
  <2>2. g.alpha = [s \in State |-> IF f.alpha[s] = Pruned THEN Pruned ELSE m[f.alpha[s]]]
    BY <1>2 DEF IsImage
  <2>3. ASSUME NEW s \in State
        PROVE  g.alpha[s] = Pruned <=>
                  f.alpha[s] = Pruned \/ ~ \E B \in classes : f.alpha[s] \in B
    <3>1. CASE f.alpha[s] = Pruned
      BY <2>2, <3>1
    <3>2. CASE f.alpha[s] # Pruned
      <4>1. f.alpha[s] \in f.states
        BY <3>2 DEF FactorShape
      <4>2. m[f.alpha[s]] = Pruned <=> ~ \E B \in classes : f.alpha[s] \in B
        <5>1. PICK x \in f.states : x = f.alpha[s]
          BY <4>1
        <5>2. Pruned \notin f.states /\ \A B \in classes : B \subseteq f.states
          BY DEF FactorShape, ClassesOK
        <5>3. m[x] = Pruned <=> ~ \E B \in classes : x \in B
          BY <1>1, <5>2, MappingFacts
        <5> QED
          BY <5>1, <5>3
      <4> QED
        BY <2>2, <3>2, <4>2
    <3> QED
      BY <3>1, <3>2
  <2> QED
    BY <2>1, <2>3
<1> QED
  BY <1>2, <1>3, <1>4

LEMMA PruningClassesOK ==
  ASSUME NEW f
  PROVE  ClassesOK(f, PruningClasses(f))
<1> DEFINE dead == Irrelevant(f) \cup Unreachable(f)
           kept == {{s} : s \in f.states \ dead}
<1>1. Irrelevant(f) \subseteq f.states /\ Unreachable(f) \subseteq f.states
  BY DEF Irrelevant, Unreachable
<1>2. /\ \A B \in kept : B \subseteq f.states
      /\ \A s \in f.states : (\E B \in kept : s \in B) <=> s \notin dead
  OBVIOUS
<1>3. CASE config.pruning_as_abstraction
  <2>1. PruningClasses(f) = kept \cup ({Irrelevant(f), Unreachable(f) \ Irrelevant(f)} \ {{}})
    BY <1>3 DEF PruningClasses
  <2>2. \A B \in PruningClasses(f) : B \subseteq f.states
    BY <1>1, <1>2, <2>1
  <2>3. ASSUME NEW s \in f.states PROVE \E B \in PruningClasses(f) : s \in B
    <3>1. CASE s \in Irrelevant(f)
      <4>1. Irrelevant(f) \in PruningClasses(f)
        BY <2>1, <3>1
      <4> QED
        BY <3>1, <4>1
    <3>2. CASE s \in Unreachable(f) \ Irrelevant(f)
      <4>1. Unreachable(f) \ Irrelevant(f) \in PruningClasses(f)
        BY <2>1, <3>2
      <4> QED
        BY <3>2, <4>1
    <3>3. CASE s \notin dead
      BY <1>2, <2>1, <3>3
    <3> QED
      BY <3>1, <3>2, <3>3
  <2> QED
    BY <2>2, <2>3 DEF ClassesOK
<1>4. CASE ~config.pruning_as_abstraction
  <2>1. PruningClasses(f) = kept
    BY <1>4 DEF PruningClasses
  <2> HIDE DEF kept
  <2> QED
    BY <1>2, <2>1 DEF ClassesOK
<1> QED
  BY <1>3, <1>4

LEMMA ShrinkClassesOK ==
  ASSUME NEW f, NEW target, NEW P \in Shrunk(f, target)
  PROVE  ClassesOK(f, P) /\ \A s \in f.states : \E B \in P : s \in B
<1>1. UNION P = f.states
  <2>1. CASE P = {{s} : s \in f.states}
    BY <2>1
  <2>2. CASE P \in Equivalences(f, target)
    <3>1. P \in Partitions(f.states)
      BY <2>2 DEF Equivalences
    <3> QED
      BY <3>1 DEF Partitions
  <2> QED
    BY <2>1, <2>2 DEF Shrunk
<1> QED
  BY <1>1 DEF ClassesOK

LEMMA PruneStepDistances ==
  ASSUME NEW f, IsRecord(f), FactorShape(f, labels), LabelsOK, DistancesOK(f, labels),
         f.init # Pruned
  PROVE  FactorShape(PruneStep(f), labels) /\ DistancesOK(PruneStep(f), labels)
BY PruningClassesOK, AbstractionDistances DEF PruneStep

LEMMA ShrinkDistances ==
  ASSUME NEW f, IsRecord(f), FactorShape(f, labels), LabelsOK, DistancesOK(f, labels),
         f.init # Pruned, NEW target, NEW P \in Shrunk(f, target)
  PROVE  /\ FactorShape(Abstracted(f, P), labels) /\ DistancesOK(Abstracted(f, P), labels)
         /\ Abstracted(f, P).init # Pruned
<1>1. ClassesOK(f, P) /\ \A s \in f.states : \E B \in P : s \in B
  BY ShrinkClassesOK
<1>2. FactorShape(Abstracted(f, P), labels) /\ DistancesOK(Abstracted(f, P), labels)
  BY <1>1, AbstractionDistances
<1>3. f.alpha[InitialState] # Pruned /\ f.alpha[InitialState] \in f.states
  BY TaskAssumption DEF FactorShape
<1>4. Abstracted(f, P).alpha[InitialState] # Pruned
  BY <1>1, <1>3, AbstractionAlpha, TaskAssumption
<1> QED
  BY <1>2, <1>4 DEF FactorShape

LEMMA ProductDistances ==
  ASSUME PrunedIsNoPair, NEW f, NEW g, FactorShape(f, labels), FactorShape(g, labels), LabelsOK,
         f.init # Pruned, g.init # Pruned
  PROVE  /\ FactorShape(Product(f, g), labels) /\ DistancesOK(Product(f, g), labels)
         /\ Product(f, g).init # Pruned
         /\ \A s \in State : Product(f, g).alpha[s] = Pruned <=>
               f.alpha[s] = Pruned \/ g.alpha[s] = Pruned
<1> DEFINE h == [states |-> f.states \X g.states,
                 init |-> <<f.init, g.init>>,
                 goals |-> f.goals \X g.goals,
                 trans |-> [l \in labels |-> {<<<<p[1], q[1]>>, <<p[2], q[2]>>>> :
                                                 p \in f.trans[l], q \in g.trans[l]}],
                 alpha |-> [s \in State |-> IF f.alpha[s] = Pruned \/ g.alpha[s] = Pruned
                                            THEN Pruned ELSE <<f.alpha[s], g.alpha[s]>>],
                 goal_dist |-> NotComputed,
                 init_dist |-> NotComputed]
<1>1. /\ IsRecord(h)
      /\ h.states = f.states \X g.states /\ h.init = <<f.init, g.init>>
      /\ h.goals = f.goals \X g.goals
      /\ h.trans = [l \in labels |-> {<<<<p[1], q[1]>>, <<p[2], q[2]>>>> :
                                         p \in f.trans[l], q \in g.trans[l]}]
      /\ h.alpha = [s \in State |-> IF f.alpha[s] = Pruned \/ g.alpha[s] = Pruned
                                    THEN Pruned ELSE <<f.alpha[s], g.alpha[s]>>]
  BY DEF IsRecord
<1>2. Product(f, g) = WithDistances(h, labels)
  BY DEF Product
<1> HIDE DEF h
<1>3. /\ IsFiniteSet(f.states) /\ IsFiniteSet(g.states)
      /\ f.goals \subseteq f.states /\ g.goals \subseteq g.states
      /\ f.init = f.alpha[InitialState] /\ g.init = g.alpha[InitialState]
      /\ \A s \in State : f.alpha[s] \in f.states \cup {Pruned} /\ g.alpha[s] \in g.states \cup {Pruned}
  BY DEF FactorShape
<1>4. IsFiniteSet(h.states) /\ Pruned \notin h.states /\ h.goals \subseteq h.states
  <2>1. IsFiniteSet(h.states)
    BY <1>1, <1>3, FS_Product
  <2> QED
    BY <1>1, <1>3, <2>1 DEF PrunedIsNoPair
<1>5. ASSUME NEW l \in labels, NEW x \in h.trans[l] PROVE x \in h.states \X h.states
  <2>1. PICK p \in f.trans[l], q \in g.trans[l] : x = <<<<p[1], q[1]>>, <<p[2], q[2]>>>>
    BY <1>1
  <2>2. p \in f.states \X f.states /\ q \in g.states \X g.states
    BY DEF FactorShape
  <2> QED
    BY <1>1, <2>1, <2>2
<1>6. \A s \in State : /\ h.alpha[s] \in h.states \cup {Pruned}
                       /\ h.alpha[s] = Pruned <=> f.alpha[s] = Pruned \/ g.alpha[s] = Pruned
  BY <1>1, <1>3 DEF PrunedIsNoPair
<1>7. h.init = h.alpha[InitialState] /\ h.init # Pruned
  BY <1>1, <1>3, TaskAssumption DEF PrunedIsNoPair
<1>8. FactorShape(h, labels)
  BY <1>4, <1>5, <1>6, <1>7 DEF FactorShape
<1>9. /\ WithDistances(h, labels).init = h.init /\ WithDistances(h, labels).alpha = h.alpha
  BY <1>1, SetDistancesFields DEF WithDistances
<1> QED
  BY <1>1, <1>2, <1>6, <1>7, <1>8, <1>9, ComputedDistances

-----------------------------------------------------------------------------
LEMMA DomainFinite ==
  ASSUME NEW v \in Var
  PROVE  IsFiniteSet(Domain[v])
<1>1. [s \in State |-> s[v]] \in Surjection(State, Domain[v])
  <2>1. [s \in State |-> s[v]] \in [State -> Domain[v]]
    BY DEF State
  <2>2. ASSUME NEW x \in Domain[v] PROVE \E s \in State : [t \in State |-> t[v]][s] = x
    <3>1. PICK s : s = [InitialState EXCEPT ![v] = x]
      OBVIOUS
    <3>2. s \in State /\ s[v] = x
      BY <3>1, TaskAssumption DEF State
    <3> QED
      BY <3>2
  <2> QED
    BY <2>1, <2>2 DEF Surjection
<1> QED
  BY <1>1, FS_Surjection, TaskAssumption

LEMMA AtomicTransShape ==
  ASSUME NEW v \in Var, NEW o \in Op
  PROVE  AtomicTrans(v, o) \subseteq Domain[v] \X Domain[v]
<1> DEFINE pre == {f[2] : f \in {g \in Pre[o] : g[1] = v}}
           from == IF pre = {} THEN Domain[v] ELSE pre
           effects == {e \in Effects[o] : e.fact[1] = v}
           MayFire(x, e) == \A f \in e.cond : f[1] = v => f[2] = x
           MayFail(x, e) == \E f \in e.cond : f[1] # v \/ f[2] # x
           fire == UNION {{<<x, e.fact[2]>> : x \in {y \in from : MayFire(y, e)}} : e \in effects}
           fail == {<<x, x>> : x \in {y \in from : \E e \in effects : MayFail(y, e)}}
<1>7. AtomicTrans(v, o) = IF effects = {} THEN {<<x, x>> : x \in from} ELSE fire \cup fail
  BY DEF AtomicTrans
<1>1. \A g \in Facts : g[1] = v => g[2] \in Domain[v]
  BY DEF Facts
<1>2. Pre[o] \subseteq Facts /\ \A e \in Effects[o] : e.fact \in Facts
  BY TaskAssumption
<1>3. from \subseteq Domain[v]
  BY <1>1, <1>2
<1>4. \A e \in effects : e.fact[2] \in Domain[v]
  BY <1>1, <1>2
<1> HIDE DEF from
<1>5. \A x \in AtomicTrans(v, o) : \E y \in from, z \in Domain[v] : x = <<y, z>>
  <2> SUFFICES ASSUME NEW x \in AtomicTrans(v, o)
               PROVE  \E y \in from, z \in Domain[v] : x = <<y, z>>
    OBVIOUS
  <2>1. \/ \E y \in from : x = <<y, y>>
        \/ \E e \in effects : \E y \in from : x = <<y, e.fact[2]>>
    <3> HIDE DEF MayFire, MayFail, effects
    <3>1. \A y \in fire : \E e \in effects : \E z \in from : y = <<z, e.fact[2]>>
      OBVIOUS
    <3>2. \A y \in fail : \E z \in from : y = <<z, z>>
      OBVIOUS
    <3> HIDE DEF fire, fail
    <3> QED
      BY <1>7, <3>1, <3>2
  <2> HIDE DEF effects
  <2> QED
    BY <1>3, <1>4, <2>1
<1> QED
  BY <1>3, <1>5

LEMMA AtomicDistances ==
  ASSUME NEW v \in Var
  PROVE  /\ FactorShape(WithDistances(AtomicFactor(v), InitialLabels), InitialLabels)
         /\ DistancesOK(WithDistances(AtomicFactor(v), InitialLabels), InitialLabels)
         /\ WithDistances(AtomicFactor(v), InitialLabels).init # Pruned
         /\ \A s \in State : WithDistances(AtomicFactor(v), InitialLabels).alpha[s] # Pruned
<1>1. PICK f : f = AtomicFactor(v)
  OBVIOUS
<1>2. /\ IsRecord(f) /\ f.states = Domain[v] /\ f.init = InitialState[v]
      /\ f.goals = {x \in Domain[v] : \A g \in Goal : g[1] = v => g[2] = x}
      /\ f.trans = [l \in InitialLabels |-> AtomicTrans(v, CHOOSE o \in l : TRUE)]
      /\ f.alpha = [s \in State |-> s[v]]
  BY <1>1 DEF IsRecord, AtomicFactor
<1>3. ASSUME NEW l \in InitialLabels PROVE f.trans[l] \subseteq f.states \X f.states
  <2>1. (CHOOSE o \in l : TRUE) \in Op
    BY DEF InitialLabels
  <2>2. f.trans[l] = AtomicTrans(v, CHOOSE o \in l : TRUE)
    BY <1>2
  <2> QED
    BY <1>2, <2>1, <2>2, AtomicTransShape
<1>4. Pruned \notin Domain[v] /\ IsFiniteSet(Domain[v])
  BY PrunedAssumption, DomainFinite
<1>5. \A s \in State : f.alpha[s] \in Domain[v]
  BY <1>2 DEF State
<1>6. FactorShape(f, InitialLabels)
  BY <1>2, <1>3, <1>4, <1>5, TaskAssumption DEF FactorShape
<1>7. /\ WithDistances(f, InitialLabels).init = f.init
      /\ WithDistances(f, InitialLabels).alpha = f.alpha
  BY <1>2, SetDistancesFields DEF WithDistances
<1>8. f.init # Pruned /\ \A s \in State : f.alpha[s] # Pruned
  BY <1>2, <1>4, <1>5, TaskAssumption
<1> QED
  BY <1>1, <1>2, <1>6, <1>7, <1>8, ComputedDistances

-----------------------------------------------------------------------------
(***************************************************************************)
(* Label reduction                                                         *)
(***************************************************************************)
LEMMA FactorArcs ==
  ASSUME NEW f, NEW L, FactorShape(f, L), LabelSetOK(L)
  PROVE  /\ ArcsOf(f, L) \subseteq f.states \X f.states \X Nat
         /\ \A s, t, c : <<s, t, c>> \in ArcsOf(f, L) <=>
                \E l \in L : <<s, t>> \in f.trans[l] /\ c = LabelCost(l)
<1>1. \A l \in L : f.trans[l] \subseteq f.states \X f.states
  BY DEF FactorShape
<1> QED
  BY <1>1, ArcsFacts

LEMMA NewOfOldLabel ==
  ASSUME NEW i, NEW k \in labels
  PROVE  \E l \in NewLabels(i) : k \in OldLabels(l)
<1>1. CASE k \in UNION LabelMapping(i)
  <2>1. PICK K \in LabelMapping(i) : k \in K
    BY <1>1
  <2>2. UNION K \in NewLabels(i)
    BY DEF NewLabels
  <2>3. k \in OldLabels(UNION K)
    BY <2>1 DEF OldLabels
  <2> QED
    BY <2>2, <2>3
<1>2. CASE k \notin UNION LabelMapping(i)
  BY <1>2 DEF NewLabels, OldLabels
<1> QED
  BY <1>1, <1>2

LEMMA NewLabelsCover ==
  ASSUME LabelsOK, NEW i
  PROVE  UNION NewLabels(i) = UNION labels
<1>1. ASSUME NEW l \in NewLabels(i) PROVE l \subseteq UNION labels
  BY OldLabelsOfNew DEF OldLabels
<1>2. ASSUME NEW k \in labels PROVE k \subseteq UNION NewLabels(i)
  BY NewOfOldLabel DEF OldLabels
<1> QED
  BY <1>1, <1>2

ReducedFactor(f, i, j) ==
    [f EXCEPT !.trans = [l \in NewLabels(i) |-> ReducedTrans(f, j = i, l)]]

\* Transitions of the old labels are united in the factor of the reduction, in
\* the others one is taken.
TransReduced(f, g, i, j) ==
    \A l \in NewLabels(i) :
        /\ j = i => g.trans[l] = UNION {f.trans[m] : m \in OldLabels(l)}
        /\ j # i => \E m \in OldLabels(l) : g.trans[l] = f.trans[m]

LEMMA ReducedFactorFields ==
  ASSUME LabelsOK, NEW f, IsRecord(f), NEW i, NEW j, NEW g, g = ReducedFactor(f, i, j)
  PROVE  /\ TransReduced(f, g, i, j)
         /\ g.states = f.states /\ g.init = f.init /\ g.goals = f.goals /\ g.alpha = f.alpha
         /\ g.goal_dist = f.goal_dist /\ g.init_dist = f.init_dist
<1>1. PICK tr : tr = [l \in NewLabels(i) |-> ReducedTrans(f, j = i, l)]
  BY Zenon
<1>2. g = [f EXCEPT !.trans = tr]
  BY <1>1, Zenon DEF ReducedFactor
<1>3. /\ g.states = f.states /\ g.init = f.init /\ g.goals = f.goals /\ g.alpha = f.alpha
      /\ g.goal_dist = f.goal_dist /\ g.init_dist = f.init_dist /\ g.trans = tr
  BY <1>2 DEF IsRecord
<1>4. ASSUME NEW l \in NewLabels(i), j = i
      PROVE  tr[l] = UNION {f.trans[m] : m \in OldLabels(l)}
  BY <1>1, <1>4, Zenon DEF ReducedTrans
<1>5. ASSUME NEW l \in NewLabels(i), j # i
      PROVE  \E m \in OldLabels(l) : tr[l] = f.trans[m]
  <2>1. tr[l] = f.trans[CHOOSE k \in OldLabels(l) : TRUE]
    BY <1>1, <1>5, Zenon DEF ReducedTrans
  <2>2. OldLabels(l) # {}
    BY OldLabelsOfNew
  <2> QED
    BY <2>1, <2>2
<1> QED
  BY <1>3, <1>4, <1>5 DEF TransReduced

\* A label reduction keeps the arcs of a factor and what they cost.
LEMMA ReducedArcs ==
  ASSUME LabelsOK, NEW i, NEW j \in active, NEW f, f = fts[j], FactorShape(f, labels),
         NEW g, g.states = f.states, TransReduced(f, g, i, j)
  PROVE  /\ \A l \in NewLabels(i) : g.trans[l] \subseteq g.states \X g.states
         /\ ArcsOf(g, NewLabels(i)) = ArcsOf(f, labels)
<1> DEFINE L == NewLabels(i)
<1>1. LabelSetOK(labels) /\ LabelSetOK(L)
  BY NewLabelsOK DEF LabelsOK
<1>2. \A l \in labels : f.trans[l] \subseteq f.states \X f.states
  BY DEF FactorShape
<1>3. ASSUME NEW l \in L, NEW k \in OldLabels(l)
      PROVE  k \in labels /\ LabelCost(l) = LabelCost(k) /\ f.trans[k] \subseteq g.trans[l]
  <2>1. k \in labels /\ k \subseteq l
    BY DEF OldLabels
  <2>2. PICK o \in k : TRUE
    BY <1>1, <2>1 DEF LabelSetOK
  <2>3. LabelCost(k) = Cost[o]
    BY <2>1, CostOfLabel
  <2>4. LabelCost(l) = Cost[o]
    BY <1>1, <2>1, <2>2 DEF LabelSetOK, LabelCost
  <2>5. CASE j = i
    <3>1. g.trans[l] = UNION {f.trans[m] : m \in OldLabels(l)}
      BY <2>5 DEF TransReduced
    <3> QED
      BY <2>1, <2>3, <2>4, <3>1
  <2>6. CASE j # i
    <3>1. PICK m \in OldLabels(l) : g.trans[l] = f.trans[m]
      BY <2>6 DEF TransReduced
    <3>2. f.trans[k] = f.trans[m]
      BY <2>6, OldLabelsOfNew DEF Combinable
    <3> QED
      BY <2>1, <2>3, <2>4, <3>1, <3>2
  <2> QED
    BY <2>5, <2>6
<1>4. ASSUME NEW l \in L, NEW p \in g.trans[l]
      PROVE  \E k \in OldLabels(l) : p \in f.trans[k]
  <2>1. OldLabels(l) # {}
    BY OldLabelsOfNew
  <2>2. CASE j = i
    <3>1. g.trans[l] = UNION {f.trans[m] : m \in OldLabels(l)}
      BY <2>2 DEF TransReduced
    <3> QED
      BY <3>1
  <2>3. CASE j # i
    <3>1. PICK m \in OldLabels(l) : g.trans[l] = f.trans[m]
      BY <2>1, <2>3 DEF TransReduced
    <3> QED
      BY <3>1
  <2> QED
    BY <2>2, <2>3
<1> HIDE DEF L
<1>5. \A l \in L : g.trans[l] \subseteq g.states \X g.states
  <2> SUFFICES ASSUME NEW l \in L, NEW p \in g.trans[l] PROVE p \in g.states \X g.states
    OBVIOUS
  <2>1. PICK k \in OldLabels(l) : p \in f.trans[k]
    BY <1>4
  <2> QED
    BY <1>2, <1>3, <2>1
<1>6. /\ ArcsOf(f, labels) \subseteq f.states \X f.states \X Nat
      /\ \A s, t, c : <<s, t, c>> \in ArcsOf(f, labels) <=>
                \E l \in labels : <<s, t>> \in f.trans[l] /\ c = LabelCost(l)
  BY <1>1, FactorArcs
<1>7. /\ ArcsOf(g, L) \subseteq g.states \X g.states \X Nat
      /\ \A s, t, c : <<s, t, c>> \in ArcsOf(g, L) <=>
                \E l \in L : <<s, t>> \in g.trans[l] /\ c = LabelCost(l)
  BY <1>1, <1>5, ArcsFacts
<1>8. ASSUME NEW s, NEW t, NEW c, <<s, t, c>> \in ArcsOf(g, L)
      PROVE  <<s, t, c>> \in ArcsOf(f, labels)
  <2>1. PICK l \in L : <<s, t>> \in g.trans[l] /\ c = LabelCost(l)
    BY <1>7, <1>8
  <2>2. PICK k \in OldLabels(l) : <<s, t>> \in f.trans[k]
    BY <1>4, <2>1
  <2>3. k \in labels /\ c = LabelCost(k)
    BY <1>3, <2>1
  <2> QED
    BY <1>6, <2>2, <2>3
<1>9. ASSUME NEW s, NEW t, NEW c, <<s, t, c>> \in ArcsOf(f, labels)
      PROVE  <<s, t, c>> \in ArcsOf(g, L)
  <2>1. PICK k \in labels : <<s, t>> \in f.trans[k] /\ c = LabelCost(k)
    BY <1>6, <1>9
  <2>2. PICK l \in L : k \in OldLabels(l)
    BY NewOfOldLabel DEF L
  <2>3. <<s, t>> \in g.trans[l] /\ c = LabelCost(l)
    BY <1>3, <2>1, <2>2
  <2> QED
    BY <1>7, <2>3
<1>10. ArcsOf(g, L) = ArcsOf(f, labels)
  <2>1. PICK A : A = ArcsOf(f, labels)
    OBVIOUS
  <2>2. PICK B : B = ArcsOf(g, L)
    OBVIOUS
  <2>3. A \subseteq f.states \X f.states \X Nat /\ B \subseteq f.states \X f.states \X Nat
    BY <1>6, <1>7, <2>1, <2>2
  <2>4. \A s, t, c : <<s, t, c>> \in A <=> <<s, t, c>> \in B
    BY <1>8, <1>9, <2>1, <2>2
  <2>5. A = B
    BY <2>3, <2>4
  <2> QED
    BY <2>1, <2>2, <2>5
<1> QED
  BY <1>5, <1>10 DEF L

LEMMA ReducedDistances ==
  ASSUME LabelsOK, NEW i, NEW j \in active, NEW f, f = fts[j], IsRecord(f),
         FactorShape(f, labels), DistancesOK(f, labels),
         NEW g, g = ReducedFactor(f, i, j)
  PROVE  /\ FactorShape(g, NewLabels(i)) /\ DistancesOK(g, NewLabels(i))
         /\ g.init = f.init /\ g.alpha = f.alpha
<1>1. PICK L : L = NewLabels(i)
  OBVIOUS
<1>2. /\ g.states = f.states /\ g.init = f.init /\ g.goals = f.goals /\ g.alpha = f.alpha
      /\ g.goal_dist = f.goal_dist /\ g.init_dist = f.init_dist
  BY ReducedFactorFields
<1>3. /\ \A l \in L : g.trans[l] \subseteq g.states \X g.states
      /\ ArcsOf(g, L) = ArcsOf(f, labels)
  BY <1>1, <1>2, ReducedFactorFields, ReducedArcs
<1>4. FactorShape(g, L)
  BY <1>2, <1>3 DEF FactorShape
<1>5. GoalDistances(g, L) = GoalDistances(f, labels) /\ InitDistances(g, L) = InitDistances(f, labels)
  BY <1>2, <1>3 DEF GoalDistances, InitDistances
<1>6. DistancesOK(g, L)
  BY <1>2, <1>5 DEF DistancesOK
<1> QED
  BY <1>1, <1>2, <1>4, <1>6

-----------------------------------------------------------------------------
(***************************************************************************)
(* The actions and the distances                                           *)
(***************************************************************************)
LEMMA ShapesAfter ==
  ASSUME config' = config,
         \A i \in active' : FactorShape(fts'[i], labels') /\ DistancesOK(fts'[i], labels')
  PROVE  ShapesOK'
BY DEF ShapesOK, FactorShape, DistancesOK, NeedGoalDistances, NeedInitDistances

\* What the invariant says of one factor.
LEMMA ActiveFactor ==
  ASSUME DistanceInv, NEW i \in active
  PROVE  /\ IsRecord(fts[i]) /\ FactorShape(fts[i], labels) /\ DistancesOK(fts[i], labels)
         /\ LabelsOK /\ i \in 1..Len(fts)
         /\ phase # "done" => fts[i].init # Pruned
BY DEF DistanceInv, MSInv, FactorsOK, FactorOK, ShapesOK, InitialStatesKept, SequenceOK

LEMMA InitDistanceInv ==
  ASSUME PrunedIsNoPair, Init
  PROVE  DistanceInv
<1>1. MSInv
  BY InitMSInv
<1>2. LabelsCover
  BY DEF Init, LabelsCover, InitialLabels
<1> QED
  BY <1>1, <1>2 DEF Init, DistanceInv, ShapesOK, InitialStatesKept, LastIsActive

\* Steps that change no factor and no label.
LEMMA DistancesUnchanged ==
  ASSUME DistanceInv, MSInv', UNCHANGED <<config, labels, fts, active>>,
         InitialStatesKept', LastIsActive'
  PROVE  DistanceInv'
<1>1. ShapesOK'
  BY ShapesAfter DEF DistanceInv, ShapesOK
<1> QED
  BY <1>1 DEF DistanceInv, LabelsCover

LEMMA BuildDistances ==
  ASSUME DistanceInv, MSInv', Build \/ BuildDone
  PROVE  DistanceInv'
<1>1. UNCHANGED <<config, labels, fts, active, final>> /\ phase # "done" /\ phase' # "done"
      /\ phase \in {"data", "irrelevant"} /\ phase' \in {"data", "irrelevant", "create"}
  BY DEF Build, BuildDone
<1>2. position' \in Nat \ {0}
  <2>1. position \in Nat \ {0}
    BY <1>1 DEF DistanceInv, LastIsActive
  <2>2. CASE Build
    BY <2>1, <2>2, VarFinite DEF Build
  <2>3. CASE BuildDone
    BY <2>3 DEF BuildDone
  <2> QED
    BY <2>2, <2>3
<1>3. InitialStatesKept'
  BY <1>1 DEF DistanceInv, InitialStatesKept
<1>4. LastIsActive'
  BY <1>1, <1>2 DEF LastIsActive
<1> QED
  BY <1>1, <1>3, <1>4, DistancesUnchanged

LEMMA OtherDistances ==
  ASSUME DistanceInv, MSInv',
         \/ AtomicDone \/ ReductionDone \/ LoopEnds \/ Finished \/ UNCHANGED vars
         \/ \E i, j \in active : GetNext(i, j)
         \/ \E i \in active : OutOfTime(i)
  PROVE  DistanceInv'
<1>1. UNCHANGED <<config, labels, fts, active>>
  BY DEF AtomicDone, ReductionDone, LoopEnds, Finished, vars, GetNext, OutOfTime
<1>2. CASE Finished \/ UNCHANGED vars
  <2>1. UNCHANGED <<phase, position, final>>
    BY <1>2 DEF Finished, vars
  <2> QED
    BY <1>1, <2>1, DistancesUnchanged DEF DistanceInv, InitialStatesKept, LastIsActive
<1>3. CASE ~(Finished \/ UNCHANGED vars)
  <2>1. phase \in {"atomic", "next", "reduce_before_shrinking", "shrink",
                   "reduce_before_merging", "merge", "prune"}
    BY <1>3 DEF AtomicDone, ReductionDone, LoopEnds, GetNext, OutOfTime, TimeIsChecked
  <2>2. phase' \in {"next", "reduce_before_shrinking", "shrink", "merge", "done"}
    BY <1>3 DEF AtomicDone, ReductionDone, LoopEnds, GetNext, OutOfTime
  <2>3. Len(fts) \in active
    BY <2>1 DEF DistanceInv, LastIsActive
  <2>4. phase' = "done" => final' \in active
    BY <1>3, <2>3 DEF AtomicDone, ReductionDone, LoopEnds, GetNext, OutOfTime
  <2>5. InitialStatesKept'
    BY <1>1, <2>1 DEF DistanceInv, InitialStatesKept
  <2>6. LastIsActive'
    BY <1>1, <2>2, <2>3, <2>4 DEF LastIsActive
  <2> QED
    BY <1>1, <2>5, <2>6, DistancesUnchanged
<1> QED
  BY <1>2, <1>3

LEMMA CreateDistances ==
  ASSUME DistanceInv, MSInv', Create
  PROVE  DistanceInv' /\ (valid # 0 => \A i \in active' : \A s \in State : fts'[i].alpha[s] # Pruned)
<1>1. CASE valid = 0
  <2>1. UNCHANGED <<config, labels, fts, active>> /\ phase = "create" /\ phase' = "crash"
    BY <1>1 DEF Create
  <2> QED
    BY <1>1, <2>1, DistancesUnchanged DEF DistanceInv, InitialStatesKept, LastIsActive
<1>2. CASE valid # 0
  <2>1. /\ labels = InitialLabels /\ position \in Nat \ {0}
        /\ valid \in Nat /\ 1..valid \subseteq Var
    BY TaskAssumption, VarFinite DEF DistanceInv, MSInv, CreationOK, Create, LastIsActive
  <2>2. /\ fts' = [v \in 1..valid |-> WithDistances(AtomicFactor(v), InitialLabels)]
        /\ active' = 1..valid /\ phase' = "atomic" /\ UNCHANGED <<config, labels, position>>
    BY <1>2 DEF Create
  <2>3. IsSequence(fts') /\ Len(fts') = valid
    BY <2>1, <2>2, FunctionIsSequence
  <2>4. ASSUME NEW i \in active'
        PROVE  /\ FactorShape(fts'[i], labels') /\ DistancesOK(fts'[i], labels')
               /\ fts'[i].init # Pruned /\ \A s \in State : fts'[i].alpha[s] # Pruned
    <3>1. i \in Var /\ fts'[i] = WithDistances(AtomicFactor(i), InitialLabels)
      BY <2>1, <2>2
    <3>2. labels' = InitialLabels
      BY <2>1, <2>2
    <3> QED
      BY <3>1, <3>2, AtomicDistances
  <2>5. ShapesOK' /\ InitialStatesKept'
    BY <2>2, <2>4, ShapesAfter DEF InitialStatesKept
  <2>6. LastIsActive'
    BY <1>2, <2>1, <2>2, <2>3 DEF LastIsActive
  <2> QED
    BY <2>2, <2>4, <2>5, <2>6 DEF DistanceInv, LabelsCover
<1> QED
  BY <1>1, <1>2

LEMMA PruneDistances ==
  ASSUME DistanceInv, MSInv', phase # "done", NEW n \in active,
         fts' = [fts EXCEPT ![n] = PruneStep(fts[n])],
         UNCHANGED <<config, labels, active>>,
         phase' # "done" => IsSolvable(PruneStep(fts[n]))
  PROVE  /\ ShapesOK' /\ LabelsCover' /\ InitialStatesKept' /\ Len(fts') = Len(fts)
         /\ \A i \in active : fts'[i] = IF i = n THEN PruneStep(fts[n]) ELSE fts[i]
<1>1. /\ IsSequence(fts') /\ Len(fts') = Len(fts)
      /\ \A j \in 1..Len(fts) : fts'[j] = IF j = n THEN PruneStep(fts[n]) ELSE fts[j]
  BY PrunedFactors DEF DistanceInv, MSInv
<1>2. \A i \in active : fts'[i] = IF i = n THEN PruneStep(fts[n]) ELSE fts[i]
  BY <1>1, ActiveFactor
<1>3. ASSUME NEW i \in active' PROVE FactorShape(fts'[i], labels') /\ DistancesOK(fts'[i], labels')
  <2>1. i \in active /\ labels' = labels
    OBVIOUS
  <2>2. FactorShape(PruneStep(fts[i]), labels) /\ DistancesOK(PruneStep(fts[i]), labels)
    BY <2>1, ActiveFactor, PruneStepDistances
  <2> QED
    BY <1>2, <2>1, <2>2, ActiveFactor
<1>4. ShapesOK'
  BY <1>3, ShapesAfter
<1>5. InitialStatesKept'
  <2> SUFFICES ASSUME phase' # "done", NEW i \in active' PROVE fts'[i].init # Pruned
    BY DEF InitialStatesKept
  <2>1. PruneStep(fts[n]).init # Pruned
    BY DEF IsSolvable
  <2> QED
    BY <1>2, <2>1, ActiveFactor
<1> QED
  BY <1>1, <1>2, <1>4, <1>5 DEF DistanceInv, LabelsCover

LEMMA PruneAtomicDistances ==
  ASSUME DistanceInv, MSInv', PruneAtomic \/ Prune
  PROVE  /\ DistanceInv'
         /\ \E n \in active : \A i \in active :
               fts'[i] = IF i = n THEN PruneStep(fts[n]) ELSE fts[i]
<1>1. CASE PruneAtomic
  <2>1. /\ fts' = [fts EXCEPT ![position] = PruneStep(fts[position])]
        /\ UNCHANGED <<config, labels, active>> /\ phase = "atomic" /\ position <= Len(fts)
        /\ \/ /\ IsSolvable(PruneStep(fts[position])) /\ phase' = "atomic"
              /\ position' = position + 1
           \/ phase' = "done" /\ final' = position
    BY <1>1 DEF PruneAtomic
  <2>2. position \in Nat \ {0} /\ active = 1..Len(fts) /\ Len(fts) \in active
    BY <2>1 DEF DistanceInv, LastIsActive
  <2>3. position \in active
    BY <2>1, <2>2
  <2>4. /\ ShapesOK' /\ LabelsCover' /\ InitialStatesKept' /\ Len(fts') = Len(fts)
        /\ \A i \in active : fts'[i] = IF i = position THEN PruneStep(fts[position]) ELSE fts[i]
    BY <2>1, <2>3, PruneDistances DEF DistanceInv
  <2>5. LastIsActive'
    BY <2>1, <2>2, <2>3, <2>4 DEF LastIsActive
  <2> QED
    BY <2>3, <2>4, <2>5 DEF DistanceInv
<1>2. CASE Prune
  <2>1. /\ fts' = [fts EXCEPT ![Len(fts)] = PruneStep(fts[Len(fts)])]
        /\ UNCHANGED <<config, labels, active>> /\ phase = "prune"
        /\ \/ IsSolvable(PruneStep(fts[Len(fts)])) /\ phase' = "next"
           \/ phase' = "done" /\ final' = Len(fts)
    BY <1>2 DEF Prune
  <2>2. Len(fts) \in active
    BY <2>1 DEF DistanceInv, LastIsActive
  <2>3. /\ ShapesOK' /\ LabelsCover' /\ InitialStatesKept' /\ Len(fts') = Len(fts)
        /\ \A i \in active : fts'[i] = IF i = Len(fts) THEN PruneStep(fts[Len(fts)]) ELSE fts[i]
    BY <2>1, <2>2, PruneDistances DEF DistanceInv
  <2>4. LastIsActive'
    BY <2>1, <2>2, <2>3 DEF LastIsActive
  <2> QED
    BY <2>2, <2>3, <2>4 DEF DistanceInv
<1> QED
  BY <1>1, <1>2

\* The factors after a label reduction.
LEMMA ReducedFactors ==
  ASSUME SequenceOK, NEW i, Reduce(i)
  PROVE  /\ labels' = NewLabels(i) /\ Len(fts') = Len(fts)
         /\ \A j \in active : fts'[j] = ReducedFactor(fts[j], i, j)
<1>1. IsSequence(fts) /\ Len(fts) \in Nat /\ DOMAIN fts = 1..Len(fts)
      /\ active \subseteq 1..Len(fts)
  BY SequenceDomain DEF SequenceOK
<1>2. labels' = NewLabels(i)
  BY DEF Reduce
<1>3. fts' = [j \in DOMAIN fts |-> IF j \in active THEN ReducedFactor(fts[j], i, j) ELSE fts[j]]
  BY Zenon DEF Reduce, ReducedFactor
<1>4. \A j \in active : fts'[j] = ReducedFactor(fts[j], i, j)
  BY <1>1, <1>3
<1>5. fts' = [j \in 1..Len(fts) |-> fts'[j]]
  BY <1>1, <1>3
<1>6. Len(fts') = Len(fts)
  BY <1>1, <1>5, FunctionIsSequence
<1> QED
  BY <1>2, <1>4, <1>6

LEMMA ReduceLabelsDistances ==
  ASSUME DistanceInv, MSInv', ReduceLabels
  PROVE  DistanceInv' /\ \A i \in active : fts'[i].alpha = fts[i].alpha
<1>1. /\ UNCHANGED <<config, phase, active>>
      /\ phase \in {"reduce_before_shrinking", "reduce_before_merging"}
  BY ConfigurationsAssumption DEF ReduceLabels, ReducesNow, DistanceInv, MSInv
<1>2. CASE UNCHANGED <<labels, fts>>
  BY <1>1, <1>2, DistancesUnchanged DEF DistanceInv, InitialStatesKept, LastIsActive
<1>3. CASE Reduce(ReductionIndex)
  <2>1. PICK r : r = ReductionIndex
    OBVIOUS
  <2>2. Reduce(r)
    BY <1>3, <2>1
  <2>3. SequenceOK /\ LabelsOK
    BY DEF DistanceInv, MSInv
  <2>4. /\ labels' = NewLabels(r) /\ Len(fts') = Len(fts)
        /\ \A j \in active : fts'[j] = ReducedFactor(fts[j], r, j)
    BY <2>2, <2>3, ReducedFactors
  <2>5. ASSUME NEW j \in active
        PROVE  /\ FactorShape(fts'[j], labels') /\ DistancesOK(fts'[j], labels')
               /\ fts'[j].init = fts[j].init /\ fts'[j].alpha = fts[j].alpha
    <3>1. PICK f : f = fts[j]
      OBVIOUS
    <3>2. PICK g : g = ReducedFactor(f, r, j)
      OBVIOUS
    <3>3. IsRecord(f) /\ FactorShape(f, labels) /\ DistancesOK(f, labels)
      BY <3>1, ActiveFactor
    <3>4. /\ FactorShape(g, NewLabels(r)) /\ DistancesOK(g, NewLabels(r))
          /\ g.init = f.init /\ g.alpha = f.alpha
      BY <2>3, <3>1, <3>2, <3>3, ReducedDistances
    <3> QED
      BY <2>4, <3>1, <3>2, <3>4
  <2>6. ShapesOK'
    BY <1>1, <2>5, ShapesAfter
  <2>7. LabelsCover'
    BY <2>3, <2>4, NewLabelsCover DEF DistanceInv, LabelsCover
  <2>8. InitialStatesKept'
    BY <1>1, <2>5, ActiveFactor DEF InitialStatesKept
  <2>9. LastIsActive'
    BY <1>1, <2>4 DEF DistanceInv, LastIsActive
  <2> QED
    BY <2>5, <2>6, <2>7, <2>8, <2>9 DEF DistanceInv
<1> QED
  BY <1>2, <1>3 DEF ReduceLabels

LEMMA ShrinkStepDistances ==
  ASSUME DistanceInv, MSInv', Shrink
  PROVE  /\ DistanceInv'
         /\ \A k \in active : \A s \in State : fts'[k].alpha[s] = Pruned <=> fts[k].alpha[s] = Pruned
<1>1. /\ UNCHANGED <<config, labels, active>>
      /\ phase = "shrink" /\ phase' = "reduce_before_merging"
  BY DEF Shrink
<1>2. IndicesOK /\ SequenceOK /\ LabelsOK
  BY DEF DistanceInv, MSInv
<1>3. PICK i \in active, j \in active : \E P, Q : ShrinkStep(i, j, P, Q)
  BY <1>2, ShrunkFactors
<1>4. PICK P, Q : ShrinkStep(i, j, P, Q)
  BY <1>3
<1>5. ASSUME NEW f, IsRecord(f), FactorShape(f, labels), DistancesOK(f, labels), f.init # Pruned,
             NEW B, \E t : B \in Shrunk(f, t), NEW g, g = Abstracted(f, B)
      PROVE  /\ FactorShape(g, labels) /\ DistancesOK(g, labels) /\ g.init # Pruned
             /\ \A s \in State : g.alpha[s] = Pruned <=> f.alpha[s] = Pruned
  <2>1. FactorShape(g, labels) /\ DistancesOK(g, labels) /\ g.init # Pruned
    BY <1>2, <1>5, ShrinkDistances
  <2>2. ClassesOK(f, B) /\ \A s \in f.states : \E C \in B : s \in C
    BY <1>5, ShrinkClassesOK
  <2>3. \A s \in State : f.alpha[s] \in f.states \cup {Pruned}
    BY <1>5 DEF FactorShape
  <2>4. \/ \A s \in State : g.alpha[s] = f.alpha[s]
        \/ \A s \in State : g.alpha[s] = Pruned <=>
               f.alpha[s] = Pruned \/ ~ \E C \in B : f.alpha[s] \in C
    BY <1>5, <2>2, AbstractionAlpha
  <2> QED
    BY <2>1, <2>2, <2>3, <2>4
<1>6. ASSUME NEW k \in active
      PROVE  /\ FactorShape(fts'[k], labels) /\ DistancesOK(fts'[k], labels)
             /\ fts'[k].init # Pruned
             /\ \A s \in State : fts'[k].alpha[s] = Pruned <=> fts[k].alpha[s] = Pruned
  <2>1. /\ IsRecord(fts[k]) /\ FactorShape(fts[k], labels) /\ DistancesOK(fts[k], labels)
        /\ fts[k].init # Pruned /\ k \in 1..Len(fts)
    BY <1>1, ActiveFactor
  <2>2. fts'[k] = IF k = i THEN Abstracted(fts[k], P)
                  ELSE IF k = j THEN Abstracted(fts[k], Q) ELSE fts[k]
    BY <1>4, <2>1 DEF ShrinkStep
  <2>3. /\ k = i => \E t : P \in Shrunk(fts[k], t)
        /\ k = j => \E t : Q \in Shrunk(fts[k], t)
    BY <1>4 DEF ShrinkStep
  <2> QED
    BY <1>5, <2>1, <2>2, <2>3
<1>7. ShapesOK'
  BY <1>1, <1>6, ShapesAfter
<1>8. InitialStatesKept'
  BY <1>1, <1>6 DEF InitialStatesKept
<1>9. LastIsActive'
  BY <1>1, <1>4 DEF DistanceInv, LastIsActive, ShrinkStep
<1> QED
  BY <1>1, <1>6, <1>7, <1>8, <1>9 DEF DistanceInv, LabelsCover

LEMMA MergeDistances ==
  ASSUME DistanceInv, MSInv', Merge
  PROVE  /\ DistanceInv'
         /\ \A k \in active' :
               \/ k \in active /\ fts'[k] = fts[k]
               \/ \E i, j \in active : \A s \in State :
                     fts'[k].alpha[s] = Pruned <=> fts[i].alpha[s] = Pruned \/ fts[j].alpha[s] = Pruned
<1>1. UNCHANGED <<config, labels>> /\ phase = "merge" /\ phase' = "prune"
  BY DEF Merge
<1>2. IndicesOK /\ SequenceOK /\ LabelsOK /\ PrunedIsNoPair
  BY DEF DistanceInv, MSInv
<1>3. PICK i \in active, j \in active : MergeStep(i, j)
  BY <1>2, MergedFactors
<1>4. /\ FactorShape(fts[i], labels) /\ fts[i].init # Pruned
      /\ FactorShape(fts[j], labels) /\ fts[j].init # Pruned
  BY <1>1, ActiveFactor
<1>5. PICK p : p = Product(fts[i], fts[j])
  OBVIOUS
<1>6. /\ FactorShape(p, labels) /\ DistancesOK(p, labels) /\ p.init # Pruned
      /\ \A s \in State : p.alpha[s] = Pruned <=>
               fts[i].alpha[s] = Pruned \/ fts[j].alpha[s] = Pruned
  BY <1>2, <1>4, <1>5, ProductDistances
<1>7. /\ active' = (active \ {i, j}) \cup {Len(fts) + 1}
      /\ fts'[Len(fts) + 1] = p /\ Len(fts') = Len(fts) + 1
      /\ \A k \in active \ {i, j} : fts'[k] = fts[k]
  BY <1>3, <1>5 DEF MergeStep
<1>8. ASSUME NEW k \in active'
      PROVE  /\ FactorShape(fts'[k], labels') /\ DistancesOK(fts'[k], labels')
             /\ fts'[k].init # Pruned
             /\ \/ k \in active /\ fts'[k] = fts[k]
                \/ \E x, y \in active : \A s \in State :
                     fts'[k].alpha[s] = Pruned <=> fts[x].alpha[s] = Pruned \/ fts[y].alpha[s] = Pruned
  <2>1. CASE k = Len(fts) + 1
    BY <1>1, <1>6, <1>7, <2>1
  <2>2. CASE k \in active \ {i, j}
    <3>1. fts'[k] = fts[k]
      BY <1>7, <2>2
    <3>2. FactorShape(fts[k], labels) /\ DistancesOK(fts[k], labels) /\ fts[k].init # Pruned
      BY <1>1, <2>2, ActiveFactor
    <3> QED
      BY <1>1, <2>2, <3>1, <3>2
  <2> QED
    BY <1>7, <2>1, <2>2
<1>9. ShapesOK'
  BY <1>1, <1>8, ShapesAfter
<1>10. InitialStatesKept'
  BY <1>8 DEF InitialStatesKept
<1>11. LastIsActive'
  BY <1>1, <1>7 DEF LastIsActive
<1> QED
  BY <1>1, <1>8, <1>9, <1>10, <1>11 DEF DistanceInv, LabelsCover

LEMMA NextDistances ==
  ASSUME DistanceInv, [Next]_vars
  PROVE  DistanceInv'
<1>1. MSInv'
  BY NextKeeps DEF DistanceInv
<1> QED
  BY <1>1, BuildDistances, CreateDistances, PruneAtomicDistances, ReduceLabelsDistances,
     ShrinkStepDistances, MergeDistances, OtherDistances DEF Next, Step

\* Every factor is a finite transition system that carries its own distances,
\* after each operation of the main loop and each step of the creation
\* (merge_and_shrink_heuristic.cc, build).
THEOREM DistancesInvariant == PrunedIsNoPair /\ Spec => []DistanceInv
<1>1. PrunedIsNoPair /\ Init => DistanceInv
  BY InitDistanceInv
<1>2. DistanceInv /\ [Next]_vars => DistanceInv'
  BY NextDistances
<1> QED
  BY <1>1, <1>2, PTL DEF Spec

\* The distances Distances::apply_abstraction carries over to the classes of an
\* abstraction (distances.cc), and those apply_label_reduction does not compute
\* anew, are those of the factor at every step.
THEOREM DistancesStayCurrent == PrunedIsNoPair /\ Spec => []DistancesAreCurrent
<1>1. DistanceInv => DistancesAreCurrent
  BY DEF DistanceInv, ShapesOK, DistancesOK, DistancesAreCurrent
<1> QED
  BY <1>1, DistancesInvariant, PTL

-----------------------------------------------------------------------------
(***************************************************************************)
(* Distances of a factor are lower bounds of those of the task             *)
(***************************************************************************)
\* The states of the task form a graph.
LEMMA RealGraph ==
  /\ IsGraph(State, RealArcs, GoalStates)
  /\ IsGraph(State, Turned(RealArcs), {InitialState})
  /\ \A s \in State, o \in Op : Applicable(s, o) => <<s, Result(s, o), Cost[o]>> \in RealArcs
  /\ \A s, t, c : <<s, t, c>> \in RealArcs =>
        s \in State /\ \E o \in Op : Applicable(s, o) /\ t = Result(s, o) /\ c = Cost[o]
<1>1. ASSUME NEW a \in RealArcs
      PROVE  \E s \in State, o \in Op : Applicable(s, o) /\ a = <<s, Result(s, o), Cost[o]>>
  <2>1. PICK p \in {q \in State \X Op : Applicable(q[1], q[2])} :
          a = <<p[1], Result(p[1], p[2]), Cost[p[2]]>>
    BY DEF RealArcs
  <2> QED
    BY <2>1
<1>2. ASSUME NEW s \in State, NEW o \in Op, Applicable(s, o)
      PROVE  <<s, Result(s, o), Cost[o]>> \in RealArcs
  <2>1. PICK p : p = <<s, o>>
    OBVIOUS
  <2>2. p \in State \X Op /\ p[1] = s /\ p[2] = o
    BY <2>1
  <2>3. p \in {q \in State \X Op : Applicable(q[1], q[2])}
    BY <1>2, <2>2
  <2>4. <<p[1], Result(p[1], p[2]), Cost[p[2]]>> \in RealArcs
    BY <2>3 DEF RealArcs
  <2> QED
    BY <2>2, <2>4
<1>3. RealArcs \subseteq State \X State \X Nat
  <2> SUFFICES ASSUME NEW a \in RealArcs PROVE a \in State \X State \X Nat
    OBVIOUS
  <2>1. PICK s \in State, o \in Op : a = <<s, Result(s, o), Cost[o]>>
    BY <1>1
  <2>2. Result(s, o) \in State /\ Cost[o] \in Nat
    BY ResultInState, TaskAssumption
  <2> QED
    BY <2>1, <2>2
<1>4. IsFiniteSet(State) /\ GoalStates \subseteq State /\ InitialState \in State
  BY TaskAssumption DEF GoalStates
<1>5. Turned(RealArcs) \subseteq State \X State \X Nat
  BY <1>3, TurnedFacts
<1>6. ASSUME NEW s, NEW t, NEW c, <<s, t, c>> \in RealArcs
      PROVE  s \in State /\ \E o \in Op : Applicable(s, o) /\ t = Result(s, o) /\ c = Cost[o]
  <2>1. PICK x \in State, o \in Op :
          Applicable(x, o) /\ <<s, t, c>> = <<x, Result(x, o), Cost[o]>>
    BY <1>1, <1>6
  <2>2. s = x /\ t = Result(x, o) /\ c = Cost[o]
    BY <2>1
  <2> QED
    BY <2>1, <2>2
<1> QED
  BY <1>2, <1>3, <1>4, <1>5, <1>6 DEF IsGraph

LEMMA RealDistanceFacts ==
  /\ RealDistance \in [State -> Distances]
  /\ \A s \in GoalStates : RealDistance[s] = 0
  /\ \A s \in State, o \in Op : Applicable(s, o) =>
        AtMost(RealDistance[s], Plus(Cost[o], RealDistance[Result(s, o)]))
<1>1. PICK d : d = RealDistance
  OBVIOUS
<1>2. d = ShortestPaths(State, RealArcs, GoalStates)
  BY <1>1 DEF RealDistance
<1>3. /\ d \in [State -> Distances] /\ \A t \in GoalStates : d[t] = 0
      /\ \A s, t \in State, c \in Nat : <<s, t, c>> \in RealArcs => AtMost(d[s], Plus(c, d[t]))
  BY <1>2, RealGraph, DistanceFacts
<1>4. ASSUME NEW s \in State, NEW o \in Op, Applicable(s, o)
      PROVE  AtMost(d[s], Plus(Cost[o], d[Result(s, o)]))
  <2>1. Result(s, o) \in State /\ Cost[o] \in Nat
    BY ResultInState, TaskAssumption
  <2>2. <<s, Result(s, o), Cost[o]>> \in RealArcs
    BY <1>4, RealGraph
  <2> QED
    BY <1>3, <2>1, <2>2
<1> QED
  BY <1>1, <1>3, <1>4

RealInitDistance == ShortestPaths(State, Turned(RealArcs), {InitialState})

LEMMA ReachableFacts ==
  /\ Reachable = {s \in State : RealInitDistance[s] # Infty}
  /\ InitialState \in Reachable
  /\ \A s \in Reachable, o \in Op : Applicable(s, o) => Result(s, o) \in Reachable
<1>1. Reachable = {s \in State : RealInitDistance[s] # Infty}
  BY DEF Reachable, RealInitDistance
<1>2. PICK d : d = RealInitDistance
  OBVIOUS
<1>3. d = ShortestPaths(State, Turned(RealArcs), {InitialState})
  BY <1>2 DEF RealInitDistance
<1>4. /\ d \in [State -> Distances] /\ d[InitialState] = 0
      /\ \A s, t \in State, c \in Nat :
            <<s, t, c>> \in Turned(RealArcs) => AtMost(d[s], Plus(c, d[t]))
  <2>1. PICK T : T = {InitialState}
    OBVIOUS
  <2>2. IsGraph(State, Turned(RealArcs), T) /\ d = ShortestPaths(State, Turned(RealArcs), T)
    BY <1>3, <2>1, RealGraph
  <2>3. /\ d \in [State -> Distances] /\ \A t \in T : d[t] = 0
        /\ \A s, t \in State, c \in Nat :
              <<s, t, c>> \in Turned(RealArcs) => AtMost(d[s], Plus(c, d[t]))
    BY <2>2, DistanceFacts
  <2> QED
    BY <2>1, <2>3
<1>5. InitialState \in Reachable
  BY <1>1, <1>2, <1>4, InftyAssumption, TaskAssumption
<1>6. ASSUME NEW s \in Reachable, NEW o \in Op, Applicable(s, o)
      PROVE  Result(s, o) \in Reachable
  <2>1. s \in State /\ Result(s, o) \in State /\ Cost[o] \in Nat /\ d[s] # Infty
    BY <1>1, <1>2, ResultInState, TaskAssumption
  <2>2. <<s, Result(s, o), Cost[o]>> \in RealArcs
    BY <1>6, <2>1, RealGraph
  <2>3. <<Result(s, o), s, Cost[o]>> \in Turned(RealArcs)
    BY <2>2, RealGraph, TurnedFacts DEF IsGraph
  <2>4. AtMost(d[Result(s, o)], Plus(Cost[o], d[s]))
    BY <1>4, <2>1, <2>3
  <2>5. d[Result(s, o)] # Infty
    BY <1>4, <2>1, <2>4, InftyAssumption DEF AtMost, Plus, Distances
  <2> QED
    BY <1>1, <1>2, <2>1, <2>5
<1> QED
  BY <1>1, <1>5, <1>6

\* What is needed of a factor to compare its distances with those of the task.
Abstraction(f) ==
    FactorOK(f, labels) /\ FactorShape(f, labels) /\ LabelsOK /\ LabelsCover /\ PruningSafe(f)

LEMMA AbstractStep ==
  ASSUME NEW f, FactorOK(f, labels), LabelsOK, LabelsCover,
         NEW s \in State, NEW o \in Op, Applicable(s, o),
         f.alpha[s] # Pruned, f.alpha[Result(s, o)] # Pruned
  PROVE  <<f.alpha[s], f.alpha[Result(s, o)], Cost[o]>> \in ArcsOf(f, labels)
<1>1. PICK l \in labels : o \in l
  BY DEF LabelsCover
<1>2. PICK p \in f.trans[l] : p = <<f.alpha[s], f.alpha[Result(s, o)]>>
  BY <1>1 DEF FactorOK, KeepsTransitions
<1>3. LabelCost(l) = Cost[o]
  BY <1>1, CostOfLabel
<1>4. <<p[1], p[2], LabelCost(l)>> = <<f.alpha[s], f.alpha[Result(s, o)], Cost[o]>>
  BY <1>2, <1>3
<1>5. <<p[1], p[2], LabelCost(l)>> \in ArcsOf(f, labels)
  BY DEF ArcsOf
<1> QED
  BY <1>4, <1>5

\* Goal distances of a factor are lower bounds, for what can be reached.
LEMMA GoalBound ==
  ASSUME NEW f, Abstraction(f), NEW s \in Reachable, f.alpha[s] # Pruned
  PROVE  AtMost(GoalDistances(f, labels)[f.alpha[s]], RealDistance[s])
<1>1. PICK d : d = GoalDistances(f, labels)
  OBVIOUS
<1>2. PICK real : real = RealDistance
  OBVIOUS
<1>3. /\ FactorOK(f, labels) /\ FactorShape(f, labels) /\ LabelsOK /\ LabelsCover
      /\ PruningSafe(f) /\ LabelSetOK(labels)
  BY DEF Abstraction, LabelsOK
<1>4. d \in [f.states -> Distances] /\ \A t \in f.goals : d[t] = 0
  <2>1. d = ShortestPaths(f.states, ArcsOf(f, labels), f.goals)
    BY <1>1 DEF GoalDistances
  <2>2. IsGraph(f.states, ArcsOf(f, labels), f.goals)
    BY <1>3, FactorGraph
  <2> QED
    BY <2>1, <2>2, DistanceFacts
<1>5. /\ real \in [State -> Distances] /\ \A t \in GoalStates : real[t] = 0
      /\ \A t \in State, o \in Op : Applicable(t, o) =>
            AtMost(real[t], Plus(Cost[o], real[Result(t, o)]))
  BY <1>2, RealDistanceFacts
<1>6. \A t \in State : f.alpha[t] # Pruned => f.alpha[t] \in f.states
  BY <1>3 DEF FactorShape
<1>7. PICK e : e = [t \in State |-> IF real[t] = Infty THEN Infty
                                    ELSE IF t \notin Reachable \/ f.alpha[t] = Pruned THEN 0
                                    ELSE d[f.alpha[t]]]
  OBVIOUS
<1>8. \A t \in State : e[t] = IF real[t] = Infty THEN Infty
                              ELSE IF t \notin Reachable \/ f.alpha[t] = Pruned THEN 0
                              ELSE d[f.alpha[t]]
  BY <1>7
<1>9. e \in [State -> Distances]
  <2>1. \A t \in State : e[t] \in Distances
    BY <1>4, <1>6, <1>8 DEF Distances
  <2> QED
    BY <1>7, <2>1
<1>10. ASSUME NEW t \in GoalStates PROVE e[t] = 0
  <2>1. t \in State /\ real[t] = 0 /\ real[t] # Infty
    BY <1>5, InftyAssumption DEF GoalStates
  <2>2. f.alpha[t] # Pruned => d[f.alpha[t]] = 0
    BY <1>3, <1>4 DEF FactorOK, KeepsGoals
  <2> QED
    BY <1>8, <2>1, <2>2
<1>11. ASSUME NEW t \in State, NEW u \in State, NEW c \in Nat, <<t, u, c>> \in RealArcs
       PROVE  AtMost(e[t], Plus(c, e[u]))
  <2>1. PICK o \in Op : Applicable(t, o) /\ u = Result(t, o) /\ c = Cost[o]
    BY <1>11, RealGraph
  <2>2. e[u] \in Distances
    BY <1>9
  <2>3. CASE real[u] = Infty
    <3>1. e[u] = Infty
      BY <1>8, <2>3
    <3> QED
      BY <3>1 DEF AtMost, Plus
  <2>4. CASE real[u] # Infty /\ (t \notin Reachable \/ f.alpha[t] = Pruned)
    <3>1. real[t] # Infty
      BY <1>5, <2>1, <2>4, InftyAssumption DEF AtMost, Plus, Distances
    <3>2. e[t] = 0
      BY <1>8, <2>4, <3>1
    <3> QED
      BY <2>2, <3>2, ZeroAtMost
  <2>5. CASE real[u] # Infty /\ t \in Reachable /\ f.alpha[t] # Pruned
    <3>1. real[t] # Infty
      BY <1>5, <2>1, <2>5, InftyAssumption DEF AtMost, Plus, Distances
    <3>2. u \in Reachable
      BY <2>1, <2>5, ReachableFacts
    <3>3. f.alpha[u] # Pruned
      BY <1>2, <1>3, <2>5, <3>2 DEF PruningSafe
    <3>4. e[t] = d[f.alpha[t]] /\ e[u] = d[f.alpha[u]]
      BY <1>8, <2>5, <3>1, <3>2, <3>3
    <3>5. <<f.alpha[t], f.alpha[u], c>> \in ArcsOf(f, labels)
      BY <1>3, <2>1, <2>5, <3>3, AbstractStep
    <3>6. AtMost(d[f.alpha[t]], Plus(c, d[f.alpha[u]]))
      BY <1>1, <1>3, <3>5, FactorArc
    <3> QED
      BY <3>4, <3>6
  <2> QED
    BY <2>3, <2>4, <2>5
<1>12. \A t \in State : AtMost(e[t], real[t])
  <2>1. real = ShortestPaths(State, RealArcs, GoalStates)
    BY <1>2 DEF RealDistance
  <2> QED
    BY <1>9, <1>10, <1>11, <2>1, RealGraph, LowerBound
<1>13. s \in State
  BY ReachableFacts
<1>14. CASE real[s] = Infty
  BY <1>1, <1>2, <1>14 DEF AtMost
<1>15. CASE real[s] # Infty
  <2>1. e[s] = d[f.alpha[s]]
    BY <1>8, <1>13, <1>15
  <2> QED
    BY <1>1, <1>2, <1>12, <1>13, <2>1
<1> QED
  BY <1>14, <1>15

\* What can be reached in the task can be reached in a factor.
LEMMA InitBound ==
  ASSUME NEW f, Abstraction(f), f.init # Pruned, NEW s \in Reachable, f.alpha[s] # Pruned
  PROVE  InitDistances(f, labels)[f.alpha[s]] # Infty
<1>1. PICK d : d = InitDistances(f, labels)
  OBVIOUS
<1>2. PICK real : real = RealInitDistance
  OBVIOUS
<1>3. /\ FactorOK(f, labels) /\ FactorShape(f, labels) /\ LabelsOK /\ LabelsCover
      /\ PruningSafe(f) /\ LabelSetOK(labels)
  BY DEF Abstraction, LabelsOK
<1>4. d \in [f.states -> Distances] /\ d[f.init] = 0
  <2>1. d = ShortestPaths(f.states, Turned(ArcsOf(f, labels)), {f.init})
    BY <1>1 DEF InitDistances
  <2>2. IsGraph(f.states, Turned(ArcsOf(f, labels)), {f.init})
    BY <1>3, FactorGraph
  <2>3. PICK T : T = {f.init}
    OBVIOUS
  <2>4. IsGraph(f.states, Turned(ArcsOf(f, labels)), T)
        /\ d = ShortestPaths(f.states, Turned(ArcsOf(f, labels)), T)
    BY <2>1, <2>2, <2>3
  <2>5. d \in [f.states -> Distances] /\ \A t \in T : d[t] = 0
    BY <2>4, DistanceFacts
  <2> QED
    BY <2>3, <2>5
<1>5. \A t \in State : f.alpha[t] # Pruned => f.alpha[t] \in f.states
  BY <1>3 DEF FactorShape
<1>6. PICK e : e = [t \in State |-> IF t \notin Reachable THEN Infty
                                    ELSE IF f.alpha[t] = Pruned THEN 0 ELSE d[f.alpha[t]]]
  OBVIOUS
<1>7. \A t \in State : e[t] = IF t \notin Reachable THEN Infty
                              ELSE IF f.alpha[t] = Pruned THEN 0 ELSE d[f.alpha[t]]
  BY <1>6
<1>8. e \in [State -> Distances]
  <2>1. \A t \in State : e[t] \in Distances
    BY <1>4, <1>5, <1>7 DEF Distances
  <2> QED
    BY <1>6, <2>1
<1>9. \A t \in {InitialState} : e[t] = 0
  <2>1. f.init = f.alpha[InitialState] /\ InitialState \in Reachable /\ InitialState \in State
    BY <1>3, ReachableFacts, TaskAssumption DEF FactorShape
  <2> QED
    BY <1>4, <1>7, <2>1
<1>10. ASSUME NEW u \in State, NEW t \in State, NEW c \in Nat, <<u, t, c>> \in Turned(RealArcs)
       PROVE  AtMost(e[u], Plus(c, e[t]))
  <2>1. <<t, u, c>> \in RealArcs
    BY <1>10, RealGraph, TurnedFacts DEF IsGraph
  <2>2. PICK o \in Op : Applicable(t, o) /\ u = Result(t, o) /\ c = Cost[o]
    BY <2>1, RealGraph
  <2>3. CASE t \notin Reachable
    <3>1. e[t] = Infty
      BY <1>7, <2>3
    <3> QED
      BY <3>1 DEF AtMost, Plus
  <2>4. CASE t \in Reachable /\ f.alpha[u] = Pruned
    <3>1. u \in Reachable
      BY <2>2, <2>4, ReachableFacts
    <3>2. e[u] = 0 /\ e[t] \in Distances
      BY <1>7, <1>8, <2>4, <3>1
    <3> QED
      BY <3>2, ZeroAtMost
  <2>5. CASE t \in Reachable /\ f.alpha[u] # Pruned
    <3>1. u \in Reachable
      BY <2>2, <2>5, ReachableFacts
    <3>2. f.alpha[t] # Pruned
      BY <1>3, <2>2, <2>5 DEF PruningSafe
    <3>3. e[u] = d[f.alpha[u]] /\ e[t] = d[f.alpha[t]]
      BY <1>7, <2>5, <3>1, <3>2
    <3>4. <<f.alpha[t], f.alpha[u], c>> \in ArcsOf(f, labels)
      BY <1>3, <2>2, <2>5, <3>2, AbstractStep
    <3>5. AtMost(d[f.alpha[u]], Plus(c, d[f.alpha[t]]))
      BY <1>1, <1>3, <3>4, FactorArc
    <3> QED
      BY <3>3, <3>5
  <2> QED
    BY <2>3, <2>4, <2>5
<1>11. \A t \in State : AtMost(e[t], real[t])
  <2>1. real = ShortestPaths(State, Turned(RealArcs), {InitialState})
    BY <1>2 DEF RealInitDistance
  <2> QED
    BY <1>8, <1>9, <1>10, <2>1, RealGraph, LowerBound
<1>12. s \in State /\ real[s] # Infty
  BY <1>2, ReachableFacts
<1>13. e[s] = d[f.alpha[s]]
  BY <1>7, <1>12
<1> QED
  BY <1>1, <1>11, <1>12, <1>13 DEF AtMost

-----------------------------------------------------------------------------
(***************************************************************************)
(* What may be pruned                                                      *)
(***************************************************************************)
LEMMA SameSafety ==
  ASSUME NEW f, PruningSafe(f), NEW g,
         \A s \in State : g.alpha[s] = Pruned <=> f.alpha[s] = Pruned
  PROVE  PruningSafe(g)
<1>1. \A s \in Reachable : s \in State
  BY ReachableFacts
<1>2. \A s \in State, o \in Op : Result(s, o) \in State
  BY ResultInState
<1> QED
  BY <1>1, <1>2 DEF PruningSafe

\* A prune step prunes nothing the search can meet but what leads to no goal,
\* and with a state all that follows it.
LEMMA PruneStepSafe ==
  ASSUME NEW f, Abstraction(f), DistancesOK(f, labels), f.init # Pruned
  PROVE  PruningSafe(PruneStep(f))
<1>1. PICK C : C = PruningClasses(f)
  OBVIOUS
<1>2. PICK g : g = PruneStep(f)
  OBVIOUS
<1>3. /\ FactorOK(f, labels) /\ FactorShape(f, labels) /\ LabelsOK /\ LabelsCover
      /\ PruningSafe(f) /\ LabelSetOK(labels) /\ ClassesOK(f, C)
  BY <1>1, PruningClassesOK DEF Abstraction, LabelsOK
<1>4. \/ \A s \in State : g.alpha[s] = f.alpha[s]
      \/ \A s \in State : g.alpha[s] = Pruned <=>
            f.alpha[s] = Pruned \/ ~ \E B \in C : f.alpha[s] \in B
  <2>1. g = f \/ g = Abstracted(f, C)
    BY <1>1, <1>2 DEF PruneStep
  <2> QED
    BY <1>3, <2>1, AbstractionAlpha
<1>5. CASE \A s \in State : g.alpha[s] = f.alpha[s]
  BY <1>2, <1>3, <1>5, SameSafety
<1>6. CASE \A s \in State : g.alpha[s] = Pruned <=>
              f.alpha[s] = Pruned \/ ~ \E B \in C : f.alpha[s] \in B
  <2>1. ASSUME NEW s \in Reachable, g.alpha[s] = Pruned
        PROVE  /\ RealDistance[s] = Infty
               /\ \A o \in Op : Applicable(s, o) => g.alpha[Result(s, o)] = Pruned
    <3>1. s \in State
      BY ReachableFacts
    <3>2. CASE f.alpha[s] = Pruned
      <4>1. /\ RealDistance[s] = Infty
            /\ \A o \in Op : Applicable(s, o) => f.alpha[Result(s, o)] = Pruned
        BY <1>3, <3>2 DEF PruningSafe
      <4>2. \A o \in Op : Result(s, o) \in State
        BY <3>1, ResultInState
      <4> QED
        BY <1>6, <4>1, <4>2
    <3>3. CASE f.alpha[s] # Pruned
      <4>1. PICK x : x = f.alpha[s]
        OBVIOUS
      <4>2. x \in f.states /\ ~ \E B \in C : x \in B
        BY <1>3, <1>6, <2>1, <3>1, <3>3, <4>1 DEF FactorShape
      <4>3. x \notin Unreachable(f)
        <5>1. InitDistances(f, labels)[x] # Infty
          BY <3>3, <4>1, InitBound
        <5> QED
          BY <5>1 DEF Unreachable, DistancesOK, NeedInitDistances
      <4>4. x \in Irrelevant(f)
        BY <1>3, <4>2, <4>3 DEF ClassesOK
      <4>5. PICK d : d = GoalDistances(f, labels)
        OBVIOUS
      <4>6. config.prune_irrelevant /\ d[x] = Infty /\ f.goal_dist = d
        BY <4>4, <4>5 DEF Irrelevant, DistancesOK, NeedGoalDistances
      <4>7. AtMost(d[x], RealDistance[s])
        BY <3>3, <4>1, <4>5, GoalBound
      <4>8. RealDistance[s] = Infty
        BY <4>6, <4>7 DEF AtMost
      <4>9. ASSUME NEW o \in Op, Applicable(s, o), f.alpha[Result(s, o)] # Pruned
            PROVE  g.alpha[Result(s, o)] = Pruned
        <5>1. PICK y : y = f.alpha[Result(s, o)]
          OBVIOUS
        <5>2. Result(s, o) \in State
          BY <3>1, ResultInState
        <5>3. <<x, y, Cost[o]>> \in ArcsOf(f, labels)
          BY <1>3, <3>1, <3>3, <4>1, <4>9, <5>1, AbstractStep
        <5>4. y \in f.states /\ Cost[o] \in Nat /\ AtMost(d[x], Plus(Cost[o], d[y]))
          BY <1>3, <4>5, <5>3, FactorArc
        <5>5. d \in [f.states -> Distances]
          <6>1. d = ShortestPaths(f.states, ArcsOf(f, labels), f.goals)
            BY <4>5 DEF GoalDistances
          <6>2. IsGraph(f.states, ArcsOf(f, labels), f.goals)
            BY <1>3, FactorGraph
          <6> QED
            BY <6>1, <6>2, DistanceFacts
        <5>6. d[y] = Infty
          BY <4>6, <5>4, <5>5, InftyAssumption DEF AtMost, Plus, Distances
        <5>7. y \in Irrelevant(f)
          BY <4>6, <5>4, <5>6 DEF Irrelevant
        <5>8. ~ \E B \in C : y \in B
          BY <1>3, <4>2, <5>4, <5>7 DEF ClassesOK
        <5> QED
          BY <1>6, <5>1, <5>2, <5>8
      <4>10. \A o \in Op : Result(s, o) \in State
        BY <3>1, ResultInState
      <4> QED
        BY <1>6, <4>8, <4>9, <4>10
    <3> QED
      BY <3>2, <3>3
  <2> QED
    BY <1>2, <2>1 DEF PruningSafe
<1> QED
  BY <1>4, <1>5, <1>6

LEMMA SafetyAfter ==
  ASSUME \A i \in active' : PruningSafe(fts'[i])
  PROVE  PruningIsSafe'
BY DEF PruningIsSafe, PruningSafe

LEMMA NextPruning ==
  ASSUME AdmissibleInv, [Next]_vars
  PROVE  AdmissibleInv'
<1>1. DistanceInv /\ \A i \in active : PruningSafe(fts[i])
  BY DEF AdmissibleInv, PruningIsSafe
<1>2. DistanceInv' /\ MSInv'
  BY <1>1, NextDistances DEF DistanceInv
<1> SUFFICES PruningIsSafe'
  BY <1>2 DEF AdmissibleInv
<1>3. CASE UNCHANGED <<fts, active>>
  BY <1>1, <1>3, SafetyAfter
<1>4. CASE Create
  <2>1. CASE valid = 0
    BY <1>3, <1>4, <2>1 DEF Create
  <2>2. CASE valid # 0
    <3>1. \A i \in active' : \A s \in State : fts'[i].alpha[s] # Pruned
      BY <1>1, <1>2, <1>4, <2>2, CreateDistances
    <3>2. \A s \in Reachable : s \in State
      BY ReachableFacts
    <3> QED
      BY <3>1, <3>2, SafetyAfter DEF PruningSafe
  <2> QED
    BY <2>1, <2>2
<1>5. CASE PruneAtomic \/ Prune
  <2>1. phase # "done" /\ active' = active
    BY <1>5 DEF PruneAtomic, Prune
  <2>2. PICK n \in active : \A i \in active :
           fts'[i] = IF i = n THEN PruneStep(fts[n]) ELSE fts[i]
    BY <1>1, <1>2, <1>5, PruneAtomicDistances
  <2>3. PICK f : f = fts[n]
    OBVIOUS
  <2>4. Abstraction(f) /\ DistancesOK(f, labels) /\ f.init # Pruned
    <3>1. /\ FactorShape(f, labels) /\ DistancesOK(f, labels) /\ f.init # Pruned /\ LabelsOK
      BY <1>1, <2>1, <2>3, ActiveFactor
    <3>2. FactorOK(f, labels) /\ LabelsCover
      BY <1>1, <2>3 DEF DistanceInv, MSInv, FactorsOK
    <3> QED
      BY <1>1, <2>3, <3>1, <3>2 DEF Abstraction
  <2>5. PruningSafe(PruneStep(fts[n]))
    BY <2>3, <2>4, PruneStepSafe
  <2> QED
    BY <1>1, <2>1, <2>2, <2>5, SafetyAfter
<1>6. CASE ReduceLabels
  <2>1. active' = active /\ \A i \in active : fts'[i].alpha = fts[i].alpha
    BY <1>1, <1>2, <1>6, ReduceLabelsDistances DEF ReduceLabels
  <2> QED
    BY <1>1, <2>1, SameSafety, SafetyAfter
<1>7. CASE Shrink
  <2>1. active' = active
        /\ \A k \in active : \A s \in State :
              fts'[k].alpha[s] = Pruned <=> fts[k].alpha[s] = Pruned
    BY <1>1, <1>2, <1>7, ShrinkStepDistances DEF Shrink
  <2> QED
    BY <1>1, <2>1, SameSafety, SafetyAfter
<1>8. CASE Merge
  <2>1. ASSUME NEW k \in active' PROVE PruningSafe(fts'[k])
    <3>1. \/ k \in active /\ fts'[k] = fts[k]
          \/ \E i, j \in active : \A s \in State :
                fts'[k].alpha[s] = Pruned <=> fts[i].alpha[s] = Pruned \/ fts[j].alpha[s] = Pruned
      BY <1>1, <1>2, <1>8, MergeDistances
    <3>2. CASE k \in active /\ fts'[k] = fts[k]
      BY <1>1, <3>2
    <3>3. CASE \E i, j \in active : \A s \in State :
                fts'[k].alpha[s] = Pruned <=> fts[i].alpha[s] = Pruned \/ fts[j].alpha[s] = Pruned
      <4>1. PICK i \in active, j \in active : \A s \in State :
                fts'[k].alpha[s] = Pruned <=> fts[i].alpha[s] = Pruned \/ fts[j].alpha[s] = Pruned
        BY <3>3
      <4>2. \A s \in Reachable : s \in State /\ \A o \in Op : Result(s, o) \in State
        BY ReachableFacts, ResultInState
      <4> QED
        BY <1>1, <4>1, <4>2 DEF PruningSafe
    <3> QED
      BY <3>1, <3>2, <3>3
  <2> QED
    BY <2>1, SafetyAfter
<1>9. CASE \/ Build \/ BuildDone \/ AtomicDone \/ ReductionDone \/ LoopEnds \/ Finished
           \/ UNCHANGED vars
           \/ \E i, j \in active : GetNext(i, j)
           \/ \E i \in active : OutOfTime(i)
  <2>1. UNCHANGED <<fts, active>>
    BY <1>9 DEF Build, BuildDone, AtomicDone, ReductionDone, LoopEnds, Finished, vars, GetNext,
                OutOfTime
  <2> QED
    BY <1>3, <2>1
<1> QED
  BY <1>4, <1>5, <1>6, <1>7, <1>8, <1>9 DEF Next, Step

LEMMA AdmissibleWhenDone ==
  ASSUME AdmissibleInv, phase = "done"
  PROVE  /\ \A s \in Reachable : AtMost(HeuristicValue(s), RealDistance[s])
         /\ \A a \in RealArcs : a[1] \in Reachable =>
               AtMost(HeuristicValue(a[1]), Plus(a[3], HeuristicValue(a[2])))
<1>1. PICK f : f = fts[final]
  OBVIOUS
<1>2. /\ Abstraction(f) /\ FactorOK(f, labels) /\ FactorShape(f, labels) /\ LabelsOK /\ LabelsCover
      /\ PruningSafe(f) /\ LabelSetOK(labels) /\ DistancesOK(f, labels)
  <2>1. final \in active /\ DistanceInv
    BY DEF AdmissibleInv, DistanceInv, LastIsActive
  <2>2. FactorShape(f, labels) /\ DistancesOK(f, labels) /\ LabelsOK
    BY <1>1, <2>1, ActiveFactor
  <2>3. FactorOK(f, labels) /\ LabelsCover /\ PruningSafe(f)
    BY <1>1, <2>1 DEF AdmissibleInv, DistanceInv, MSInv, FactorsOK, PruningIsSafe
  <2> QED
    BY <2>2, <2>3 DEF Abstraction, LabelsOK
<1>3. PICK d : d = GoalDistances(f, labels)
  OBVIOUS
<1>4. \A s : HeuristicValue(s) = IF f.alpha[s] = Pruned THEN Infty ELSE d[f.alpha[s]]
  BY <1>1, <1>2, <1>3 DEF HeuristicValue, DistancesOK
<1>5. ASSUME NEW s \in Reachable PROVE AtMost(HeuristicValue(s), RealDistance[s])
  <2>1. CASE f.alpha[s] = Pruned
    <3>1. RealDistance[s] = Infty
      BY <1>2, <2>1 DEF PruningSafe
    <3> QED
      BY <3>1 DEF AtMost
  <2>2. CASE f.alpha[s] # Pruned
    <3>1. AtMost(d[f.alpha[s]], RealDistance[s])
      BY <1>2, <1>3, <2>2, GoalBound
    <3> QED
      BY <1>4, <2>2, <3>1
  <2> QED
    BY <2>1, <2>2
<1>6. ASSUME NEW s \in Reachable, NEW o \in Op, Applicable(s, o), NEW t, t = Result(s, o)
      PROVE  AtMost(HeuristicValue(s), Plus(Cost[o], HeuristicValue(t)))
  <2>1. CASE f.alpha[t] = Pruned
    <3>1. HeuristicValue(t) = Infty
      BY <1>4, <2>1
    <3> QED
      BY <3>1 DEF AtMost, Plus
  <2>2. CASE f.alpha[t] # Pruned
    <3>1. f.alpha[s] # Pruned /\ s \in State
      BY <1>2, <1>6, <2>2, ReachableFacts DEF PruningSafe
    <3>2. <<f.alpha[s], f.alpha[t], Cost[o]>> \in ArcsOf(f, labels)
      BY <1>2, <1>6, <2>2, <3>1, AbstractStep
    <3>3. AtMost(d[f.alpha[s]], Plus(Cost[o], d[f.alpha[t]]))
      BY <1>2, <1>3, <3>2, FactorArc
    <3> QED
      BY <1>4, <2>2, <3>1, <3>3
  <2> QED
    BY <2>1, <2>2
<1>7. ASSUME NEW a \in RealArcs, a[1] \in Reachable
      PROVE  AtMost(HeuristicValue(a[1]), Plus(a[3], HeuristicValue(a[2])))
  <2>1. a \in State \X State \X Nat
    BY RealGraph DEF IsGraph
  <2>2. PICK s, t, c : a = <<s, t, c>>
    BY <2>1
  <2>3. a[1] = s /\ a[2] = t /\ a[3] = c
    BY <2>2
  <2>4. PICK o \in Op : Applicable(s, o) /\ t = Result(s, o) /\ c = Cost[o]
    BY <2>2, RealGraph
  <2>5. AtMost(HeuristicValue(s), Plus(Cost[o], HeuristicValue(t)))
    BY <1>6, <1>7, <2>3, <2>4
  <2> QED
    BY <2>3, <2>4, <2>5
<1> QED
  BY <1>5, <1>7

\* What prune_step and merge_factors prune of the states the search can meet
\* leads to no goal and to nothing that is kept, in every factor.
THEOREM AdmissibleInvariant == PrunedIsNoPair /\ Spec => []AdmissibleInv
<1>1. PrunedIsNoPair /\ Init => AdmissibleInv
  BY InitDistanceInv DEF AdmissibleInv, PruningIsSafe, Init
<1>2. AdmissibleInv /\ [Next]_vars => AdmissibleInv'
  BY NextPruning
<1> QED
  BY <1>1, <1>2, PTL DEF Spec

\* The heuristic is admissible and consistent on the states the search can
\* meet, with any options and wherever the time limit cuts the construction
\* off ("admissible: yes", "consistent: yes" in merge_and_shrink_heuristic.cc).
THEOREM AlwaysAdmissible == PrunedIsNoPair /\ Spec => []HeuristicIsAdmissible
<1>1. AdmissibleInv => HeuristicIsAdmissible
  <2> SUFFICES ASSUME AdmissibleInv, phase = "done" PROVE HeuristicIsAdmissible
    BY DEF HeuristicIsAdmissible
  <2> QED
    BY AdmissibleWhenDone DEF HeuristicIsAdmissible
<1> QED
  BY <1>1, AdmissibleInvariant, PTL

-----------------------------------------------------------------------------
(***************************************************************************)
(* The end of label reduction                                              *)
(***************************************************************************)
\* There is nothing to reduce for factor i.
Exhausted(i) == i \in active => LabelMapping(i) = {}

\* The place in the order k iterations ago.
Before(k) == IF k <= position THEN position - k ELSE position - k + Len(fts)

\* The creation makes at most a factor for each variable, and each merge makes
\* one of two: the order has room for all of them.
SizeOK ==
    /\ valid \in 0..Cardinality(Var)
    /\ phase \notin {"data", "irrelevant", "create", "crash"} =>
          IsFiniteSet(active) /\ Len(fts) + Cardinality(active) <= 2 * Cardinality(Var)

\* The factors of the last iterations allow no reduction.
IterationsOK ==
    /\ /\ phase \in {"reduce_before_shrinking", "reduce_before_merging"}
       /\ config.label_reduction = "fixpoint"
       => /\ unsuccessful \in 0..Len(fts)
          /\ position \in 0..(Len(fts) - 1)
          /\ \A k \in 1..unsuccessful : Exhausted(SystemAt(Before(k)))
    /\ phase = "shrink" => position = 0 /\ unsuccessful = 0

FixpointInv == MSInv /\ SizeOK /\ IterationsOK /\ FixpointReached

LEMMA UpTo ==
  ASSUME NEW n \in Nat PROVE IsFiniteSet(1..n) /\ Cardinality(1..n) = n
BY FS_Interval

LEMMA StrictSubset ==
  ASSUME NEW T, IsFiniteSet(T), NEW S, S \subseteq T, S # T
  PROVE  /\ IsFiniteSet(S) /\ Cardinality(S) \in Nat
         /\ Cardinality(T) \in Nat /\ Cardinality(S) < Cardinality(T)
<1>1. /\ IsFiniteSet(S) /\ Cardinality(S) <= Cardinality(T)
      /\ Cardinality(S) # Cardinality(T)
  BY FS_Subset
<1> QED
  BY <1>1, FS_CardinalityType

LEMMA PlaceFacts ==
  ASSUME config \in Configurations, NEW i \in 1..(2 * Cardinality(Var) - 1)
  PROVE  PlaceOf(i) \in Nat /\ config.system_order[PlaceOf(i)] = i
<1>1. PICK order : order = config.system_order
  OBVIOUS
<1>2. /\ DOMAIN order = 1..(2 * Cardinality(Var) - 1)
      /\ {order[p] : p \in DOMAIN order} = DOMAIN order
  BY <1>1, ConfigurationsAssumption DEF Range
<1>3. \E p \in DOMAIN order : order[p] = i
  BY <1>2
<1>4. PlaceOf(i) \in DOMAIN order /\ order[PlaceOf(i)] = i
  BY <1>1, <1>3 DEF PlaceOf
<1> QED
  BY <1>1, <1>2, <1>4

\* An index has more indices before it than one that comes earlier.
LEMMA EarlierCount ==
  ASSUME config \in Configurations, Len(fts) \in Nat, Len(fts) <= 2 * Cardinality(Var) - 1,
         NEW i \in 1..Len(fts)
  PROVE  /\ Cardinality(Earlier(i)) \in 0..(Len(fts) - 1)
         /\ \A j \in 1..Len(fts) : PlaceOf(j) < PlaceOf(i) =>
               Cardinality(Earlier(j)) < Cardinality(Earlier(i))
<1>1. \A j \in 1..Len(fts) : PlaceOf(j) \in Nat
  BY VarFinite, PlaceFacts
<1>2. IsFiniteSet(1..Len(fts)) /\ Cardinality(1..Len(fts)) = Len(fts)
  <2>1. PICK n \in Nat : n = Len(fts)
    OBVIOUS
  <2>2. IsFiniteSet(1..n) /\ Cardinality(1..n) = n
    BY UpTo
  <2> QED
    BY <2>1, <2>2
<1>3. Earlier(i) \subseteq 1..Len(fts) /\ Earlier(i) # 1..Len(fts)
  BY <1>1 DEF Earlier
<1>4. /\ IsFiniteSet(Earlier(i)) /\ Cardinality(Earlier(i)) \in Nat
      /\ Cardinality(Earlier(i)) < Len(fts)
  <2>1. PICK S, T : S = Earlier(i) /\ T = 1..Len(fts)
    OBVIOUS
  <2> QED
    BY <1>2, <1>3, <2>1, StrictSubset
<1>5. ASSUME NEW j \in 1..Len(fts), PlaceOf(j) < PlaceOf(i)
      PROVE  Cardinality(Earlier(j)) < Cardinality(Earlier(i))
  <2>1. Earlier(j) \subseteq Earlier(i) /\ Earlier(j) # Earlier(i)
    BY <1>1, <1>5 DEF Earlier
  <2>2. PICK S, T : S = Earlier(j) /\ T = Earlier(i)
    OBVIOUS
  <2> QED
    BY <1>4, <2>1, <2>2, StrictSubset
<1> QED
  BY <1>4, <1>5

\* Each factor has its place in the transition system order.
LEMMA SystemOrderCovers ==
  ASSUME config \in Configurations, Len(fts) \in Nat, Len(fts) <= 2 * Cardinality(Var) - 1,
         NEW i \in 1..Len(fts)
  PROVE  \E n \in 0..(Len(fts) - 1) : SystemAt(n) = i
<1>1. PICK n : n = Cardinality(Earlier(i))
  OBVIOUS
<1>2. n \in 0..(Len(fts) - 1)
  BY <1>1, EarlierCount
<1>3. ASSUME NEW j \in 1..Len(fts), Cardinality(Earlier(j)) = n PROVE j = i
  <2>1. /\ PlaceOf(i) \in Nat /\ config.system_order[PlaceOf(i)] = i
        /\ PlaceOf(j) \in Nat /\ config.system_order[PlaceOf(j)] = j
    BY VarFinite, PlaceFacts
  <2>2. ~ PlaceOf(i) < PlaceOf(j) /\ ~ PlaceOf(j) < PlaceOf(i)
    BY <1>1, <1>2, <1>3, EarlierCount
  <2> QED
    BY <2>1, <2>2
<1>4. SystemAt(n) = i
  BY <1>1, <1>3 DEF SystemAt
<1> QED
  BY <1>2, <1>4

LEMMA LabelsFinite ==
  ASSUME LabelsOK PROVE IsFiniteSet(labels)
<1>1. labels \subseteq SUBSET Op
  BY DEF LabelsOK, LabelSetOK
<1>2. IsFiniteSet(SUBSET Op)
  BY TaskAssumption, FS_SUBSET
<1> QED
  BY <1>1, <1>2, FS_Subset

\* Labels that can be combined are, in one label.
LEMMA CombinedLabels ==
  ASSUME LabelsOK, NEW i, NEW m \in labels, NEW n \in labels, Combinable(i, m, n), m # n
  PROVE  \E l \in NewLabels(i) : m \subseteq l /\ n \subseteq l
<1>1. PICK K : K = {k \in labels : Combinable(i, k, n)}
  OBVIOUS
<1>2. m \in K /\ n \in K /\ IsFiniteSet(K)
  <2>1. Combinable(i, n, n)
    BY DEF Combinable
  <2> QED
    BY <1>1, <2>1, LabelsFinite, FS_Subset
<1>3. Cardinality(K) > 1
  <2>1. IsFiniteSet({n}) /\ Cardinality({n}) = 1 /\ {n} \subseteq K /\ {n} # K
    BY <1>2, FS_Singleton
  <2> QED
    BY <1>2, <2>1, FS_Subset, FS_CardinalityType
<1>4. UNION K \in NewLabels(i)
  BY <1>1, <1>3 DEF LabelMapping, NewLabels
<1> QED
  BY <1>2, <1>4

\* After a reduction for a factor there is nothing to reduce for it.
LEMMA ReductionExhausts ==
  ASSUME MSInv, NEW i, Reduce(i), UNCHANGED active
  PROVE  LabelMapping(i)' = {}
<1>1. LabelsOK /\ SequenceOK /\ LabelSetOK(NewLabels(i))
  BY NewLabelsOK DEF MSInv
<1>2. /\ labels' = NewLabels(i)
      /\ \A j \in active : fts'[j] = ReducedFactor(fts[j], i, j)
  BY <1>1, ReducedFactors
<1>3. \A j \in active : TransReduced(fts[j], fts'[j], i, j)
  <2>1. ASSUME NEW j \in active PROVE TransReduced(fts[j], fts'[j], i, j)
    <3>1. PICK f : f = fts[j]
      OBVIOUS
    <3>2. PICK g : g = ReducedFactor(f, i, j)
      OBVIOUS
    <3>3. IsRecord(f)
      BY <3>1 DEF MSInv, FactorsOK, FactorOK
    <3>4. TransReduced(f, g, i, j)
      BY <1>1, <3>2, <3>3, ReducedFactorFields
    <3> QED
      BY <1>2, <3>1, <3>2, <3>4
  <2> QED
    BY <2>1
<1>4. ASSUME NEW l \in NewLabels(i), NEW m \in OldLabels(l)
      PROVE  /\ m \in labels /\ m \subseteq l /\ m # {} /\ LabelCost(l) = LabelCost(m)
             /\ \A j \in active \ {i} : fts'[j].trans[l] = fts[j].trans[m]
  <2>1. m \in labels /\ m \subseteq l /\ m # {}
    BY <1>1 DEF OldLabels, LabelsOK, LabelSetOK
  <2>2. PICK o : o \in m
    BY <2>1
  <2>3. LabelCost(m) = Cost[o]
    BY <1>1, <2>1, <2>2, CostOfLabel
  <2>4. LabelCost(l) = Cost[o]
    BY <1>1, <2>1, <2>2 DEF LabelCost, LabelSetOK
  <2>5. ASSUME NEW j \in active \ {i} PROVE fts'[j].trans[l] = fts[j].trans[m]
    <3>1. PICK n \in OldLabels(l) : fts'[j].trans[l] = fts[j].trans[n]
      BY <1>3 DEF TransReduced
    <3>2. Combinable(i, n, m)
      BY <1>1, OldLabelsOfNew
    <3> QED
      BY <3>1, <3>2 DEF Combinable
  <2> QED
    BY <2>1, <2>3, <2>4, <2>5
<1>5. ASSUME NEW k \in NewLabels(i), NEW l \in NewLabels(i), Combinable(i, k, l)'
      PROVE  k = l
  <2>1. PICK m \in OldLabels(k), n \in OldLabels(l) : TRUE
    BY <1>1, OldLabelsOfNew
  <2>2. /\ LabelCost(k) = LabelCost(l)
        /\ \A j \in active \ {i} : fts'[j].trans[k] = fts'[j].trans[l]
    BY <1>5 DEF Combinable
  <2>3. m \in labels /\ m \subseteq k /\ m # {} /\ n \in labels /\ n \subseteq l /\ n # {}
    BY <1>4
  <2>4. Combinable(i, m, n)
    BY <1>4, <2>2 DEF Combinable
  <2>5. \A x, y \in NewLabels(i) : x \cap y # {} => x = y
    BY <1>1 DEF LabelSetOK
  <2>6. CASE m = n
    BY <2>3, <2>5, <2>6
  <2>7. CASE m # n
    <3>1. PICK x \in NewLabels(i) : m \subseteq x /\ n \subseteq x
      BY <1>1, <2>3, <2>4, <2>7, CombinedLabels
    <3>2. x = k /\ x = l
      BY <2>3, <2>5, <3>1
    <3> QED
      BY <3>2
  <2> QED
    BY <2>6, <2>7
<1>6. ASSUME NEW l \in NewLabels(i)
      PROVE  {k \in NewLabels(i) : Combinable(i, k, l)'} = {l}
  <2>1. Combinable(i, l, l)'
    BY DEF Combinable
  <2> QED
    BY <1>5, <2>1
<1>7. ASSUME NEW K \in LabelMapping(i)' PROVE FALSE
  <2>1. PICK l \in NewLabels(i) : K = {k \in NewLabels(i) : Combinable(i, k, l)'}
    BY <1>2, <1>7 DEF LabelMapping
  <2>2. Cardinality(K) > 1
    BY <1>7 DEF LabelMapping
  <2>3. K = {l}
    BY <1>6, <2>1
  <2>4. Cardinality(K) = 1
    BY <2>3, FS_Singleton
  <2> QED
    BY <2>2, <2>4
<1> QED
  BY <1>7

\* The creation of the factors and each merge keep the number of factors and
\* of those to be merged within what the order has room for.
LEMMA NextSize ==
  ASSUME MSInv, SizeOK, [Next]_vars
  PROVE  SizeOK'
<1>1. CASE Build \/ BuildDone
  <2>1. phase \in {"data", "irrelevant"} /\ phase' \in {"data", "irrelevant", "create"}
    BY <1>1 DEF Build, BuildDone
  <2>2. valid' \in 0..Cardinality(Var)
    <3>1. /\ valid \in 0..Cardinality(Var) /\ position \in 1..(Cardinality(Var) + 1)
      BY <2>1 DEF MSInv, CreationOK
    <3>2. CASE Build
      BY <3>1, <3>2, VarFinite DEF Build
    <3>3. CASE BuildDone
      BY <3>1, <3>3 DEF BuildDone, creation
    <3> QED
      BY <1>1, <3>2, <3>3
  <2> QED
    BY <2>1, <2>2 DEF SizeOK
<1>2. CASE Create
  <2>1. valid' = valid /\ valid \in 0..Cardinality(Var)
    BY <1>2 DEF Create, creation, SizeOK
  <2>2. CASE valid = 0
    BY <1>2, <2>1, <2>2 DEF Create, SizeOK
  <2>3. CASE valid # 0
    <3>1. /\ fts' = [v \in 1..valid |-> WithDistances(AtomicFactor(v), InitialLabels)]
          /\ active' = 1..valid
      BY <1>2, <2>3 DEF Create
    <3>2. valid \in Nat
      BY <2>1, VarFinite
    <3>3. PICK n \in Nat : n = valid
      BY <3>2
    <3>4. PICK f : f = fts'
      OBVIOUS
    <3>5. f = [v \in 1..n |-> f[v]]
      BY <3>1, <3>3, <3>4
    <3>6. Len(f) = n
      BY <3>5, FunctionIsSequence
    <3>7. IsFiniteSet(1..n) /\ Cardinality(1..n) = n
      BY UpTo
    <3>8. /\ IsFiniteSet(active') /\ Cardinality(active') = valid /\ Len(fts') = valid
      BY <3>1, <3>3, <3>6, <3>7, <3>4
    <3> QED
      BY <2>1, <3>8, VarFinite DEF SizeOK
  <2> QED
    BY <2>2, <2>3
<1>3. CASE /\ UNCHANGED <<active, valid>> /\ Len(fts') = Len(fts)
           /\ phase' \in {"data", "irrelevant", "create", "crash"} \/
              phase \notin {"data", "irrelevant", "create", "crash"}
  BY <1>3 DEF SizeOK
<1>4. SequenceOK /\ IndicesOK
  BY DEF MSInv
<1>5. CASE PruneAtomic
  <2>1. /\ fts' = [fts EXCEPT ![position] = PruneStep(fts[position])]
        /\ UNCHANGED <<active, valid>> /\ phase = "atomic"
    BY <1>5 DEF PruneAtomic, creation
  <2>2. PICK n : n = position
    OBVIOUS
  <2>3. fts' = [fts EXCEPT ![n] = PruneStep(fts[n])]
    BY <2>1, <2>2
  <2>4. Len(fts') = Len(fts)
    BY <1>4, <2>3, PrunedFactors
  <2> QED
    BY <1>3, <2>1, <2>4
<1>6. CASE Prune
  <2>1. /\ fts' = [fts EXCEPT ![Len(fts)] = PruneStep(fts[Len(fts)])]
        /\ UNCHANGED <<active, valid>> /\ phase = "prune"
    BY <1>6 DEF Prune, creation
  <2>2. PICK n : n = Len(fts)
    OBVIOUS
  <2>3. fts' = [fts EXCEPT ![n] = PruneStep(fts[n])]
    BY <2>1, <2>2
  <2>4. Len(fts') = Len(fts)
    BY <1>4, <2>3, PrunedFactors
  <2> QED
    BY <1>3, <2>1, <2>4
<1>7. CASE ReduceLabels
  <2>1. /\ UNCHANGED <<active, valid>>
        /\ phase \in {"reduce_before_shrinking", "reduce_before_merging"}
    BY <1>7, ConfigurationsAssumption DEF ReduceLabels, ReducesNow, MSInv, creation
  <2>2. CASE UNCHANGED fts
    BY <1>3, <2>1, <2>2
  <2>3. CASE Reduce(ReductionIndex)
    <3>1. PICK r : r = ReductionIndex
      OBVIOUS
    <3>2. Len(fts') = Len(fts)
      BY <1>4, <2>3, <3>1, ReducedFactors
    <3> QED
      BY <1>3, <2>1, <3>2
  <2> QED
    BY <1>7, <2>2, <2>3 DEF ReduceLabels
<1>8. CASE Shrink
  <2>1. UNCHANGED <<active, valid>> /\ phase = "shrink"
    BY <1>8 DEF Shrink, creation
  <2>2. Len(fts') = Len(fts)
    BY <1>4, <1>8, ShrunkFactors DEF ShrinkStep
  <2> QED
    BY <1>3, <2>1, <2>2
<1>9. CASE Merge
  <2>1. phase = "merge" /\ UNCHANGED valid
    BY <1>9 DEF Merge, creation
  <2>2. PICK i \in active, j \in active : MergeStep(i, j)
    BY <1>4, <1>9, MergedFactors
  <2>3. PICK n \in Nat : n = Len(fts)
    BY <2>2 DEF MergeStep
  <2>4. PICK A : A = active
    OBVIOUS
  <2>5. /\ IsFiniteSet(A) /\ n + Cardinality(A) <= 2 * Cardinality(Var)
        /\ valid \in 0..Cardinality(Var)
    BY <2>1, <2>3, <2>4 DEF SizeOK
  <2>6. /\ IsFiniteSet(A \ {i}) /\ Cardinality(A \ {i}) = Cardinality(A) - 1
    BY <2>3, <2>4, <2>5, FS_RemoveElement
  <2>7. /\ i # j /\ active' = (A \ {i, j}) \cup {n + 1} /\ Len(fts') = n + 1
        /\ A \subseteq 1..n
    BY <1>4, <2>2, <2>3, <2>4 DEF MergeStep, SequenceOK
  <2>8. PICK B : B = A \ {i}
    OBVIOUS
  <2>9. /\ IsFiniteSet(B \ {j}) /\ Cardinality(B \ {j}) = Cardinality(A) - 2
    <3>1. IsFiniteSet(B \ {j}) /\ Cardinality(B \ {j}) = Cardinality(B) - 1
      BY <2>3, <2>4, <2>6, <2>7, <2>8, FS_RemoveElement
    <3> QED
      BY <2>5, <2>6, <2>8, <3>1, FS_CardinalityType
  <2>10. PICK C : C = B \ {j}
    OBVIOUS
  <2>11. active' = C \cup {n + 1} /\ n + 1 \notin C
    BY <2>7, <2>8, <2>10
  <2>12. /\ IsFiniteSet(C \cup {n + 1})
         /\ Cardinality(C \cup {n + 1}) = Cardinality(A) - 1
    <3>1. /\ IsFiniteSet(C \cup {n + 1})
          /\ Cardinality(C \cup {n + 1}) = Cardinality(C) + 1
      BY <2>9, <2>10, <2>11, FS_AddElement
    <3> QED
      BY <2>5, <2>9, <2>10, <3>1, FS_CardinalityType
  <2>13. Cardinality(A) \in Nat
    BY <2>5, FS_CardinalityType
  <2> QED
    <3>1. Cardinality(active') = Cardinality(A) - 1 /\ IsFiniteSet(active')
      BY <2>11, <2>12
    <3>2. Len(fts') + Cardinality(active') <= 2 * Cardinality(Var)
      BY <2>5, <2>7, <2>13, <3>1, VarFinite
    <3> QED
      BY <2>1, <2>5, <3>1, <3>2 DEF SizeOK
<1>10. CASE AtomicDone \/ ReductionDone \/ LoopEnds \/ Finished \/ UNCHANGED vars
  BY <1>3, <1>10 DEF AtomicDone, ReductionDone, LoopEnds, Finished, vars, creation
<1>11. CASE \E i, j \in active : GetNext(i, j)
  BY <1>3, <1>11 DEF GetNext, creation
<1>12. CASE \E i \in active : OutOfTime(i)
  <2>1. UNCHANGED <<fts, active, valid>> /\ phase \notin {"data", "irrelevant", "create", "crash"}
    BY <1>12 DEF OutOfTime, TimeIsChecked
  <2> QED
    BY <1>3, <2>1
<1> QED
  BY <1>1, <1>2, <1>5, <1>6, <1>7, <1>8, <1>9, <1>10, <1>11, <1>12
  DEF Next, Step

-----------------------------------------------------------------------------
\* What an iteration leaves alone.
LEMMA SameMapping ==
  ASSUME UNCHANGED <<config, labels, fts, active>>
  PROVE  /\ \A i : Exhausted(i)' <=> Exhausted(i)
         /\ \A n : SystemAt(n)' = SystemAt(n)
<1>1. ASSUME NEW i PROVE Exhausted(i)' <=> Exhausted(i)
  BY DEF Exhausted, LabelMapping, Combinable
<1>2. ASSUME NEW n PROVE SystemAt(n)' = SystemAt(n)
  BY DEF SystemAt, Earlier, PlaceOf
<1> QED
  BY <1>1, <1>2

\* The order depends on the number of factors only.
LEMMA SameOrder ==
  ASSUME UNCHANGED config, Len(fts') = Len(fts), NEW n
  PROVE  SystemAt(n)' = SystemAt(n)
BY DEF SystemAt, Earlier, PlaceOf

\* There are at least two factors in the course of an iteration, and not more
\* than the order has room for.
LEMMA EnoughFactors ==
  ASSUME MSInv, SizeOK, phase \in {"reduce_before_shrinking", "reduce_before_merging"}
  PROVE  /\ Len(fts) \in Nat /\ Len(fts) >= 2
         /\ Len(fts) <= 2 * Cardinality(Var) - 1
<1>1. PICK n, A : n \in Nat /\ n = Len(fts) /\ A = active /\ A \subseteq 1..n
  BY SequenceDomain DEF MSInv, SequenceOK
<1>2. PICK i \in A, j \in A : i # j
  BY <1>1 DEF MSInv, IndicesOK
<1>3. IsFiniteSet(A) /\ n + Cardinality(A) <= 2 * Cardinality(Var)
  BY <1>1 DEF SizeOK
<1>4. Cardinality(A) \in Nat /\ Cardinality(A) > 0
  BY <1>2, <1>3, FS_EmptySet, FS_CardinalityType
<1> QED
  BY <1>1, <1>2, <1>3, <1>4, VarFinite

\* When the last Len(fts) iterations have found nothing, there is nothing.
LEMMA AllExhausted ==
  ASSUME MSInv, SizeOK, IterationsOK,
         phase \in {"reduce_before_shrinking", "reduce_before_merging"},
         config.label_reduction = "fixpoint", unsuccessful = Len(fts)
  PROVE  \A i \in active : LabelMapping(i) = {}
<1>1. PICK n \in Nat, p \in Nat : n = Len(fts) /\ p = position /\ p \in 0..(n - 1)
  BY EnoughFactors DEF IterationsOK
<1>2. ASSUME NEW i \in active PROVE LabelMapping(i) = {}
  <2>1. i \in 1..Len(fts) /\ config \in Configurations
    BY DEF MSInv, SequenceOK
  <2>2. PICK q \in 0..(n - 1) : SystemAt(q) = i
    BY <1>1, <2>1, EnoughFactors, SystemOrderCovers
  <2>3. \E k \in 1..n : Before(k) = q
    <3>1. CASE q < p
      <4>1. p - q \in 1..n /\ Before(p - q) = q
        BY <1>1, <3>1 DEF Before
      <4> QED
        BY <4>1
    <3>2. CASE q >= p
      <4>1. p - q + n \in 1..n /\ Before(p - q + n) = q
        BY <1>1, <3>2 DEF Before
      <4> QED
        BY <4>1
    <3> QED
      BY <3>1, <3>2
  <2>4. Exhausted(i)
    BY <1>1, <2>2, <2>3 DEF IterationsOK
  <2> QED
    BY <2>4 DEF Exhausted
<1> QED
  BY <1>2

\* One iteration: what was true of the last ones is so of one more, or a
\* reduction has taken place.
LEMMA IterationKeeps ==
  ASSUME MSInv, SizeOK, IterationsOK, ReduceLabels, config.label_reduction = "fixpoint"
  PROVE  IterationsOK'
<1>1. /\ UNCHANGED <<config, active, phase>>
      /\ phase \in {"reduce_before_shrinking", "reduce_before_merging"}
  BY ConfigurationsAssumption DEF ReduceLabels, ReducesNow, MSInv
<1>2. PICK n \in Nat, p \in Nat, u \in Nat :
        /\ n = Len(fts) /\ p = position /\ u = unsuccessful
        /\ n >= 2 /\ p < n /\ u <= n
  BY <1>1, EnoughFactors DEF IterationsOK
<1>3. \A k \in 1..u : Exhausted(SystemAt(Before(k)))
  BY <1>1, <1>2 DEF IterationsOK
<1>4. PICK r : r = SystemAt(p)
  OBVIOUS
<1>5. r = ReductionIndex
  BY <1>2, <1>4 DEF ReductionIndex
<1>6. u # n
  BY <1>2 DEF ReduceLabels, LastIteration
<1>7. position' = (p + 1) % n
  BY <1>2 DEF ReduceLabels
<1>8. position' = IF p + 1 = n THEN 0 ELSE p + 1
  BY <1>2, <1>7
<1>9. position' \in 0..(n - 1)
  BY <1>2, <1>8
<1>10. CASE (r \notin active \/ LabelMapping(r) = {}) /\ UNCHANGED <<labels, fts>> /\ unsuccessful' = unsuccessful + 1
  <2>1. Exhausted(r)
    BY <1>10 DEF Exhausted
  <2>2. ASSUME NEW k \in 1..(u + 1) PROVE Exhausted(SystemAt(Before(k)))'
    <3>1. Before(k)' = IF k = 1 THEN p ELSE Before(k - 1)
      BY <1>2, <1>6, <1>8, <1>10 DEF Before
    <3>2. PICK q : q = Before(k)'
      OBVIOUS
    <3>3. Exhausted(SystemAt(q))
      BY <1>3, <1>4, <2>1, <3>1, <3>2
    <3>4. PICK s : s = SystemAt(q)
      OBVIOUS
    <3>5. Exhausted(s)' /\ s = SystemAt(q)'
      BY <1>1, <1>10, <3>3, <3>4, SameMapping
    <3> QED
      BY <3>2, <3>5
  <2> QED
    BY <1>1, <1>2, <1>6, <1>9, <1>10, <2>2 DEF IterationsOK
<1>11. CASE r \in active /\ Reduce(r) /\ unsuccessful' = 1
  <2>1. LabelMapping(r)' = {} /\ Len(fts') = Len(fts)
    BY <1>1, <1>11, ReductionExhausts, ReducedFactors DEF MSInv
  <2>2. Before(1)' = p
    BY <1>2, <1>8, <2>1 DEF Before
  <2>3. SystemAt(p)' = r
    BY <1>1, <1>4, <2>1, SameOrder
  <2>4. Exhausted(r)'
    BY <2>1 DEF Exhausted
  <2> QED
    BY <1>1, <1>2, <1>9, <1>11, <2>1, <2>2, <2>3, <2>4 DEF IterationsOK
<1> QED
  <2>1. /\ unsuccessful' = IF r \notin active \/ LabelMapping(r) = {} THEN unsuccessful + 1 ELSE 1
        /\ IF r \notin active \/ LabelMapping(r) = {} THEN UNCHANGED <<labels, fts>> ELSE Reduce(r)
    BY <1>5, Zenon DEF ReduceLabels, CountUnsuccessful
  <2> QED
    BY <1>10, <1>11, <2>1

LEMMA InitFixpointInv ==
  ASSUME Init PROVE FixpointInv
<1>1. MSInv
  BY InitMSInv
<1>2. SizeOK
  BY VarFinite DEF Init, SizeOK
<1>3. IterationsOK /\ FixpointReached
  BY DEF Init, IterationsOK, FixpointReached
<1> QED
  BY <1>1, <1>2, <1>3 DEF FixpointInv

LEMMA NextFixpoint ==
  ASSUME FixpointInv, [Next]_vars
  PROVE  FixpointInv'
<1>1. MSInv /\ SizeOK /\ IterationsOK /\ FixpointReached
  BY DEF FixpointInv
<1>2. MSInv' /\ SizeOK'
  BY <1>1, NextKeeps, NextSize
<1>3. SUFFICES IterationsOK' /\ FixpointReached'
  BY <1>2 DEF FixpointInv
<1>4. CASE phase' \notin {"reduce_before_shrinking", "shrink", "reduce_before_merging", "merge"}
  BY <1>4 DEF IterationsOK, FixpointReached
<1>5. CASE \E i, j \in active : GetNext(i, j)
  <2>1. /\ phase' = "reduce_before_shrinking" /\ position' = 0 /\ unsuccessful' = 0
        /\ Len(fts') \in Nat /\ Len(fts') >= 2
    <3>1. phase' = "reduce_before_shrinking" /\ position' = 0 /\ unsuccessful' = 0
      BY <1>5 DEF GetNext
    <3>2. (MSInv /\ SizeOK /\ phase \in {"reduce_before_shrinking", "reduce_before_merging"}
           => Len(fts) \in Nat /\ Len(fts) >= 2)'
      BY EnoughFactors, PTL
    <3> QED
      BY <1>2, <3>1, <3>2
  <2> QED
    BY <2>1 DEF IterationsOK, FixpointReached
<1>6. CASE ReduceLabels
  <2>1. UNCHANGED <<config, phase>> /\ phase \in {"reduce_before_shrinking", "reduce_before_merging"}
    BY <1>1, <1>6, ConfigurationsAssumption DEF ReduceLabels, ReducesNow, MSInv
  <2>2. IterationsOK'
    <3>1. CASE config.label_reduction = "fixpoint"
      BY <1>1, <1>6, <3>1, IterationKeeps
    <3>2. CASE config.label_reduction # "fixpoint"
      BY <2>1, <3>2 DEF IterationsOK
    <3> QED
      BY <3>1, <3>2
  <2> QED
    BY <2>1, <2>2 DEF FixpointReached
<1>7. CASE ReductionDone
  <2>1. /\ UNCHANGED <<config, labels, fts, active>>
        /\ phase \in {"reduce_before_shrinking", "reduce_before_merging"}
        /\ phase' = IF phase = "reduce_before_shrinking" THEN "shrink" ELSE "merge"
        /\ position' = 0 /\ unsuccessful' = 0
    BY <1>7 DEF ReductionDone
  <2>2. IterationsOK'
    BY <2>1 DEF IterationsOK
  <2>3. ASSUME config.label_reduction = "fixpoint", phase \in config.label_reduction_at
        PROVE  \A i \in active : LabelMapping(i)' = {}
    <3>1. unsuccessful = Len(fts)
      BY <1>7, <2>3 DEF ReductionDone, ReducesNow, LastIteration
    <3>2. \A i \in active : LabelMapping(i) = {}
      BY <1>1, <2>1, <2>3, <3>1, AllExhausted
    <3> QED
      BY <2>1, <3>2 DEF LabelMapping, Combinable
  <2>4. FixpointReached'
    BY <2>1, <2>3 DEF FixpointReached
  <2> QED
    BY <2>2, <2>4
<1>8. CASE Shrink
  <2>1. /\ phase = "shrink" /\ phase' = "reduce_before_merging"
        /\ UNCHANGED <<config, position, unsuccessful>>
    BY <1>8 DEF Shrink
  <2>2. Len(fts') \in Nat /\ Len(fts') >= 2
    <3>1. (MSInv /\ SizeOK /\ phase \in {"reduce_before_shrinking", "reduce_before_merging"}
           => Len(fts) \in Nat /\ Len(fts) >= 2)'
      BY EnoughFactors, PTL
    <3> QED
      BY <1>2, <2>1, <3>1
  <2>3. position' = 0 /\ unsuccessful' = 0
    BY <1>1, <2>1 DEF IterationsOK
  <2> QED
    BY <2>1, <2>2, <2>3 DEF IterationsOK, FixpointReached
<1>9. CASE Finished \/ UNCHANGED vars
  <2>1. UNCHANGED vars
    BY <1>9 DEF Finished
  <2>2. UNCHANGED <<config, labels, fts, active, phase, position, unsuccessful>>
    BY <2>1 DEF vars
  <2>3. FixpointReached'
    BY <1>1, <2>2 DEF FixpointReached, LabelMapping, Combinable
  <2>4. IterationsOK'
    <3>1. ASSUME NEW k, Exhausted(SystemAt(Before(k))) PROVE Exhausted(SystemAt(Before(k)))'
      <4>1. PICK q, s : q = Before(k) /\ s = SystemAt(q)
        OBVIOUS
      <4>2. q = Before(k)'
        BY <2>2, <4>1 DEF Before
      <4>3. Exhausted(s)' /\ s = SystemAt(q)'
        BY <2>2, <3>1, <4>1, SameMapping
      <4> QED
        BY <4>2, <4>3
    <3> QED
      BY <1>1, <2>2, <3>1 DEF IterationsOK
  <2> QED
    BY <2>3, <2>4
<1>10. CASE Build \/ BuildDone \/ Create \/ PruneAtomic \/ AtomicDone \/ Merge \/ Prune
            \/ LoopEnds \/ \E i \in active : OutOfTime(i)
  <2>1. phase' \notin {"reduce_before_shrinking", "shrink", "reduce_before_merging", "merge"}
    BY <1>10 DEF Build, BuildDone, Create, PruneAtomic, AtomicDone, Merge, Prune, LoopEnds, OutOfTime
  <2> QED
    BY <1>4, <2>1
<1> QED
  BY <1>5, <1>6, <1>7, <1>8, <1>9, <1>10 DEF Next, Step

\* The loop of LabelReduction::reduce counts the iterations without a reduction,
\* those of merged factors included, from 1 after a reduction, and ends when
\* there are as many as factors (label_reduction.cc:196-247): nothing is left to
\* reduce for any factor, whatever the order of the factors.
THEOREM AlwaysReachesFixpoint == Spec => []FixpointReached
<1>1. Init => FixpointInv
  BY InitFixpointInv
<1>2. FixpointInv /\ [Next]_vars => FixpointInv'
  BY NextFixpoint
<1>3. FixpointInv => FixpointReached
  BY DEF FixpointInv
<1> QED
  BY <1>1, <1>2, <1>3, PTL DEF Spec

-----------------------------------------------------------------------------
(***************************************************************************)
(* Nothing is lost                                                         *)
(***************************************************************************)
\* A goal can be reached from x in f.
Alive(f, L, x) == x \in f.states /\ GoalDistances(f, L)[x] # Infty

Arc(f, l, x, y) == <<x, y>> \in f.trans[l]

\* No state the search can meet looks like a goal in all factors but a goal.
GoalsExact(A, F) ==
    \A s \in Reachable : (\A i \in A : F[i].alpha[s] \in F[i].goals) => s \in GoalStates

\* The factors step together from a state of the task.
StepsTogether(A, F, L, s, l, X) ==
    \A i \in A : Alive(F[i], L, X[i]) /\ Arc(F[i], l, F[i].alpha[s], X[i])

\* Operator o of the task does the same.
StepIsReal(A, F, s, o, X) ==
    Applicable(s, o) /\ \A i \in A : F[i].alpha[Result(s, o)] = X[i]

\* What the factors do together, in states from which goals can be reached, an
\* operator of the task does.
StepsExact(A, F, L) ==
    \A s \in Reachable, l \in L : \A X :
        StepsTogether(A, F, L, s, l, X) => \E o \in l : StepIsReal(A, F, s, o, X)

LEMMA AliveFacts ==
  ASSUME NEW f, NEW L, FactorShape(f, L), LabelSetOK(L)
  PROVE  /\ GoalDistances(f, L) \in [f.states -> Distances]
         /\ \A x \in f.goals : Alive(f, L, x) /\ GoalDistances(f, L)[x] = 0
         /\ \A l \in L : \A x, y : Arc(f, l, x, y) /\ Alive(f, L, y) => Alive(f, L, x)
<1>1. PICK d : d = GoalDistances(f, L)
  OBVIOUS
<1>2. d \in [f.states -> Distances] /\ \A t \in f.goals : d[t] = 0
  <2>1. d = ShortestPaths(f.states, ArcsOf(f, L), f.goals)
    BY <1>1 DEF GoalDistances
  <2>2. IsGraph(f.states, ArcsOf(f, L), f.goals)
    BY FactorGraph
  <2> QED
    BY <2>1, <2>2, DistanceFacts
<1>3. \A x \in f.goals : Alive(f, L, x)
  BY <1>1, <1>2, InftyAssumption DEF Alive, FactorShape
<1>4. ASSUME NEW l \in L, NEW x, NEW y, Arc(f, l, x, y), Alive(f, L, y)
      PROVE  Alive(f, L, x)
  <2>1. PICK c : c = LabelCost(l)
    OBVIOUS
  <2>2. <<x, y, c>> \in ArcsOf(f, L)
    BY <1>4, <2>1, FactorArcs DEF Arc
  <2>3. x \in f.states /\ y \in f.states /\ c \in Nat /\ AtMost(d[x], Plus(c, d[y]))
    BY <1>1, <2>2, FactorArc
  <2>4. d[y] # Infty /\ d[x] \in Distances /\ d[y] \in Distances
    BY <1>1, <1>2, <1>4, <2>3 DEF Alive
  <2>5. d[x] # Infty
    BY <2>3, <2>4, InftyAssumption DEF AtMost, Plus, Distances
  <2> QED
    BY <1>1, <2>3, <2>5 DEF Alive
<1> QED
  BY <1>1, <1>2, <1>3, <1>4

\* No arc leads out of D, and it holds no goal.
Trap(f, L, D) ==
    /\ D \subseteq f.states /\ D \cap f.goals = {}
    /\ \A l \in L : \A x, y : Arc(f, l, x, y) /\ x \in D => y \in D

LEMMA TrappedStates ==
  ASSUME NEW f, NEW L, FactorShape(f, L), LabelSetOK(L), NEW D, Trap(f, L, D), NEW x \in D
  PROVE  ~Alive(f, L, x)
<1>1. IsGraph(f.states, ArcsOf(f, L), f.goals)
  BY FactorGraph
<1>2. PICK e : e = [y \in f.states |-> IF y \in D THEN Infty ELSE 0]
  OBVIOUS
<1>3. e \in [f.states -> Distances]
  BY <1>2 DEF Distances
<1>4. \A t \in f.goals : e[t] = 0
  BY <1>2 DEF Trap, FactorShape
<1>5. ASSUME NEW s \in f.states, NEW t \in f.states, NEW c \in Nat, <<s, t, c>> \in ArcsOf(f, L)
      PROVE  AtMost(e[s], Plus(c, e[t]))
  <2>1. PICK l \in L : Arc(f, l, s, t)
    BY <1>5, FactorArcs DEF Arc
  <2>2. CASE t \in D
    <3>1. e[t] = Infty
      BY <1>2, <2>2
    <3> QED
      BY <3>1 DEF AtMost, Plus
  <2>3. CASE t \notin D
    <3>1. s \notin D
      BY <2>1, <2>3 DEF Trap
    <3>2. e[s] = 0 /\ e[t] = 0
      BY <1>2, <2>3, <3>1
    <3> QED
      BY <3>2, InftyAssumption DEF AtMost, Plus
  <2> QED
    BY <2>2, <2>3
<1>6. AtMost(e[x], GoalDistances(f, L)[x])
  BY <1>1, <1>3, <1>4, <1>5, LowerBound DEF Trap, GoalDistances
<1>7. e[x] = Infty
  BY <1>2 DEF Trap
<1> QED
  BY <1>6, <1>7 DEF AtMost, Alive

\* What g does in states from which goals can be reached, f does.
Lifts(f, g, L) ==
    /\ \A s \in Reachable : g.alpha[s] \in g.goals => f.alpha[s] \in f.goals
    /\ \A s \in Reachable, l \in L : \A y :
          Alive(g, L, y) /\ Arc(g, l, g.alpha[s], y) =>
              \E z : /\ Alive(f, L, z) /\ Arc(f, l, f.alpha[s], z)
                     /\ \A t \in State : f.alpha[t] = z => g.alpha[t] = y

LEMMA LiftsItself ==
  ASSUME NEW f, NEW L PROVE Lifts(f, f, L)
BY DEF Lifts

LEMMA LiftedState ==
  ASSUME NEW f, NEW g, NEW L, Lifts(f, g, L), NEW s \in Reachable, NEW l \in L, NEW y,
         Alive(g, L, y), Arc(g, l, g.alpha[s], y)
  PROVE  \E z : /\ Alive(f, L, z) /\ Arc(f, l, f.alpha[s], z)
                /\ \A t \in State : f.alpha[t] = z => g.alpha[t] = y
BY DEF Lifts

LEMMA FactorsReplaced ==
  ASSUME NEW A, NEW F, NEW G, NEW L, LabelSetOK(L),
         GoalsExact(A, F), StepsExact(A, F, L),
         \A i \in A : Lifts(F[i], G[i], L)
  PROVE  GoalsExact(A, G) /\ StepsExact(A, G, L)
<1>1. GoalsExact(A, G)
  BY DEF GoalsExact, Lifts
<1>2. ASSUME NEW s \in Reachable, NEW l \in L, NEW X, StepsTogether(A, G, L, s, l, X)
      PROVE  \E o \in l : StepIsReal(A, G, s, o, X)
  <2> DEFINE Lifted(i, z) == /\ Alive(F[i], L, z) /\ Arc(F[i], l, F[i].alpha[s], z)
                             /\ \A t \in State : F[i].alpha[t] = z => G[i].alpha[t] = X[i]
  <2>1. ASSUME NEW i \in A PROVE \E z : Lifted(i, z)
    <3>1. Alive(G[i], L, X[i]) /\ Arc(G[i], l, G[i].alpha[s], X[i])
      BY <1>2 DEF StepsTogether
    <3>2. Lifts(F[i], G[i], L)
      OBVIOUS
    <3> QED
      BY <3>1, <3>2, LiftedState
  <2>2. PICK Z : Z = [i \in A |-> CHOOSE z : Lifted(i, z)]
    OBVIOUS
  <2>3. ASSUME NEW i \in A PROVE Lifted(i, Z[i])
    <3>1. Z[i] = CHOOSE z : Lifted(i, z)
      BY <2>2
    <3> HIDE DEF Lifted
    <3> QED
      BY <2>1, <3>1
  <2>4. StepsTogether(A, F, L, s, l, Z)
    BY <2>3 DEF StepsTogether
  <2>5. PICK o \in l : StepIsReal(A, F, s, o, Z)
    BY <2>4 DEF StepsExact
  <2>6. PICK t : t = Result(s, o)
    OBVIOUS
  <2>7. o \in Op /\ s \in State
    BY ReachableFacts DEF LabelSetOK
  <2>8. t \in State
    BY <2>6, <2>7, ResultInState
  <2>9. \A i \in A : G[i].alpha[t] = X[i]
    BY <2>3, <2>5, <2>6, <2>8 DEF StepIsReal
  <2> QED
    BY <2>5, <2>6, <2>9 DEF StepIsReal
<1> QED
  BY <1>1, <1>2 DEF StepsExact

-----------------------------------------------------------------------------
(***************************************************************************)
(* Abstraction loses nothing that tells states apart                       *)
(***************************************************************************)
\* States are mapped to states or pruned.
MapsInto(f, m) == \A s \in f.states : m[s] = Pruned \/ m[s] \in f.states

Kept(m, x) == m[x] # Pruned
Alike(m, x, y) == m[x] = m[y]

\* What is true of a mapping that keeps the states of W, from which no goal can
\* be reached, from the others.
KeptApart(f, m, W) ==
    /\ W \subseteq f.states
    /\ \A u \in W, r \in f.goals : Kept(m, u) => ~Alike(m, u, r)
    /\ \A u \in W, l \in labels : \A p, q :
          Arc(f, l, p, q) /\ Alike(m, p, u) /\ Kept(m, u) /\ Kept(m, q) =>
              \E w \in W : Alike(m, w, q)

\* A state x does what the states mapped like x do.
DoesTheSame(f, m, W, x) ==
    /\ \A r \in f.goals : Alike(m, r, x) => x \in f.goals
    /\ \A l \in labels : \A p, q :
          Arc(f, l, p, q) /\ Alike(m, p, x) /\ Kept(m, q) =>
              \/ \E w \in W : Alike(m, w, q)
              \/ \E z : Alive(f, labels, z) /\ Arc(f, l, x, z) /\ Alike(m, z, q)

LEMMA ImageArc ==
  ASSUME NEW f, NEW m, NEW g, IsImage(f, m, g), FactorShape(f, labels),
         MapsInto(f, m),
         NEW l \in labels, NEW x, NEW y, Arc(g, l, x, y)
  PROVE  \E p, q \in f.states :
            /\ Arc(f, l, p, q) /\ m[p] # Pruned /\ m[q] # Pruned
            /\ x = m[p] /\ y = m[q]
<1>1. PICK a \in g.trans[l] : a = <<x, y>>
  BY DEF Arc
<1>2. PICK p \in f.states, q \in f.states :
         Arc(f, l, p, q) /\ m[p] # Pruned /\ m[q] # Pruned /\ a = <<m[p], m[q]>>
  BY ImageArcs DEF MapsInto, Arc
<1>3. x = m[p] /\ y = m[q]
  BY <1>1, <1>2
<1> QED
  BY <1>2, <1>3

LEMMA KeptApartStep ==
  ASSUME NEW f, NEW m, NEW W, KeptApart(f, m, W), NEW u \in W, NEW l \in labels,
         NEW p, NEW q, Arc(f, l, p, q), Alike(m, p, u), Kept(m, u), Kept(m, q)
  PROVE  \E w \in W : Alike(m, w, q)
BY DEF KeptApart

LEMMA SameStep ==
  ASSUME NEW f, NEW m, NEW W, NEW x, DoesTheSame(f, m, W, x), NEW l \in labels,
         NEW p, NEW q, Arc(f, l, p, q), Alike(m, p, x), Kept(m, q)
  PROVE  \/ \E w \in W : Alike(m, w, q)
         \/ \E z : Alive(f, labels, z) /\ Arc(f, l, x, z) /\ Alike(m, z, q)
BY DEF DoesTheSame

LEMMA ApartInImage ==
  ASSUME NEW f, FactorShape(f, labels), LabelsOK,
         NEW m, MapsInto(f, m),
         NEW g, IsImage(f, m, g), FactorShape(g, labels),
         NEW W, KeptApart(f, m, W), NEW u \in W, m[u] # Pruned
  PROVE  ~Alive(g, labels, m[u])
<1>1. PICK D : D = {m[w] : w \in {v \in W : m[v] # Pruned}}
  OBVIOUS
<1>2. D \subseteq g.states
  BY <1>1 DEF KeptApart, IsImage
<1>3. ASSUME NEW x \in D, x \in g.goals PROVE FALSE
  <2>1. PICK w \in W : x = m[w] /\ m[w] # Pruned
    BY <1>1
  <2>2. PICK r \in f.goals : x = m[r]
    BY <1>3 DEF IsImage, AbstractGoals
  <2> QED
    BY <2>1, <2>2 DEF KeptApart, Kept, Alike
<1>4. ASSUME NEW l \in labels, NEW x, NEW y, Arc(g, l, x, y), x \in D
      PROVE  y \in D
  <2>1. PICK w \in W : x = m[w] /\ m[w] # Pruned
    BY <1>1, <1>4
  <2>2. PICK p \in f.states, q \in f.states :
           /\ Arc(f, l, p, q) /\ m[p] # Pruned /\ m[q] # Pruned
           /\ x = m[p] /\ y = m[q]
    BY <1>4, ImageArc
  <2>3. Alike(m, p, w) /\ Kept(m, w) /\ Kept(m, q)
    BY <2>1, <2>2 DEF Alike, Kept
  <2>4. PICK v \in W : Alike(m, v, q)
    BY <1>4, <2>2, <2>3, KeptApartStep
  <2> QED
    BY <1>1, <2>2, <2>4 DEF Alike
<1>5. Trap(g, labels, D)
  BY <1>2, <1>3, <1>4 DEF Trap
<1>6. m[u] \in D
  BY <1>1
<1>7. LabelSetOK(labels)
  BY DEF LabelsOK
<1> QED
  BY <1>5, <1>6, <1>7, TrappedStates

LEMMA ImageLifts ==
  ASSUME NEW f, FactorShape(f, labels), LabelsOK,
         NEW m, MapsInto(f, m),
         NEW g, IsImage(f, m, g), FactorShape(g, labels),
         NEW W, KeptApart(f, m, W),
         \A s \in Reachable : f.alpha[s] # Pruned /\ m[f.alpha[s]] # Pruned =>
             (\E u \in W : m[u] = m[f.alpha[s]]) \/ DoesTheSame(f, m, W, f.alpha[s])
  PROVE  Lifts(f, g, labels)
<1>1. Pruned \notin f.states /\ Pruned \notin g.states /\ g.goals \subseteq g.states
      /\ \A l \in labels : g.trans[l] \subseteq g.states \X g.states
  BY DEF FactorShape
<1>2. ASSUME NEW s \in State
      PROVE  g.alpha[s] = IF f.alpha[s] = Pruned THEN Pruned ELSE m[f.alpha[s]]
  BY DEF IsImage
<1>3. \A s \in Reachable : s \in State
  BY ReachableFacts
<1>4. ASSUME NEW s \in Reachable, g.alpha[s] \in g.goals PROVE f.alpha[s] \in f.goals
  <2>1. PICK x : x = f.alpha[s]
    OBVIOUS
  <2>2. g.alpha[s] # Pruned
    BY <1>1, <1>4
  <2>3. x # Pruned /\ g.alpha[s] = m[x] /\ m[x] # Pruned
    BY <1>2, <1>3, <2>1, <2>2
  <2>4. PICK r \in f.goals : m[x] = m[r]
    BY <1>4, <2>3 DEF IsImage, AbstractGoals
  <2>5. ~ \E u \in W : m[u] = m[x]
    BY <2>3, <2>4 DEF KeptApart, Kept, Alike
  <2>6. DoesTheSame(f, m, W, x)
    BY <2>1, <2>3, <2>5
  <2> QED
    BY <2>1, <2>4, <2>6 DEF DoesTheSame, Kept, Alike
<1>5. ASSUME NEW s \in Reachable, NEW l \in labels, NEW y,
             Alive(g, labels, y), Arc(g, l, g.alpha[s], y)
      PROVE  \E z : /\ Alive(f, labels, z) /\ Arc(f, l, f.alpha[s], z)
                    /\ \A t \in State : f.alpha[t] = z => g.alpha[t] = y
  <2>1. PICK x : x = f.alpha[s]
    OBVIOUS
  <2>2. PICK p \in f.states, q \in f.states :
           /\ Arc(f, l, p, q) /\ m[p] # Pruned /\ m[q] # Pruned
           /\ g.alpha[s] = m[p] /\ y = m[q]
    BY <1>5, ImageArc
  <2>3. g.alpha[s] = m[p] /\ y = m[q]
    BY <2>2
  <2>4. x # Pruned /\ m[x] = m[p] /\ m[x] # Pruned
    BY <1>2, <1>3, <2>1, <2>2, <2>3
  <2>5. ASSUME NEW u \in W, m[u] = m[x] PROVE FALSE
    <3>1. PICK w \in W : m[w] = m[q]
      <4>1. Alike(m, p, u) /\ Kept(m, u) /\ Kept(m, q)
        BY <2>2, <2>4, <2>5 DEF Alike, Kept
      <4> QED
        BY <2>2, <4>1, KeptApartStep DEF Alike
    <3> QED
      BY <1>5, <2>2, <2>3, <3>1, ApartInImage
  <2>6. DoesTheSame(f, m, W, x)
    BY <2>1, <2>4, <2>5
  <2>7. ~ \E w \in W : m[w] = m[q]
    BY <1>5, <2>2, <2>3, ApartInImage
  <2>8. PICK z : Alive(f, labels, z) /\ Arc(f, l, x, z) /\ m[z] = m[q]
    <3>1. Alike(m, p, x) /\ Kept(m, q)
      BY <2>2, <2>4 DEF Alike, Kept
    <3>2. ~ \E w \in W : Alike(m, w, q)
      BY <2>7 DEF Alike
    <3>3. \E z : Alive(f, labels, z) /\ Arc(f, l, x, z) /\ Alike(m, z, q)
      BY <2>2, <2>6, <3>1, <3>2, SameStep
    <3> QED
      BY <3>3 DEF Alike
  <2>9. z # Pruned
    BY <1>1, <2>8 DEF Alive
  <2>10. \A t \in State : f.alpha[t] = z => g.alpha[t] = y
    BY <1>2, <2>3, <2>8, <2>9
  <2> QED
    BY <2>1, <2>8, <2>10
<1> QED
  BY <1>4, <1>5 DEF Lifts

\* Whether the distances are kept or computed, it is the image that counts.
LEMMA AbstractionLifts ==
  ASSUME NEW f, IsRecord(f), FactorShape(f, labels), f.init # Pruned,
         NEW classes, \A B \in classes : B \subseteq f.states,
         NEW m, m = Mapping(f.states, classes),
         \A g : IsImage(f, m, g) /\ FactorShape(g, labels) => Lifts(f, g, labels)
  PROVE  Lifts(f, Abstracted(f, classes), labels)
<1>1. PICK g : /\ IsImage(f, m, g)
               /\ \/ Abstracted(f, classes) = f
                  \/ Abstracted(f, classes) = WithDistances(g, labels)
                  \/ /\ Preserved(f, classes)
                     /\ Abstracted(f, classes) =
                           SetDistances(g, [s \in g.states |-> f.goal_dist[s]],
                                           [s \in g.states |-> f.init_dist[s]])
  BY AbstractedIsImage
<1>2. CASE Abstracted(f, classes) = f
  BY <1>2, LiftsItself
<1>3. CASE \E d, e : Abstracted(f, classes) = SetDistances(g, d, e)
  <2>1. PICK d, e : Abstracted(f, classes) = SetDistances(g, d, e)
    BY <1>3
  <2>2. PICK h : h = SetDistances(g, d, e)
    OBVIOUS
  <2>3. IsRecord(g)
    BY <1>1 DEF IsImage
  <2>4. h.states = g.states /\ h.init = g.init /\ h.goals = g.goals
        /\ h.trans = g.trans /\ h.alpha = g.alpha
    BY <2>2, <2>3, SetDistancesFields
  <2>5. GoalDistances(h, labels) = GoalDistances(g, labels)
    BY <2>4, SameArcs, SameDistances
  <2>6. MapsInto(f, m)
    <3>1. Pruned \notin f.states
      BY DEF FactorShape
    <3> QED
      BY <3>1, MappingFacts DEF MapsInto
  <2>7. FactorShape(g, labels)
    BY <1>1, <2>6, ImageShape DEF MapsInto
  <2>8. Lifts(f, g, labels)
    BY <1>1, <2>7
  <2>9. \A y : Alive(h, labels, y) <=> Alive(g, labels, y)
    BY <2>4, <2>5 DEF Alive
  <2>10. Lifts(f, h, labels)
    <3>1. ASSUME NEW s \in Reachable, NEW l \in labels, NEW y,
                 Alive(h, labels, y), Arc(h, l, h.alpha[s], y)
          PROVE  \E z : /\ Alive(f, labels, z) /\ Arc(f, l, f.alpha[s], z)
                        /\ \A t \in State : f.alpha[t] = z => h.alpha[t] = y
      <4>1. Alive(g, labels, y) /\ Arc(g, l, g.alpha[s], y)
        BY <2>4, <2>9, <3>1 DEF Arc
      <4>2. PICK z : /\ Alive(f, labels, z) /\ Arc(f, l, f.alpha[s], z)
                     /\ \A t \in State : f.alpha[t] = z => g.alpha[t] = y
        BY <2>8, <4>1, LiftedState
      <4> QED
        BY <2>4, <4>2
    <3>2. \A s \in Reachable : h.alpha[s] \in h.goals => f.alpha[s] \in f.goals
      BY <2>4, <2>8 DEF Lifts
    <3> QED
      BY <3>1, <3>2 DEF Lifts
  <2> QED
    BY <2>1, <2>2, <2>10
<1> QED
  BY <1>1, <1>2, <1>3 DEF WithDistances

-----------------------------------------------------------------------------
(***************************************************************************)
(* Shrinking                                                               *)
(***************************************************************************)
SameClass(classes, x, y) == \E B \in classes : x \in B /\ y \in B

Disjoint(classes) == \A B, C \in classes : \A x : x \in B /\ x \in C => B = C

LEMMA ShrinkDisjoint ==
  ASSUME NEW f, NEW target, NEW P \in Shrunk(f, target)
  PROVE  Disjoint(P)
<1>1. CASE P = {{s} : s \in f.states}
  <2> SUFFICES ASSUME NEW B \in P, NEW C \in P, NEW x, x \in B, x \in C PROVE B = C
    BY DEF Disjoint
  <2>1. B = {x} /\ C = {x}
    BY <1>1
  <2> QED
    BY <2>1
<1>2. CASE P \in Equivalences(f, target)
  <2>1. P \in Partitions(f.states)
    BY <1>2 DEF Equivalences
  <2> QED
    BY <2>1 DEF Partitions, Disjoint
<1> QED
  BY <1>1, <1>2 DEF Shrunk

\* States are mapped to the same state if they are of the same class.
LEMMA AlikeInClass ==
  ASSUME NEW S, NEW classes, Disjoint(classes), Pruned \notin S, \A B \in classes : B \subseteq S,
         NEW m, m = Mapping(S, classes), NEW x \in S, NEW y \in S
  PROVE  /\ SameClass(classes, x, y) => Alike(m, x, y)
         /\ Alike(m, x, y) /\ Kept(m, x) => SameClass(classes, x, y)
<1>1. ASSUME SameClass(classes, x, y) PROVE Alike(m, x, y)
  <2>1. PICK B \in classes : x \in B /\ y \in B
    BY <1>1 DEF SameClass
  <2>2. ASSUME NEW z \in B PROVE (CHOOSE C \in classes : z \in C) = B
    <3>1. PICK D : D = CHOOSE C \in classes : z \in C
      OBVIOUS
    <3>2. D \in classes /\ z \in D
      BY <3>1
    <3> QED
      BY <3>1, <3>2 DEF Disjoint
  <2>3. ASSUME NEW z \in B, z \in S PROVE m[z] = CHOOSE t \in B : TRUE
    <3>1. m[z] = CHOOSE t \in CHOOSE C \in classes : z \in C : TRUE
      BY <2>3 DEF Mapping
    <3> QED
      BY <2>2, <3>1
  <2> QED
    BY <2>1, <2>3 DEF Alike
<1>2. ASSUME Alike(m, x, y), Kept(m, x) PROVE SameClass(classes, x, y)
  <2>1. PICK g : g = [states |-> S]
    OBVIOUS
  <2>2. g.states = S
    BY <2>1
  <2>3. /\ m = Mapping(g.states, classes) /\ Pruned \notin g.states
        /\ \A B \in classes : B \subseteq g.states
    BY <2>2
  <2>4. \A z \in S : m[z] # Pruned => \E B \in classes : z \in B /\ m[z] \in B
    BY <2>2, <2>3, MappingFacts
  <2>5. PICK B \in classes : x \in B /\ m[x] \in B
    BY <1>2, <2>4 DEF Kept
  <2>6. PICK C \in classes : y \in C /\ m[y] \in C
    BY <1>2, <2>4 DEF Kept, Alike
  <2>7. B = C
    BY <1>2, <2>5, <2>6 DEF Disjoint, Alike
  <2> QED
    BY <2>5, <2>6, <2>7 DEF SameClass
<1> QED
  BY <1>1, <1>2

LEMMA BisimilarStates ==
  ASSUME NEW f, NEW P, IsBisimulation(f, P), Disjoint(P),
         NEW x, NEW p, SameClass(P, p, x)
  PROVE  /\ p \in f.goals => x \in f.goals
         /\ \A l \in labels : \A q : Arc(f, l, p, q) /\ (\E C \in P : q \in C) =>
               \E z : Arc(f, l, x, z) /\ SameClass(P, z, q)
<1> DEFINE Successors(s, l) == {B \in P : \E t \in B : <<s, t>> \in f.trans[l]}
<1>1. PICK B \in P : p \in B /\ x \in B
  BY DEF SameClass
<1>2. p \in f.goals <=> x \in f.goals
  BY <1>1 DEF IsBisimulation
<1>3. \A l \in labels : Successors(p, l) = Successors(x, l)
  BY <1>1 DEF IsBisimulation
<1>4. ASSUME NEW l \in labels, NEW q, Arc(f, l, p, q), NEW C \in P, q \in C
      PROVE  \E z : Arc(f, l, x, z) /\ SameClass(P, z, q)
  <2>1. C \in Successors(p, l)
    BY <1>4 DEF Arc
  <2>2. C \in Successors(x, l)
    BY <1>3, <2>1
  <2>3. \E z \in C : Arc(f, l, x, z)
    BY <2>2 DEF Arc
  <2> QED
    BY <1>4, <2>3 DEF SameClass
<1> QED
  BY <1>2, <1>4

LEMMA ShrinkLifts ==
  ASSUME NEW f, IsRecord(f), FactorShape(f, labels), LabelsOK, f.init # Pruned,
         NEW target, NEW P \in Shrunk(f, target), IsBisimulation(f, P)
  PROVE  Lifts(f, Abstracted(f, P), labels)
<1>1. PICK m : m = Mapping(f.states, P)
  OBVIOUS
<1>2. Disjoint(P) /\ ClassesOK(f, P) /\ \A s \in f.states : \E B \in P : s \in B
  BY ShrinkDisjoint, ShrinkClassesOK
<1>3. Pruned \notin f.states /\ LabelSetOK(labels)
  BY DEF FactorShape, LabelsOK
<1>4. \A B \in P : B \subseteq f.states
  BY <1>2 DEF ClassesOK
<1>5. \A x, y \in f.states : /\ SameClass(P, x, y) => Alike(m, x, y)
                             /\ Alike(m, x, y) => SameClass(P, x, y)
  <2>1. \A x \in f.states : Kept(m, x)
    BY <1>1, <1>2, <1>3, <1>4, MappingFacts DEF Kept
  <2> QED
    BY <1>1, <1>2, <1>3, <1>4, <2>1, AlikeInClass
<1>6. MapsInto(f, m)
  BY <1>1, <1>3, <1>4, MappingFacts DEF MapsInto
<1>7. PICK W : W = {u \in f.states : ~Alive(f, labels, u)}
  OBVIOUS
<1>8. \A l \in labels : \A p, q : Arc(f, l, p, q) => p \in f.states /\ q \in f.states
  BY DEF FactorShape, Arc
<1>9. ASSUME NEW x \in f.states, NEW p, Alike(m, p, x), NEW l \in labels, NEW q, Arc(f, l, p, q)
      PROVE  \E z \in f.states : Arc(f, l, x, z) /\ Alike(m, z, q)
  <2>1. p \in f.states /\ q \in f.states
    BY <1>8, <1>9
  <2>2. SameClass(P, p, x) /\ \E C \in P : q \in C
    BY <1>2, <1>5, <1>9, <2>1
  <2>3. PICK z : Arc(f, l, x, z) /\ SameClass(P, z, q)
    BY <1>2, <1>9, <2>2, BisimilarStates
  <2> QED
    BY <1>5, <1>8, <2>1, <2>3
<1>10. ASSUME NEW x \in f.states, NEW r \in f.goals, Alike(m, r, x) PROVE x \in f.goals
  <2>1. r \in f.states
    BY DEF FactorShape
  <2>2. SameClass(P, r, x)
    BY <1>5, <1>10, <2>1
  <2> QED
    BY <1>2, <2>2, BisimilarStates
<1>11. KeptApart(f, m, W)
  <2>1. ASSUME NEW u \in W, NEW r \in f.goals, Alike(m, u, r) PROVE FALSE
    <3>1. u \in f.goals
      BY <1>7, <1>10, <2>1 DEF Alike
    <3> QED
      BY <1>3, <1>7, <3>1, AliveFacts
  <2>2. ASSUME NEW u \in W, NEW l \in labels, NEW p, NEW q, Arc(f, l, p, q), Alike(m, p, u)
        PROVE  \E w \in W : Alike(m, w, q)
    <3>1. PICK z \in f.states : Arc(f, l, u, z) /\ Alike(m, z, q)
      BY <1>7, <1>9, <2>2
    <3>2. ~Alive(f, labels, z)
      BY <1>3, <1>7, <3>1, AliveFacts DEF Arc
    <3> QED
      BY <1>7, <3>1, <3>2
  <2> QED
    BY <1>7, <2>1, <2>2 DEF KeptApart
<1>12. ASSUME NEW x \in f.states PROVE DoesTheSame(f, m, W, x)
  <2>1. ASSUME NEW l \in labels, NEW p, NEW q, Arc(f, l, p, q), Alike(m, p, x)
        PROVE  \/ \E w \in W : Alike(m, w, q)
               \/ \E z : Alive(f, labels, z) /\ Arc(f, l, x, z) /\ Alike(m, z, q)
    <3>1. PICK z \in f.states : Arc(f, l, x, z) /\ Alike(m, z, q)
      BY <1>9, <2>1
    <3> QED
      BY <1>7, <3>1
  <2> QED
    BY <1>10, <2>1 DEF DoesTheSame
<1>13. \A s \in Reachable : f.alpha[s] # Pruned => DoesTheSame(f, m, W, f.alpha[s])
  <2>1. \A s \in Reachable : f.alpha[s] # Pruned => f.alpha[s] \in f.states
    BY ReachableFacts DEF FactorShape
  <2> QED
    BY <1>12, <2>1
<1>14. ASSUME NEW g, IsImage(f, m, g), FactorShape(g, labels) PROVE Lifts(f, g, labels)
  BY <1>6, <1>11, <1>13, <1>14, ImageLifts
<1> QED
  BY <1>1, <1>4, <1>14, AbstractionLifts

-----------------------------------------------------------------------------
(***************************************************************************)
(* Pruning                                                                 *)
(***************************************************************************)
\* A prune step puts no state with a goal before it or a way to it together
\* with another one.
LEMMA PruningClassesApart ==
  ASSUME NEW f, NEW x \in f.states, NEW y \in f.states, SameClass(PruningClasses(f), y, x)
  PROVE  /\ x \notin Irrelevant(f) \cup Unreachable(f) => y = x
         /\ x \in Irrelevant(f) => y \in Irrelevant(f)
<1>1. PICK B \in PruningClasses(f) : y \in B /\ x \in B
  BY DEF SameClass
<1>2. \/ \E s \in f.states \ (Irrelevant(f) \cup Unreachable(f)) : B = {s}
      \/ B = Irrelevant(f)
      \/ B = Unreachable(f) \ Irrelevant(f)
  BY <1>1 DEF PruningClasses
<1> QED
  BY <1>1, <1>2

LEMMA PruningDisjoint ==
  ASSUME NEW f PROVE Disjoint(PruningClasses(f))
<1> SUFFICES ASSUME NEW B \in PruningClasses(f), NEW C \in PruningClasses(f), NEW x,
                    x \in B, x \in C
             PROVE  B = C
  BY DEF Disjoint
<1>1. ASSUME NEW D \in PruningClasses(f)
      PROVE  \/ \E s \in f.states \ (Irrelevant(f) \cup Unreachable(f)) : D = {s}
             \/ D = Irrelevant(f)
             \/ D = Unreachable(f) \ Irrelevant(f)
  BY DEF PruningClasses
<1>2. PICK I, U : I = Irrelevant(f) /\ U = Unreachable(f)
  OBVIOUS
<1>3. CASE x \in I
  <2>1. B = I /\ C = I
    BY <1>1, <1>2, <1>3
  <2> QED
    BY <2>1
<1>4. CASE x \in U \ I
  <2>1. B = U \ I /\ C = U \ I
    BY <1>1, <1>2, <1>4
  <2> QED
    BY <2>1
<1>5. CASE x \notin I \cup U
  <2>1. B = {x} /\ C = {x}
    BY <1>1, <1>2, <1>5
  <2> QED
    BY <2>1
<1> QED
  BY <1>3, <1>4, <1>5

\* What can be reached in a factor is followed by what can be reached.
LEMMA ReachedStates ==
  ASSUME NEW f, FactorShape(f, labels), LabelsOK, DistancesOK(f, labels), f.init # Pruned,
         NEW l \in labels, NEW p, NEW q, Arc(f, l, p, q), p \notin Unreachable(f)
  PROVE  q \notin Unreachable(f)
<1> SUFFICES ASSUME config.prune_unreachable, q \in f.states, f.init_dist[q] = Infty PROVE FALSE
  BY DEF Unreachable
<1>1. LabelSetOK(labels)
  BY DEF LabelsOK
<1>2. PICK d : d = InitDistances(f, labels)
  OBVIOUS
<1>3. f.init_dist = d
  BY <1>2 DEF DistancesOK, NeedInitDistances
<1>4. PICK c : c = LabelCost(l)
  OBVIOUS
<1>5. <<p, q, c>> \in ArcsOf(f, labels)
  BY <1>1, <1>4, FactorArcs DEF Arc
<1>6. p \in f.states /\ c \in Nat /\ AtMost(d[q], Plus(c, d[p]))
  BY <1>1, <1>2, <1>5, FactorArc
<1>7. d[p] # Infty /\ d[q] = Infty
  BY <1>3, <1>6 DEF Unreachable
<1>8. d \in [f.states -> Distances]
  <2>1. PICK A, T : A = Turned(ArcsOf(f, labels)) /\ T = {f.init}
    OBVIOUS
  <2>2. IsGraph(f.states, A, T)
    BY <1>1, <2>1, FactorGraph
  <2>3. d = ShortestPaths(f.states, A, T)
    BY <1>2, <2>1 DEF InitDistances
  <2> QED
    BY <2>2, <2>3, DistanceFacts
<1>9. d[p] \in Nat
  BY <1>6, <1>7, <1>8 DEF Distances
<1> QED
  BY <1>6, <1>7, <1>9, InftyAssumption DEF AtMost, Plus

LEMMA PruneStepLifts ==
  ASSUME NEW f, IsRecord(f), Abstraction(f), DistancesOK(f, labels), f.init # Pruned
  PROVE  Lifts(f, PruneStep(f), labels)
<1>1. PICK C : C = PruningClasses(f)
  OBVIOUS
<1>2. PICK m : m = Mapping(f.states, C)
  OBVIOUS
<1>3. /\ FactorShape(f, labels) /\ LabelsOK /\ LabelSetOK(labels) /\ Pruned \notin f.states
      /\ f.goals \subseteq f.states
  BY DEF Abstraction, LabelsOK, FactorShape
<1>4. \A B \in C : B \subseteq f.states
  BY <1>1, PruningClassesOK DEF ClassesOK
<1>5. MapsInto(f, m)
  BY <1>2, <1>3, <1>4, MappingFacts DEF MapsInto
<1>6. PICK I, U : I = Irrelevant(f) /\ U = Unreachable(f)
  OBVIOUS
<1>7. I \subseteq f.states /\ \A x \in f.states : x \in I <=> config.prune_irrelevant /\ ~Alive(f, labels, x)
  BY <1>6 DEF Irrelevant, DistancesOK, NeedGoalDistances, Alive
<1>8. ASSUME NEW x \in f.states, NEW y \in f.states, Alike(m, y, x), Kept(m, x)
      PROVE  /\ x \notin I \cup U => y = x
             /\ x \in I => y \in I
  <2>1. Disjoint(C)
    BY <1>1, PruningDisjoint
  <2>2. Alike(m, x, y)
    BY <1>8 DEF Alike
  <2>3. SameClass(C, x, y)
    BY <1>2, <1>3, <1>4, <1>8, <2>1, <2>2, AlikeInClass
  <2>4. SameClass(C, y, x)
    BY <2>3 DEF SameClass
  <2> QED
    BY <1>1, <1>6, <2>4, PruningClassesApart
<1>9. PICK W : W = {u \in f.states \ (U \ I) : ~Alive(f, labels, u)}
  OBVIOUS
<1>10. \A l \in labels : \A p, q : Arc(f, l, p, q) =>
           /\ p \in f.states /\ q \in f.states
           /\ ~Alive(f, labels, p) => ~Alive(f, labels, q)
           /\ p \notin U => q \notin U
  <2>1. ASSUME NEW l \in labels, NEW p, NEW q, Arc(f, l, p, q)
        PROVE  /\ p \in f.states /\ q \in f.states
               /\ ~Alive(f, labels, p) => ~Alive(f, labels, q)
               /\ p \notin U => q \notin U
    <3>1. p \in f.states /\ q \in f.states
      BY <1>3, <2>1 DEF FactorShape, Arc
    <3>2. Alive(f, labels, q) => Alive(f, labels, p)
      BY <1>3, <2>1, AliveFacts
    <3>3. p \notin U => q \notin U
      BY <1>3, <1>6, <2>1, ReachedStates
    <3> QED
      BY <3>1, <3>2, <3>3
  <2> QED
    BY <2>1
<1>11. \A r \in f.goals : Alive(f, labels, r) /\ r \in f.states
  BY <1>3, AliveFacts
<1>12. KeptApart(f, m, W)
  <2>1. ASSUME NEW u \in W, NEW r \in f.goals, Kept(m, u), Alike(m, u, r) PROVE FALSE
    <3>1. Alike(m, r, u) /\ u \in f.states /\ r \in f.states
      BY <1>9, <1>11, <2>1 DEF Alike
    <3>2. (u \notin I \cup U => r = u) /\ (u \in I => r \in I)
      BY <1>8, <2>1, <3>1
    <3>3. ~Alive(f, labels, u) /\ (u \in I \/ u \notin I \cup U) /\ Alive(f, labels, r)
      BY <1>9, <1>11
    <3>4. r \notin I
      BY <1>7, <3>1, <3>3
    <3> QED
      BY <3>2, <3>3, <3>4
  <2>2. ASSUME NEW u \in W, NEW l \in labels, NEW p, NEW q, Arc(f, l, p, q), Alike(m, p, u),
               Kept(m, u)
        PROVE  \E w \in W : Alike(m, w, q)
    <3>1. p \in f.states /\ q \in f.states /\ u \in f.states
      BY <1>9, <1>10, <2>2
    <3>2. (u \notin I \cup U => p = u) /\ (u \in I => p \in I)
      BY <1>8, <2>2, <3>1
    <3>3. ~Alive(f, labels, u) /\ (u \in I \/ u \notin I \cup U)
      BY <1>9
    <3>4. ~Alive(f, labels, p)
      BY <1>7, <3>1, <3>2, <3>3
    <3>5. ~Alive(f, labels, q)
      BY <1>10, <2>2, <3>4
    <3>6. q \notin U \ I
      BY <1>7, <1>10, <2>2, <3>1, <3>2, <3>3, <3>5
    <3>7. q \in W
      BY <1>9, <3>1, <3>5, <3>6
    <3> QED
      BY <3>7 DEF Alike
  <2> QED
    BY <1>9, <2>1, <2>2 DEF KeptApart
<1>13. ASSUME NEW x \in f.states, x \notin U, Kept(m, x), Alive(f, labels, x)
       PROVE  DoesTheSame(f, m, W, x)
  <2>1. x \notin I \cup U
    BY <1>7, <1>13
  <2>2. \A y \in f.states : Alike(m, y, x) => y = x
    BY <1>8, <1>13, <2>1
  <2>3. ASSUME NEW l \in labels, NEW p, NEW q, Arc(f, l, p, q), Alike(m, p, x)
        PROVE  \/ \E w \in W : Alike(m, w, q)
               \/ \E z : Alive(f, labels, z) /\ Arc(f, l, x, z) /\ Alike(m, z, q)
    <3>1. q \in f.states /\ p = x
      BY <1>10, <2>2, <2>3
    <3>2. q \notin U /\ Alike(m, q, q)
      BY <1>10, <1>13, <2>3, <3>1 DEF Alike
    <3>3. Alive(f, labels, q) \/ q \in W
      BY <1>9, <3>1, <3>2
    <3> QED
      BY <2>3, <3>1, <3>2, <3>3
  <2>4. \A r \in f.goals : Alike(m, r, x) => x \in f.goals
    BY <1>11, <2>2
  <2> QED
    BY <2>3, <2>4 DEF DoesTheSame
<1>14. ASSUME NEW s \in Reachable, f.alpha[s] # Pruned, m[f.alpha[s]] # Pruned
       PROVE  (\E u \in W : m[u] = m[f.alpha[s]]) \/ DoesTheSame(f, m, W, f.alpha[s])
  <2>1. PICK x : x = f.alpha[s]
    OBVIOUS
  <2>2. x \in f.states
    BY <1>3, <1>14, <2>1, ReachableFacts DEF FactorShape
  <2>3. x \notin U
    <3>1. InitDistances(f, labels)[x] # Infty
      BY <1>14, <2>1, InitBound
    <3> QED
      BY <1>6, <3>1 DEF Unreachable, DistancesOK, NeedInitDistances
  <2>4. Kept(m, x)
    BY <1>14, <2>1 DEF Kept
  <2>5. CASE Alive(f, labels, x)
    BY <1>13, <2>1, <2>2, <2>3, <2>4, <2>5
  <2>6. CASE ~Alive(f, labels, x)
    <3>1. x \in W
      BY <1>9, <2>2, <2>3, <2>6
    <3> QED
      BY <2>1, <3>1
  <2> QED
    BY <2>5, <2>6
<1>15. ASSUME NEW g, IsImage(f, m, g), FactorShape(g, labels) PROVE Lifts(f, g, labels)
  BY <1>3, <1>5, <1>12, <1>14, <1>15, ImageLifts
<1>16. Lifts(f, Abstracted(f, C), labels)
  BY <1>2, <1>3, <1>4, <1>15, AbstractionLifts
<1> QED
  BY <1>1, <1>16, LiftsItself DEF PruneStep

-----------------------------------------------------------------------------
(***************************************************************************)
(* Atomic factors                                                          *)
(***************************************************************************)
\* An atomic factor does nothing but what the operator does with the variable.
LEMMA AtomicTransExact ==
  ASSUME Deterministic, NEW v \in Var, NEW o \in Op, NEW s \in State, NEW y,
         <<s[v], y>> \in AtomicTrans(v, o)
  PROVE  /\ \A g \in Pre[o] : g[1] = v => s[v] = g[2]
         /\ Result(s, o)[v] = y
<1> DEFINE pre == {f[2] : f \in {g \in Pre[o] : g[1] = v}}
           from == IF pre = {} THEN Domain[v] ELSE pre
           effects == {e \in Effects[o] : e.fact[1] = v}
           MayFire(x, e) == \A f \in e.cond : f[1] = v => f[2] = x
           MayFail(x, e) == \E f \in e.cond : f[1] # v \/ f[2] # x
           fire == UNION {{<<z, e.fact[2]>> : z \in {w \in from : MayFire(w, e)}} : e \in effects}
           fail == {<<z, z>> : z \in {w \in from : \E e \in effects : MayFail(w, e)}}
<1>1. AtomicTrans(v, o) = IF effects = {} THEN {<<z, z>> : z \in from} ELSE fire \cup fail
  BY DEF AtomicTrans
<1>2. PICK x : x = s[v]
  OBVIOUS
<1>3. \/ effects = {} /\ x \in from /\ y = x
      \/ \E e \in effects : x \in from /\ MayFire(x, e) /\ y = e.fact[2]
      \/ \E e \in effects : x \in from /\ MayFail(x, e) /\ y = x
  <2>1. <<x, y>> \in AtomicTrans(v, o)
    BY <1>2
  <2> HIDE DEF from, effects, MayFire, MayFail
  <2>2. CASE effects = {}
    BY <1>1, <2>1, <2>2
  <2>3. CASE <<x, y>> \in fire
    <3>1. PICK e \in effects : <<x, y>> \in {<<z, e.fact[2]>> : z \in {w \in from : MayFire(w, e)}}
      BY <2>3
    <3> QED
      BY <3>1
  <2>4. CASE <<x, y>> \in fail
    BY <2>4
  <2> QED
    BY <1>1, <2>1, <2>2, <2>3, <2>4
<1>4. ASSUME NEW g \in Pre[o], g[1] = v PROVE x = g[2]
  <2>1. g[2] \in pre /\ x \in from
    BY <1>3, <1>4
  <2>2. x \in pre
    BY <2>1
  <2>3. PICK h \in Pre[o] : h[1] = v /\ x = h[2]
    BY <2>2
  <2>4. h = g
    BY <1>4, <2>3, ConsistentFactsAssumption
  <2> QED
    BY <2>3, <2>4
<1>5. \A e \in effects : \A f \in e.cond : f[1] = v
  BY DEF Deterministic, Factored
<1>6. \A e \in effects : /\ e \in Fired(s, o, v) <=> Holds(s, e.cond)
                         /\ Fired(s, o, v) \subseteq {e}
  BY DEF Fired, Deterministic, OneEffectEach
<1>7. CASE effects = {} /\ y = x
  <2>1. Fired(s, o, v) = {}
    BY <1>7 DEF Fired
  <2> QED
    BY <1>2, <1>4, <1>7, <2>1 DEF Result
<1>8. CASE \E e \in effects : MayFire(x, e) /\ y = e.fact[2]
  <2>1. PICK e \in effects : MayFire(x, e) /\ y = e.fact[2]
    BY <1>8
  <2>2. Holds(s, e.cond)
    BY <1>2, <1>5, <2>1 DEF Holds
  <2>3. Fired(s, o, v) = {e}
    BY <1>6, <2>2
  <2>4. Result(s, o)[v] = (CHOOSE d \in Fired(s, o, v) : TRUE).fact[2]
    BY <2>3 DEF Result
  <2> HIDE DEF effects, MayFire
  <2>5. (CHOOSE d \in Fired(s, o, v) : TRUE) = e
    BY <2>3
  <2> QED
    BY <1>2, <1>4, <2>1, <2>4, <2>5
<1>9. CASE \E e \in effects : MayFail(x, e) /\ y = x
  <2>1. PICK e \in effects : MayFail(x, e) /\ y = x
    BY <1>9
  <2>2. ~Holds(s, e.cond)
    BY <1>2, <1>5, <2>1 DEF Holds
  <2>3. Fired(s, o, v) = {}
    BY <1>6, <2>2
  <2> QED
    BY <1>2, <1>4, <2>1, <2>3 DEF Result
<1> QED
  BY <1>3, <1>7, <1>8, <1>9

LEMMA AtomicExact ==
  ASSUME Deterministic, NEW F,
         \A v \in Var : F[v] = WithDistances(AtomicFactor(v), InitialLabels)
  PROVE  GoalsExact(Var, F) /\ StepsExact(Var, F, InitialLabels)
<1>1. ASSUME NEW v \in Var
      PROVE  /\ F[v].goals = {x \in Domain[v] : \A g \in Goal : g[1] = v => g[2] = x}
             /\ \A o \in Op : F[v].trans[{o}] = AtomicTrans(v, o)
             /\ \A s \in State : F[v].alpha[s] = s[v]
  <2>1. PICK f : f = AtomicFactor(v)
    OBVIOUS
  <2>2. /\ IsRecord(f)
        /\ f.goals = {x \in Domain[v] : \A g \in Goal : g[1] = v => g[2] = x}
        /\ f.trans = [l \in InitialLabels |-> AtomicTrans(v, CHOOSE o \in l : TRUE)]
        /\ f.alpha = [s \in State |-> s[v]]
    BY <2>1 DEF IsRecord, AtomicFactor
  <2>3. F[v].goals = f.goals /\ F[v].trans = f.trans /\ F[v].alpha = f.alpha
    BY <2>1, <2>2, SetDistancesFields DEF WithDistances
  <2>4. ASSUME NEW o \in Op PROVE F[v].trans[{o}] = AtomicTrans(v, o)
    <3>1. {o} \in InitialLabels
      BY DEF InitialLabels
    <3>2. PICK q : q = CHOOSE p \in {o} : TRUE
      OBVIOUS
    <3>3. q = o
      BY <3>2
    <3>4. F[v].trans[{o}] = AtomicTrans(v, q)
      BY <2>2, <2>3, <3>1, <3>2
    <3> QED
      BY <3>3, <3>4
  <2> QED
    BY <2>2, <2>3, <2>4
<1>2. ASSUME NEW s \in State, \A v \in Var : F[v].alpha[s] \in F[v].goals
      PROVE  s \in GoalStates
  <2>1. ASSUME NEW g \in Goal PROVE s[g[1]] = g[2]
    <3>1. PICK v \in Var : v = g[1]
      BY TaskAssumption DEF Facts
    <3>2. s[v] \in F[v].goals
      BY <1>1, <1>2
    <3> QED
      BY <1>1, <3>1, <3>2
  <2> QED
    BY <2>1 DEF GoalStates, Holds
<1>3. ASSUME NEW s \in State, NEW l \in InitialLabels, NEW X,
             StepsTogether(Var, F, InitialLabels, s, l, X)
      PROVE  \E o \in l : StepIsReal(Var, F, s, o, X)
  <2>1. PICK o \in Op : l = {o}
    BY DEF InitialLabels
  <2>2. ASSUME NEW v \in Var PROVE <<s[v], X[v]>> \in AtomicTrans(v, o)
    BY <1>1, <1>3, <2>1 DEF StepsTogether, Arc
  <2>3. ASSUME NEW g \in Pre[o] PROVE s[g[1]] = g[2]
    <3>1. Pre[o] \subseteq Facts
      BY TaskAssumption
    <3>2. PICK v \in Var : v = g[1]
      BY <3>1 DEF Facts
    <3>3. <<s[v], X[v]>> \in AtomicTrans(v, o)
      BY <2>2
    <3>4. \A h \in Pre[o] : h[1] = v => s[v] = h[2]
      BY <3>3, AtomicTransExact
    <3> QED
      BY <3>2, <3>4
  <2>4. PICK t \in State : t = Result(s, o)
    BY ResultInState
  <2>5. ASSUME NEW v \in Var PROVE F[v].alpha[t] = X[v]
    <3>1. t[v] = X[v]
      <4>1. PICK y : y = X[v]
        OBVIOUS
      <4>2. <<s[v], y>> \in AtomicTrans(v, o)
        BY <2>2, <4>1
      <4>3. Result(s, o)[v] = y
        BY <4>2, AtomicTransExact
      <4> QED
        BY <2>4, <4>1, <4>3
    <3> QED
      BY <1>1, <2>4, <3>1
  <2>6. StepIsReal(Var, F, s, o, X)
    BY <2>3, <2>4, <2>5 DEF StepIsReal, Applicable, Holds
  <2> QED
    BY <2>1, <2>6
<1>4. \A s \in Reachable : s \in State
  BY ReachableFacts
<1> QED
  BY <1>2, <1>3, <1>4 DEF GoalsExact, StepsExact

-----------------------------------------------------------------------------
(***************************************************************************)
(* Label reduction loses nothing                                           *)
(***************************************************************************)
\* Labels are only combined if all factors but one do the same with them.
LEMMA ReductionExact ==
  ASSUME LabelsOK, NEW i, NEW G, NEW K, K = NewLabels(i),
         \A j \in active : /\ IsRecord(fts[j]) /\ FactorShape(fts[j], labels)
                           /\ G[j] = ReducedFactor(fts[j], i, j),
         GoalsExact(active, fts), StepsExact(active, fts, labels)
  PROVE  GoalsExact(active, G) /\ StepsExact(active, G, K)
<1>1. ASSUME NEW j \in active
      PROVE  /\ TransReduced(fts[j], G[j], i, j)
             /\ G[j].states = fts[j].states /\ G[j].goals = fts[j].goals
             /\ G[j].alpha = fts[j].alpha
             /\ \A x : Alive(G[j], K, x) => Alive(fts[j], labels, x)
  <2>1. PICK f : f = fts[j]
    OBVIOUS
  <2>2. PICK g : g = ReducedFactor(f, i, j)
    OBVIOUS
  <2>3. IsRecord(f) /\ FactorShape(f, labels) /\ G[j] = g
    BY <2>1, <2>2
  <2>4. /\ TransReduced(f, g, i, j)
        /\ g.states = f.states /\ g.goals = f.goals /\ g.alpha = f.alpha
    BY <2>2, <2>3, ReducedFactorFields
  <2>5. ArcsOf(g, K) = ArcsOf(f, labels)
    BY <2>1, <2>3, <2>4, ReducedArcs
  <2>6. GoalDistances(g, K) = GoalDistances(f, labels)
    BY <2>4, <2>5 DEF GoalDistances
  <2>7. \A x : Alive(g, K, x) => Alive(f, labels, x)
    BY <2>4, <2>6 DEF Alive
  <2> QED
    BY <2>1, <2>3, <2>4, <2>7
<1>2. GoalsExact(active, G)
  BY <1>1 DEF GoalsExact
<1>3. ASSUME NEW s \in Reachable, NEW l \in K, NEW X, StepsTogether(active, G, K, s, l, X)
      PROVE  \E o \in l : StepIsReal(active, G, s, o, X)
  <2>1. /\ OldLabels(l) # {} /\ \A k, m \in OldLabels(l) : Combinable(i, k, m)
        /\ \A m \in OldLabels(l) : m \in labels /\ m \subseteq l
    BY OldLabelsOfNew DEF OldLabels
  <2>2. ASSUME NEW j \in active
        PROVE  \E m \in OldLabels(l) : Arc(fts[j], m, fts[j].alpha[s], X[j])
    <3>1. Arc(G[j], l, fts[j].alpha[s], X[j])
      BY <1>1, <1>3 DEF StepsTogether
    <3>2. PICK p : p = <<fts[j].alpha[s], X[j]>>
      OBVIOUS
    <3>3. p \in G[j].trans[l]
      BY <3>1, <3>2 DEF Arc
    <3>4. \E m \in OldLabels(l) : p \in fts[j].trans[m]
      BY <1>1, <3>3 DEF TransReduced
    <3> QED
      BY <3>2, <3>4 DEF Arc
  <2>3. PICK m \in OldLabels(l) : i \in active => Arc(fts[i], m, fts[i].alpha[s], X[i])
    BY <2>1, <2>2
  <2>4. ASSUME NEW j \in active
        PROVE  Alive(fts[j], labels, X[j]) /\ Arc(fts[j], m, fts[j].alpha[s], X[j])
    <3>1. Alive(fts[j], labels, X[j])
      BY <1>1, <1>3 DEF StepsTogether
    <3>2. CASE j = i
      BY <2>3, <3>1, <3>2
    <3>3. CASE j # i
      <4>1. PICK k \in OldLabels(l) : Arc(fts[j], k, fts[j].alpha[s], X[j])
        BY <2>2
      <4>2. fts[j].trans[k] = fts[j].trans[m]
        BY <2>1, <3>3 DEF Combinable
      <4> QED
        BY <3>1, <4>1, <4>2 DEF Arc
    <3> QED
      BY <3>2, <3>3
  <2>5. StepsTogether(active, fts, labels, s, m, X)
    BY <2>4 DEF StepsTogether
  <2>6. PICK o \in m : StepIsReal(active, fts, s, o, X)
    BY <2>1, <2>5 DEF StepsExact
  <2>7. StepIsReal(active, G, s, o, X)
    BY <1>1, <2>6 DEF StepIsReal
  <2> QED
    BY <2>1, <2>7
<1> QED
  BY <1>2, <1>3 DEF StepsExact

-----------------------------------------------------------------------------
(***************************************************************************)
(* Merging                                                                 *)
(***************************************************************************)
LEMMA ProductFields ==
  ASSUME NEW f, NEW g, NEW h, h = Product(f, g)
  PROVE  /\ h.states = f.states \X g.states /\ h.goals = f.goals \X g.goals
         /\ \A l \in labels : h.trans[l] = {<<<<p[1], q[1]>>, <<p[2], q[2]>>>> :
                                               p \in f.trans[l], q \in g.trans[l]}
         /\ \A s \in State : h.alpha[s] = IF f.alpha[s] = Pruned \/ g.alpha[s] = Pruned
                                          THEN Pruned ELSE <<f.alpha[s], g.alpha[s]>>
<1> DEFINE k == [states |-> f.states \X g.states,
                 init |-> <<f.init, g.init>>,
                 goals |-> f.goals \X g.goals,
                 trans |-> [l \in labels |-> {<<<<p[1], q[1]>>, <<p[2], q[2]>>>> :
                                                 p \in f.trans[l], q \in g.trans[l]}],
                 alpha |-> [s \in State |-> IF f.alpha[s] = Pruned \/ g.alpha[s] = Pruned
                                            THEN Pruned ELSE <<f.alpha[s], g.alpha[s]>>],
                 goal_dist |-> NotComputed,
                 init_dist |-> NotComputed]
<1>1. /\ IsRecord(k)
      /\ k.states = f.states \X g.states /\ k.goals = f.goals \X g.goals
      /\ k.trans = [l \in labels |-> {<<<<p[1], q[1]>>, <<p[2], q[2]>>>> :
                                         p \in f.trans[l], q \in g.trans[l]}]
      /\ k.alpha = [s \in State |-> IF f.alpha[s] = Pruned \/ g.alpha[s] = Pruned
                                    THEN Pruned ELSE <<f.alpha[s], g.alpha[s]>>]
  BY DEF IsRecord
<1>2. h = WithDistances(k, labels)
  BY DEF Product
<1> HIDE DEF k
<1>3. h.states = k.states /\ h.goals = k.goals /\ h.trans = k.trans /\ h.alpha = k.alpha
  BY <1>1, <1>2, SetDistancesFields DEF WithDistances
<1> QED
  BY <1>1, <1>3

LEMMA ProductArc ==
  ASSUME NEW f, NEW g, FactorShape(f, labels), FactorShape(g, labels),
         NEW h, h = Product(f, g), NEW l \in labels,
         NEW x, NEW y, NEW a, NEW b, Arc(h, l, <<x, y>>, <<a, b>>)
  PROVE  Arc(f, l, x, a) /\ Arc(g, l, y, b)
<1>1. PICK e \in h.trans[l] : e = <<<<x, y>>, <<a, b>>>>
  BY DEF Arc
<1>2. h.trans[l] = {<<<<p[1], q[1]>>, <<p[2], q[2]>>>> : p \in f.trans[l], q \in g.trans[l]}
  BY ProductFields
<1>3. PICK p \in f.trans[l], q \in g.trans[l] : e = <<<<p[1], q[1]>>, <<p[2], q[2]>>>>
  BY <1>2
<1>4. PICK u, v : u = <<p[1], q[1]>> /\ v = <<p[2], q[2]>>
  OBVIOUS
<1>5. <<x, y>> = u /\ <<a, b>> = v
  BY <1>1, <1>3, <1>4
<1>6. x = p[1] /\ y = q[1] /\ a = p[2] /\ b = q[2]
  BY <1>4, <1>5
<1>7. p \in f.states \X f.states /\ q \in g.states \X g.states
  BY DEF FactorShape
<1>8. p = <<x, a>> /\ q = <<y, b>>
  BY <1>6, <1>7
<1> QED
  BY <1>8 DEF Arc

\* A step of a product is a step of both factors.
LEMMA ProductParts ==
  ASSUME PrunedIsNoPair, NEW f, NEW g, FactorShape(f, labels), FactorShape(g, labels), LabelsOK,
         f.init # Pruned, g.init # Pruned, NEW h, h = Product(f, g)
  PROVE  /\ \A s \in State : h.alpha[s] \in h.goals => f.alpha[s] \in f.goals /\ g.alpha[s] \in g.goals
         /\ \A s \in State, l \in labels : \A y :
               Alive(h, labels, y) /\ Arc(h, l, h.alpha[s], y) =>
                   \E a, b : /\ Alive(f, labels, a) /\ Alive(g, labels, b)
                             /\ Arc(f, l, f.alpha[s], a) /\ Arc(g, l, g.alpha[s], b)
                             /\ \A t \in State : f.alpha[t] = a /\ g.alpha[t] = b => h.alpha[t] = y
<1>1. /\ LabelSetOK(labels) /\ FactorShape(h, labels)
      /\ Pruned \notin f.states /\ Pruned \notin g.states /\ Pruned \notin h.states
      /\ h.goals \subseteq h.states
  BY ProductDistances DEF LabelsOK, FactorShape
<1>2. h.states = f.states \X g.states /\ h.goals = f.goals \X g.goals
  BY ProductFields
<1>3. \A s \in State : h.alpha[s] = IF f.alpha[s] = Pruned \/ g.alpha[s] = Pruned
                                    THEN Pruned ELSE <<f.alpha[s], g.alpha[s]>>
  BY ProductFields
<1>4. \A l \in labels : \A x, y : Arc(h, l, x, y) => x \in h.states /\ y \in h.states
  BY <1>1 DEF FactorShape, Arc
<1>5. ASSUME NEW s \in State, h.alpha[s] \in h.goals
      PROVE  f.alpha[s] \in f.goals /\ g.alpha[s] \in g.goals
  <2>1. h.alpha[s] \in h.states
    BY <1>1, <1>5
  <2>2. h.alpha[s] = <<f.alpha[s], g.alpha[s]>>
    BY <1>1, <1>3, <2>1
  <2> QED
    BY <1>2, <1>5, <2>2
<1>6. PICK D : D = {p \in h.states : ~Alive(f, labels, p[1]) \/ ~Alive(g, labels, p[2])}
  OBVIOUS
<1>7. Trap(h, labels, D)
  <2>1. ASSUME NEW p \in D, p \in h.goals PROVE FALSE
    <3>1. p[1] \in f.goals /\ p[2] \in g.goals
      BY <1>2, <2>1
    <3>2. Alive(f, labels, p[1]) /\ Alive(g, labels, p[2])
      BY <1>1, <3>1, AliveFacts
    <3> QED
      BY <1>6, <3>2
  <2>2. ASSUME NEW l \in labels, NEW x, NEW y, Arc(h, l, x, y), x \in D PROVE y \in D
    <3>1. x \in h.states /\ y \in h.states
      BY <1>4, <2>2
    <3>2. PICK x1, x2, y1, y2 : x = <<x1, x2>> /\ y = <<y1, y2>>
      BY <1>2, <3>1
    <3>3. Arc(f, l, x1, y1) /\ Arc(g, l, x2, y2)
      BY <2>2, <3>2, ProductArc
    <3>4. ~Alive(f, labels, x1) \/ ~Alive(g, labels, x2)
      BY <1>6, <2>2, <3>2
    <3>5. /\ Alive(f, labels, y1) => Alive(f, labels, x1)
          /\ Alive(g, labels, y2) => Alive(g, labels, x2)
      BY <1>1, <3>3, AliveFacts
    <3> QED
      BY <1>6, <3>1, <3>2, <3>4, <3>5
  <2> QED
    BY <1>6, <2>1, <2>2 DEF Trap
<1>8. ASSUME NEW s \in State, NEW l \in labels, NEW y, Alive(h, labels, y),
             Arc(h, l, h.alpha[s], y)
      PROVE  \E a, b : /\ Alive(f, labels, a) /\ Alive(g, labels, b)
                       /\ Arc(f, l, f.alpha[s], a) /\ Arc(g, l, g.alpha[s], b)
                       /\ \A t \in State : f.alpha[t] = a /\ g.alpha[t] = b => h.alpha[t] = y
  <2>1. h.alpha[s] \in h.states /\ y \in h.states
    BY <1>4, <1>8
  <2>2. h.alpha[s] = <<f.alpha[s], g.alpha[s]>>
    BY <1>1, <1>3, <2>1
  <2>3. PICK a, b : y = <<a, b>> /\ a \in f.states /\ b \in g.states
    BY <1>2, <2>1
  <2>4. Arc(f, l, f.alpha[s], a) /\ Arc(g, l, g.alpha[s], b)
    BY <1>8, <2>2, <2>3, ProductArc
  <2>5. y \notin D
    BY <1>1, <1>7, <1>8, TrappedStates
  <2>6. Alive(f, labels, a) /\ Alive(g, labels, b)
    BY <1>6, <2>1, <2>3, <2>5
  <2>7. \A t \in State : f.alpha[t] = a /\ g.alpha[t] = b => h.alpha[t] = y
    BY <1>1, <1>3, <2>3
  <2> QED
    BY <2>4, <2>6, <2>7
<1> QED
  BY <1>5, <1>8

\* Two factors are replaced by their product.
LEMMA MergeExact ==
  ASSUME PrunedIsNoPair, LabelsOK, NEW A, NEW F, GoalsExact(A, F), StepsExact(A, F, labels),
         NEW i \in A, NEW j \in A, i # j, NEW n, n \notin A, NEW G,
         FactorShape(F[i], labels), FactorShape(F[j], labels),
         F[i].init # Pruned, F[j].init # Pruned,
         G[n] = Product(F[i], F[j]), \A k \in A \ {i, j} : G[k] = F[k],
         NEW B, B = (A \ {i, j}) \cup {n}
  PROVE  GoalsExact(B, G) /\ StepsExact(B, G, labels)
<1>1. PICK f, g, h : f = F[i] /\ g = F[j] /\ h = G[n]
  OBVIOUS
<1>2. /\ \A s \in State : h.alpha[s] \in h.goals => f.alpha[s] \in f.goals /\ g.alpha[s] \in g.goals
      /\ \A s \in State, l \in labels : \A y :
            Alive(h, labels, y) /\ Arc(h, l, h.alpha[s], y) =>
                \E a, b : /\ Alive(f, labels, a) /\ Alive(g, labels, b)
                          /\ Arc(f, l, f.alpha[s], a) /\ Arc(g, l, g.alpha[s], b)
                          /\ \A t \in State : f.alpha[t] = a /\ g.alpha[t] = b => h.alpha[t] = y
  BY <1>1, ProductParts
<1>3. \A s \in Reachable : s \in State
  BY ReachableFacts
<1>4. ASSUME NEW s \in Reachable, \A k \in B : G[k].alpha[s] \in G[k].goals
      PROVE  s \in GoalStates
  <2>1. f.alpha[s] \in f.goals /\ g.alpha[s] \in g.goals
    BY <1>1, <1>2, <1>3, <1>4
  <2>2. \A k \in A : F[k].alpha[s] \in F[k].goals
    BY <1>1, <1>4, <2>1
  <2> QED
    BY <2>2 DEF GoalsExact
<1>5. ASSUME NEW s \in Reachable, NEW l \in labels, NEW X, StepsTogether(B, G, labels, s, l, X)
      PROVE  \E o \in l : StepIsReal(B, G, s, o, X)
  <2>1. Alive(h, labels, X[n]) /\ Arc(h, l, h.alpha[s], X[n])
    BY <1>1, <1>5 DEF StepsTogether
  <2>2. PICK a, b : /\ Alive(f, labels, a) /\ Alive(g, labels, b)
                    /\ Arc(f, l, f.alpha[s], a) /\ Arc(g, l, g.alpha[s], b)
                    /\ \A t \in State : f.alpha[t] = a /\ g.alpha[t] = b => h.alpha[t] = X[n]
    BY <1>2, <1>3, <2>1
  <2>3. PICK Z : Z = [k \in A |-> IF k = i THEN a ELSE IF k = j THEN b ELSE X[k]]
    OBVIOUS
  <2>4. Z[i] = a /\ Z[j] = b /\ \A k \in A \ {i, j} : Z[k] = X[k]
    BY <2>3
  <2>5. ASSUME NEW k \in A PROVE Alive(F[k], labels, Z[k]) /\ Arc(F[k], l, F[k].alpha[s], Z[k])
    <3>1. CASE k = i \/ k = j
      BY <1>1, <2>2, <2>4, <3>1
    <3>2. CASE k \in A \ {i, j}
      <4>1. Alive(G[k], labels, X[k]) /\ Arc(G[k], l, G[k].alpha[s], X[k])
        BY <1>5, <3>2 DEF StepsTogether
      <4>2. G[k] = F[k] /\ Z[k] = X[k]
        BY <2>4, <3>2
      <4> QED
        BY <4>1, <4>2
    <3> QED
      BY <3>1, <3>2
  <2>6. StepsTogether(A, F, labels, s, l, Z)
    BY <2>5 DEF StepsTogether
  <2>7. PICK o \in l : StepIsReal(A, F, s, o, Z)
    BY <2>6 DEF StepsExact
  <2>8. PICK t : t = Result(s, o)
    OBVIOUS
  <2>9. t \in State
    BY <1>3, <2>8, ResultInState DEF LabelsOK, LabelSetOK
  <2>10. Applicable(s, o) /\ \A k \in A : F[k].alpha[t] = Z[k]
    BY <2>7, <2>8 DEF StepIsReal
  <2>11. h.alpha[t] = X[n]
    BY <1>1, <2>2, <2>4, <2>9, <2>10
  <2>12. ASSUME NEW k \in B PROVE G[k].alpha[t] = X[k]
    BY <1>1, <2>4, <2>10, <2>11
  <2>13. StepIsReal(B, G, s, o, X)
    BY <2>8, <2>10, <2>12 DEF StepIsReal
  <2> QED
    BY <2>13
<1> QED
  BY <1>4, <1>5 DEF GoalsExact, StepsExact

-----------------------------------------------------------------------------
(***************************************************************************)
(* Nothing is lost from one step to the next                               *)
(***************************************************************************)
\* No factor is left out unless the time was up, and then the construction
\* stops before the main loop.
LateOK ==
    /\ late \in BOOLEAN
    /\ phase \in {"data", "irrelevant", "create"} /\ ~late => valid = Cardinality(Var)
    /\ phase \notin {"data", "irrelevant", "create", "atomic", "crash", "done"} => ~late

AllExact(A, F, L) == GoalsExact(A, F) /\ StepsExact(A, F, L)

ExactOK == exact /\ Deterministic /\ ~late /\ active # {} => AllExact(active, fts, labels)

\* What has been extracted in the end.
DoneOK ==
    phase = "done" /\ exact /\ Deterministic =>
        ~IsSolvable(fts[final]) \/ (active = {final} /\ ~late)

PerfectInv == AdmissibleInv /\ LateOK /\ ExactOK /\ DoneOK

LEMMA InitPerfect ==
  ASSUME PrunedIsNoPair, Init
  PROVE  PerfectInv
<1>1. AdmissibleInv
  BY InitDistanceInv DEF AdmissibleInv, PruningIsSafe, Init
<1> QED
  BY <1>1 DEF PerfectInv, LateOK, ExactOK, DoneOK, Init

LEMMA LateKeeps ==
  ASSUME PerfectInv, [Next]_vars
  PROVE  LateOK'
<1>1. LateOK
  BY DEF PerfectInv
<1>2. CASE Build
  <2>1. late' \in {late, TRUE} /\ late \in BOOLEAN
    BY <1>1, <1>2 DEF LateOK, Build
  <2>2. late' \in BOOLEAN /\ (late => late')
    <3>1. CASE late' = late
      BY <2>1, <3>1
    <3>2. CASE late' = TRUE
      BY <3>2
    <3> QED
      BY <2>1, <3>1, <3>2
  <2>3. phase \in {"data", "irrelevant"} /\ phase' = phase
    BY <1>2 DEF Build
  <2>4. ~late' => valid' = valid
    BY <1>2 DEF Build
  <2> QED
    BY <1>1, <2>2, <2>3, <2>4 DEF LateOK
<1>3. CASE BuildDone \/ AtomicDone \/ ReductionDone \/ LoopEnds
  BY <1>1, <1>3 DEF LateOK, BuildDone, AtomicDone, ReductionDone, LoopEnds, creation
<1>4. CASE Create
  BY <1>1, <1>4 DEF LateOK, Create, creation
<1>5. CASE PruneAtomic \/ Prune
  BY <1>1, <1>5 DEF LateOK, PruneAtomic, Prune, creation
<1>6. CASE ReduceLabels
  BY <1>1, <1>6 DEF LateOK, ReduceLabels, creation
<1>7. CASE Shrink \/ Merge
  BY <1>1, <1>7 DEF LateOK, Shrink, Merge, creation
<1>8. CASE \E i, j \in active : GetNext(i, j)
  BY <1>1, <1>8 DEF LateOK, GetNext, creation
<1>9. CASE \E i \in active : OutOfTime(i)
  BY <1>1, <1>9 DEF LateOK, OutOfTime
<1>10. CASE Finished \/ UNCHANGED vars
  BY <1>1, <1>10 DEF LateOK, Finished, vars, creation
<1> QED
  BY <1>2, <1>3, <1>4, <1>5, <1>6, <1>7, <1>8, <1>9, <1>10 DEF Next, Step

LEMMA ExactAfter ==
  ASSUME AllExact(active', fts', labels') PROVE ExactOK'
BY DEF ExactOK, AllExact, GoalsExact, StepsExact, StepsTogether, StepIsReal, Alive, Arc,
       GoalDistances, ArcsOf, LabelCost

LEMMA ExactUnchanged ==
  ASSUME PerfectInv, UNCHANGED <<labels, fts, active>>, exact' => exact, late => late'
  PROVE  ExactOK'
<1>1. CASE AllExact(active, fts, labels)
  BY <1>1, ExactAfter
<1>2. CASE ~AllExact(active, fts, labels)
  <2>1. ~(exact /\ Deterministic /\ ~late /\ active # {})
    BY <1>2 DEF PerfectInv, ExactOK
  <2> QED
    BY <2>1 DEF ExactOK, Deterministic, Factored, OneEffectEach
<1> QED
  BY <1>1, <1>2

LEMMA CreateExact ==
  ASSUME PerfectInv, Create
  PROVE  ExactOK'
<1>1. CASE valid = 0
  BY <1>1, ExactUnchanged DEF Create, creation
<1>2. CASE valid # 0
  <2> SUFFICES ASSUME exact', Deterministic, ~late' PROVE ExactOK'
    BY DEF ExactOK, Deterministic, Factored, OneEffectEach
  <2>1. phase = "create" /\ ~late /\ labels' = InitialLabels
        /\ fts' = [v \in 1..valid |-> WithDistances(AtomicFactor(v), InitialLabels)]
        /\ active' = 1..valid
    BY <1>2 DEF Create, creation, PerfectInv, AdmissibleInv, DistanceInv, MSInv, CreationOK
  <2>2. valid = Cardinality(Var)
    BY <2>1 DEF PerfectInv, LateOK
  <2>3. 1..valid = Var
    BY <2>2, TaskAssumption
  <2>4. PICK F : F = fts'
    OBVIOUS
  <2>5. \A v \in Var : F[v] = WithDistances(AtomicFactor(v), InitialLabels)
    BY <2>1, <2>3, <2>4
  <2>6. GoalsExact(Var, F) /\ StepsExact(Var, F, InitialLabels)
    BY <2>5, AtomicExact
  <2>7. AllExact(active', fts', labels')
    BY <2>1, <2>3, <2>4, <2>6 DEF AllExact
  <2> QED
    BY <2>7, ExactAfter
<1> QED
  BY <1>1, <1>2

LEMMA ReduceExact ==
  ASSUME PerfectInv, ReduceLabels
  PROVE  ExactOK'
<1>1. UNCHANGED <<exact, late, active>>
  BY DEF ReduceLabels, creation
<1>2. DistanceInv /\ LabelsOK /\ SequenceOK
  BY DEF PerfectInv, AdmissibleInv, DistanceInv, MSInv
<1>3. CASE UNCHANGED <<labels, fts>>
  BY <1>1, <1>3, ExactUnchanged
<1>4. CASE Reduce(ReductionIndex)
  <2> SUFFICES ASSUME exact, Deterministic, ~late, active # {} PROVE ExactOK'
    BY <1>1 DEF ExactOK, Deterministic, Factored, OneEffectEach
  <2>1. PICK r : r = ReductionIndex
    OBVIOUS
  <2>2. labels' = NewLabels(r) /\ \A j \in active : fts'[j] = ReducedFactor(fts[j], r, j)
    BY <1>2, <1>4, <2>1, ReducedFactors
  <2>3. GoalsExact(active, fts) /\ StepsExact(active, fts, labels)
    BY DEF PerfectInv, ExactOK, AllExact
  <2>4. PICK G, K : G = fts' /\ K = labels'
    OBVIOUS
  <2>5. K = NewLabels(r) /\ \A j \in active : G[j] = ReducedFactor(fts[j], r, j)
    BY <2>2, <2>4
  <2>6. \A j \in active : /\ IsRecord(fts[j]) /\ FactorShape(fts[j], labels)
                          /\ G[j] = ReducedFactor(fts[j], r, j)
    BY <1>2, <2>5, ActiveFactor
  <2>7. GoalsExact(active, G) /\ StepsExact(active, G, K)
    BY <1>2, <2>3, <2>5, <2>6, ReductionExact
  <2>8. AllExact(active', fts', labels')
    BY <1>1, <2>4, <2>7 DEF AllExact
  <2> QED
    BY <2>8, ExactAfter
<1> QED
  BY <1>3, <1>4 DEF ReduceLabels

\* Factors that are replaced one by one.
LEMMA ReplacedExact ==
  ASSUME PerfectInv, UNCHANGED <<labels, active>>, exact' => exact, late' = late,
         exact' => \A i \in active : Lifts(fts[i], fts'[i], labels)
  PROVE  ExactOK'
<1> SUFFICES ASSUME exact', Deterministic, ~late, active # {} PROVE ExactOK'
  BY DEF ExactOK, Deterministic, Factored, OneEffectEach
<1>1. PICK G : G = fts'
  OBVIOUS
<1>2. LabelSetOK(labels) /\ GoalsExact(active, fts) /\ StepsExact(active, fts, labels)
  BY DEF PerfectInv, ExactOK, AllExact, AdmissibleInv, DistanceInv, MSInv, LabelsOK
<1>3. \A i \in active : Lifts(fts[i], G[i], labels)
  BY <1>1
<1>4. GoalsExact(active, G) /\ StepsExact(active, G, labels)
  BY <1>2, <1>3, FactorsReplaced
<1>5. AllExact(active', fts', labels')
  BY <1>1, <1>4 DEF AllExact
<1> QED
  BY <1>5, ExactAfter

LEMMA PruneExact ==
  ASSUME PerfectInv, PruneAtomic \/ Prune
  PROVE  ExactOK'
<1>1. DistanceInv /\ MSInv' /\ \A i \in active : PruningSafe(fts[i])
  <2>1. DistanceInv /\ MSInv /\ \A i \in active : PruningSafe(fts[i])
    BY DEF PerfectInv, AdmissibleInv, PruningIsSafe, DistanceInv
  <2> QED
    BY <2>1, NextKeeps DEF Next, Step
<1>2. UNCHANGED <<labels, active, exact, late>> /\ phase # "done"
  BY DEF PruneAtomic, Prune, creation
<1>3. PICK n \in active : \A i \in active :
         fts'[i] = IF i = n THEN PruneStep(fts[n]) ELSE fts[i]
  BY <1>1, PruneAtomicDistances
<1>4. PICK f : f = fts[n]
  OBVIOUS
<1>5. IsRecord(f) /\ Abstraction(f) /\ DistancesOK(f, labels) /\ f.init # Pruned
  <2>1. /\ IsRecord(f) /\ FactorShape(f, labels) /\ DistancesOK(f, labels)
        /\ f.init # Pruned /\ LabelsOK
    BY <1>1, <1>2, <1>4, ActiveFactor
  <2>2. FactorOK(f, labels) /\ LabelsCover
    BY <1>1, <1>4 DEF DistanceInv, MSInv, FactorsOK
  <2> QED
    BY <1>1, <1>4, <2>1, <2>2 DEF Abstraction
<1>6. Lifts(f, PruneStep(f), labels)
  BY <1>5, PruneStepLifts
<1>7. \A i \in active : Lifts(fts[i], fts'[i], labels)
  BY <1>3, <1>4, <1>6, LiftsItself
<1> QED
  BY <1>2, <1>7, ReplacedExact

LEMMA ShrinkExact ==
  ASSUME PerfectInv, Shrink
  PROVE  ExactOK'
<1>1. UNCHANGED <<labels, active, late>> /\ phase = "shrink" /\ (exact' => exact)
  BY DEF Shrink, creation
<1>2. DistanceInv /\ LabelsOK /\ SequenceOK /\ IndicesOK
  BY DEF PerfectInv, AdmissibleInv, DistanceInv, MSInv
<1> SUFFICES ASSUME exact' PROVE \A k \in active : Lifts(fts[k], fts'[k], labels)
  BY <1>1, ReplacedExact
<1>3. PICK i \in active, j \in active : \E P, Q : ShrinkStep(i, j, P, Q)
  BY <1>2, ShrunkFactors
<1>4. PICK P, Q : ShrinkStep(i, j, P, Q)
  BY <1>3
<1>5. ASSUME NEW k \in active, NEW B, \E t : B \in Shrunk(fts[k], t), IsBisimulation(fts[k], B)
      PROVE  Lifts(fts[k], Abstracted(fts[k], B), labels)
  <2>1. PICK t : B \in Shrunk(fts[k], t)
    BY <1>5
  <2>2. PICK f : f = fts[k]
    OBVIOUS
  <2>3. IsRecord(f) /\ FactorShape(f, labels) /\ LabelsOK /\ f.init # Pruned
    BY <1>1, <1>2, <2>2, ActiveFactor
  <2> QED
    BY <1>5, <2>1, <2>2, <2>3, ShrinkLifts
<1>6. ASSUME NEW k \in active PROVE Lifts(fts[k], fts'[k], labels)
  <2>1. k \in 1..Len(fts)
    BY <1>2, ActiveFactor
  <2>2. CASE k = i
    <3>1. /\ \E t : P \in Shrunk(fts[k], t)
          /\ IsBisimulation(fts[k], P) /\ fts'[k] = Abstracted(fts[k], P)
      BY <1>4, <2>1, <2>2 DEF ShrinkStep
    <3> QED
      BY <1>5, <3>1
  <2>3. CASE k = j /\ k # i
    <3>1. /\ \E t : Q \in Shrunk(fts[k], t)
          /\ IsBisimulation(fts[k], Q) /\ fts'[k] = Abstracted(fts[k], Q)
      BY <1>4, <2>1, <2>3 DEF ShrinkStep
    <3> QED
      BY <1>5, <3>1
  <2>4. CASE k # i /\ k # j
    <3>1. fts'[k] = fts[k]
      BY <1>4, <2>1, <2>4 DEF ShrinkStep
    <3> QED
      BY <3>1, LiftsItself
  <2> QED
    BY <2>2, <2>3, <2>4
<1> QED
  BY <1>6

LEMMA MergingExact ==
  ASSUME PerfectInv, Merge
  PROVE  ExactOK'
<1>1. UNCHANGED <<labels, exact, late>> /\ phase = "merge"
  BY DEF Merge, creation
<1>2. DistanceInv /\ LabelsOK /\ SequenceOK /\ IndicesOK /\ PrunedIsNoPair
  BY DEF PerfectInv, AdmissibleInv, DistanceInv, MSInv
<1>3. PICK i \in active, j \in active : MergeStep(i, j)
  BY <1>2, MergedFactors
<1> SUFFICES ASSUME exact, Deterministic, ~late PROVE ExactOK'
  BY <1>1 DEF ExactOK, Deterministic, Factored, OneEffectEach
<1>4. PICK A, F, B, G, n : A = active /\ F = fts /\ B = active' /\ G = fts' /\ n = Len(fts) + 1
  OBVIOUS
<1>5. GoalsExact(A, F) /\ StepsExact(A, F, labels)
  BY <1>3, <1>4 DEF PerfectInv, ExactOK, AllExact
<1>6. /\ i # j /\ B = (A \ {i, j}) \cup {n}
      /\ G[n] = Product(F[i], F[j]) /\ \A k \in A \ {i, j} : G[k] = F[k]
  BY <1>3, <1>4 DEF MergeStep
<1>7. n \notin A
  BY <1>2, <1>3, <1>4 DEF SequenceOK, MergeStep
<1>8. \A k \in A : FactorShape(F[k], labels) /\ F[k].init # Pruned
  BY <1>1, <1>2, <1>4, ActiveFactor
<1>9. GoalsExact(B, G) /\ StepsExact(B, G, labels)
  BY <1>2, <1>3, <1>4, <1>5, <1>6, <1>7, <1>8, MergeExact
<1>10. AllExact(active', fts', labels')
  BY <1>1, <1>4, <1>9 DEF AllExact
<1> QED
  BY <1>10, ExactAfter

LEMMA DoneKeeps ==
  ASSUME PerfectInv, [Next]_vars
  PROVE  DoneOK'
<1> SUFFICES ASSUME phase' = "done", exact', Deterministic
             PROVE  (~IsSolvable(fts[final]) \/ (active = {final} /\ ~late))'
  BY DEF DoneOK, Deterministic, Factored, OneEffectEach
<1>1. SequenceOK /\ LastIsActive /\ LateOK
  BY DEF PerfectInv, AdmissibleInv, DistanceInv, MSInv
<1>2. CASE PruneAtomic \/ Prune
  <2>1. PICK n : /\ fts' = [fts EXCEPT ![n] = PruneStep(fts[n])]
                 /\ ~IsSolvable(PruneStep(fts[n])) /\ final' = n /\ n \in 1..Len(fts)
    <3>1. CASE PruneAtomic
      <4>1. position \in 1..Len(fts)
        BY <1>1, <3>1 DEF PruneAtomic, LastIsActive
      <4> QED
        BY <3>1, <4>1 DEF PruneAtomic
    <3>2. CASE Prune
      <4>1. Len(fts) \in 1..Len(fts)
        BY <1>1, <3>2 DEF Prune, LastIsActive, SequenceOK
      <4> QED
        BY <3>2, <4>1 DEF Prune
    <3> QED
      BY <1>2, <3>1, <3>2
  <2>2. fts'[n] = PruneStep(fts[n])
    BY <1>1, <2>1, PrunedFactors
  <2>3. PICK g : g = PruneStep(fts[n])
    OBVIOUS
  <2>4. config' = config /\ ~IsSolvable(g) /\ fts'[final'] = g
    BY <1>2, <2>1, <2>2, <2>3 DEF PruneAtomic, Prune
  <2> QED
    BY <2>4 DEF IsSolvable, NeedGoalDistances
<1>3. CASE LoopEnds
  <2>1. /\ phase = "next" /\ Cardinality(active) = 1 /\ final' = Len(fts)
        /\ UNCHANGED <<active, late>>
    BY <1>3 DEF LoopEnds, creation
  <2>2. ~late
    BY <1>1, <2>1 DEF LateOK
  <2>3. Len(fts) \in active /\ active \subseteq 1..Len(fts)
    BY <1>1, <2>1 DEF LastIsActive, SequenceOK
  <2>4. IsFiniteSet(active)
    <3>1. Len(fts) \in Nat
      BY <1>1, SequenceDomain DEF SequenceOK
    <3>2. IsFiniteSet(1..Len(fts))
      BY <3>1, FS_Interval
    <3> QED
      BY <2>3, <3>2, FS_Subset
  <2>5. \E x : active = {x}
    BY <2>1, <2>4, FS_Singleton
  <2>6. active = {Len(fts)}
    BY <2>3, <2>5
  <2> QED
    BY <2>1, <2>2, <2>6
<1>4. CASE Finished \/ UNCHANGED vars
  <2>1. UNCHANGED <<config, phase, fts, final, active, late, exact>>
    BY <1>4 DEF Finished, vars, creation
  <2>2. ~IsSolvable(fts[final]) \/ (active = {final} /\ ~late)
    BY <2>1 DEF PerfectInv, DoneOK
  <2> QED
    BY <2>1, <2>2 DEF IsSolvable, NeedGoalDistances
<1>5. CASE \/ Build \/ BuildDone \/ Create \/ AtomicDone \/ ReductionDone \/ Shrink \/ Merge
           \/ \E i, j \in active : GetNext(i, j)
           \/ \E i \in active : OutOfTime(i)
  BY <1>5 DEF Build, BuildDone, Create, AtomicDone, ReductionDone, Shrink, Merge, GetNext, OutOfTime
<1>6. CASE ReduceLabels
  BY <1>6, ConfigurationsAssumption DEF ReduceLabels, ReducesNow, PerfectInv, AdmissibleInv,
     DistanceInv, MSInv
<1> QED
  BY <1>2, <1>3, <1>4, <1>5, <1>6 DEF Next, Step

LEMMA NextPerfect ==
  ASSUME PerfectInv, [Next]_vars
  PROVE  PerfectInv'
<1>1. AdmissibleInv'
  BY NextPruning DEF PerfectInv
<1> SUFFICES ExactOK'
  BY <1>1, LateKeeps, DoneKeeps DEF PerfectInv
<1>2. CASE Build
  <2>1. UNCHANGED <<labels, fts, active>> /\ (exact' => exact)
    BY <1>2 DEF Build
  <2>2. late' \in {late, TRUE}
    BY <1>2 DEF Build
  <2>3. late => late'
    BY <2>2
  <2> QED
    BY <2>1, <2>3, ExactUnchanged
<1>3. CASE \/ BuildDone \/ AtomicDone \/ ReductionDone \/ LoopEnds
           \/ \E i, j \in active : GetNext(i, j)
  <2>1. UNCHANGED <<labels, fts, active, exact, late>>
    BY <1>3 DEF BuildDone, AtomicDone, ReductionDone, LoopEnds, creation, GetNext
  <2> QED
    BY <2>1, ExactUnchanged
<1>4. CASE \E i \in active : OutOfTime(i)
  <2>1. exact' = FALSE
    BY <1>4 DEF OutOfTime
  <2> QED
    BY <2>1 DEF ExactOK
<1>5. CASE Finished \/ UNCHANGED vars
  <2>1. UNCHANGED <<labels, fts, active, exact, late>>
    BY <1>5 DEF Finished, vars
  <2> QED
    BY <2>1, ExactUnchanged
<1> QED
  BY <1>2, <1>3, <1>4, <1>5, CreateExact, PruneExact, ReduceExact, ShrinkExact, MergingExact
     DEF Next, Step

-----------------------------------------------------------------------------
(***************************************************************************)
(* One exact factor has the distances of the task                          *)
(***************************************************************************)
\* What holds in the initial state and is kept by operators holds in all the
\* search can meet.
LEMMA ReachableInduct ==
  ASSUME NEW P, InitialState \in P,
         \A s \in Reachable, o \in Op : s \in P /\ Applicable(s, o) => Result(s, o) \in P
  PROVE  Reachable \subseteq P
<1>1. PICK e : e = [s \in State |-> IF s \in Reachable \cap P THEN 0 ELSE Infty]
  OBVIOUS
<1>2. e \in [State -> Distances]
  BY <1>1 DEF Distances
<1>3. PICK T : T = {InitialState}
  OBVIOUS
<1>4. \A t \in T : e[t] = 0
  BY <1>1, <1>3, ReachableFacts, TaskAssumption
<1>5. ASSUME NEW s \in State, NEW t \in State, NEW c \in Nat, <<s, t, c>> \in Turned(RealArcs)
      PROVE  AtMost(e[s], Plus(c, e[t]))
  <2>1. <<t, s, c>> \in RealArcs
    BY <1>5, RealGraph, TurnedFacts DEF IsGraph
  <2>2. PICK o \in Op : Applicable(t, o) /\ s = Result(t, o)
    BY <2>1, RealGraph
  <2>3. CASE t \in Reachable \cap P
    <3>1. s \in Reachable \cap P
      BY <2>2, <2>3, ReachableFacts
    <3>2. e[s] = 0 /\ e[t] \in Distances
      BY <1>1, <1>2, <3>1
    <3> QED
      BY <3>2, ZeroAtMost
  <2>4. CASE t \notin Reachable \cap P
    <3>1. e[t] = Infty
      BY <1>1, <2>4
    <3> QED
      BY <3>1 DEF AtMost, Plus
  <2> QED
    BY <2>3, <2>4
<1>6. PICK real : real = RealInitDistance
  OBVIOUS
<1>7. \A s \in State : AtMost(e[s], real[s])
  <2>1. IsGraph(State, Turned(RealArcs), T) /\ real = ShortestPaths(State, Turned(RealArcs), T)
    BY <1>3, <1>6, RealGraph DEF RealInitDistance
  <2> QED
    BY <1>2, <1>4, <1>5, <2>1, LowerBound
<1>8. ASSUME NEW s \in Reachable PROVE s \in P
  <2>1. s \in State /\ real[s] # Infty
    BY <1>6, ReachableFacts
  <2>2. e[s] # Infty
    BY <1>7, <2>1 DEF AtMost
  <2> QED
    BY <1>1, <2>1, <2>2
<1> QED
  BY <1>8

HopelessState(f, s) == f.alpha[s] = Pruned \/ GoalDistances(f, labels)[f.alpha[s]] = Infty

\* If a factor is unsolvable so is the task.
LEMMA UnsolvableFactor ==
  ASSUME NEW f, Abstraction(f), DistancesOK(f, labels), ~IsSolvable(f)
  PROVE  \A s \in Reachable : HopelessState(f, s)
<1>1. /\ FactorOK(f, labels) /\ FactorShape(f, labels) /\ LabelsOK /\ LabelsCover
      /\ PruningSafe(f) /\ LabelSetOK(labels)
  BY DEF Abstraction, LabelsOK
<1>2. PICK d : d = GoalDistances(f, labels)
  OBVIOUS
<1>3. d \in [f.states -> Distances]
  BY <1>1, <1>2, AliveFacts
<1>4. HopelessState(f, InitialState)
  <2>1. f.init = f.alpha[InitialState]
    BY <1>1 DEF FactorShape
  <2> QED
    BY <2>1 DEF IsSolvable, DistancesOK, HopelessState
<1>5. ASSUME NEW s \in Reachable, NEW o \in Op, HopelessState(f, s), Applicable(s, o)
      PROVE  HopelessState(f, Result(s, o))
  <2>1. s \in State
    BY ReachableFacts
  <2>2. PICK x, y : x = f.alpha[s] /\ y = f.alpha[Result(s, o)]
    OBVIOUS
  <2>3. CASE x = Pruned \/ y = Pruned
    <3>1. y = Pruned
      BY <1>1, <1>5, <2>2, <2>3 DEF PruningSafe
    <3> QED
      BY <2>2, <3>1 DEF HopelessState
  <2>4. CASE x # Pruned /\ y # Pruned
    <3>1. <<x, y, Cost[o]>> \in ArcsOf(f, labels)
      BY <1>1, <1>5, <2>1, <2>2, <2>4, AbstractStep
    <3>2. x \in f.states /\ y \in f.states /\ Cost[o] \in Nat /\ AtMost(d[x], Plus(Cost[o], d[y]))
      BY <1>1, <1>2, <3>1, FactorArc
    <3>3. d[x] = Infty
      BY <1>2, <1>5, <2>2, <2>4 DEF HopelessState
    <3>4. d[y] = Infty
      BY <1>3, <3>2, <3>3, InftyAssumption DEF AtMost, Plus, Distances
    <3> QED
      BY <1>2, <2>2, <3>4 DEF HopelessState
  <2> QED
    BY <2>3, <2>4
<1>6. PICK P : P = {s \in Reachable : HopelessState(f, s)}
  OBVIOUS
<1>7. Reachable \subseteq P
  BY <1>4, <1>5, <1>6, ReachableFacts, ReachableInduct
<1> QED
  BY <1>6, <1>7

\* n bounds the distances of the states that x stands for.
Bounds(f, x, n) == \A s \in Reachable : f.alpha[s] = x => AtMost(RealDistance[s], n)

BoundsOf(f, x) == {n \in Nat : Bounds(f, x, n)}

\* The least of these bounds.
BestBound(f, x) ==
    IF BoundsOf(f, x) = {} THEN Infty
    ELSE CHOOSE n \in BoundsOf(f, x) : \A m \in BoundsOf(f, x) : n <= m

LEMMA BestBoundFacts ==
  ASSUME NEW f, NEW x
  PROVE  /\ BestBound(f, x) \in Distances
         /\ BestBound(f, x) # Infty => Bounds(f, x, BestBound(f, x))
         /\ \A n \in Nat : Bounds(f, x, n) =>
               BestBound(f, x) \in Nat /\ BestBound(f, x) <= n
<1>1. PICK S : S = BoundsOf(f, x)
  OBVIOUS
<1>2. S \in SUBSET Nat
  BY <1>1 DEF BoundsOf
<1>3. CASE S = {}
  BY <1>1, <1>3 DEF BestBound, BoundsOf, Distances
<1>4. CASE S # {}
  <2>1. \E n \in S : \A m \in S : n <= m
    BY <1>2, <1>4, LeastNumber
  <2>2. BestBound(f, x) = CHOOSE n \in S : \A m \in S : n <= m
    BY <1>1, <1>4 DEF BestBound
  <2>3. BestBound(f, x) \in S /\ \A m \in S : BestBound(f, x) <= m
    BY <2>1, <2>2
  <2> QED
    BY <1>1, <1>2, <2>3 DEF BoundsOf, Distances
<1> QED
  BY <1>3, <1>4

\* Bounds grow with the cost of a transition.
LEMMA BoundBefore ==
  ASSUME NEW f, NEW i, NEW F, F[i] = f, LabelsOK, StepsExact({i}, F, labels),
         NEW l \in labels, NEW x, NEW y, Arc(f, l, x, y), Alive(f, labels, y),
         NEW n \in Nat, Bounds(f, y, n)
  PROVE  LabelCost(l) \in Nat /\ Bounds(f, x, LabelCost(l) + n)
<1>1. LabelCost(l) \in Nat
  <2>1. PICK o \in l : o \in Op
    BY DEF LabelsOK, LabelSetOK
  <2> QED
    BY <2>1, CostOfLabel, TaskAssumption
<1>2. ASSUME NEW s \in Reachable, f.alpha[s] = x
      PROVE  AtMost(RealDistance[s], LabelCost(l) + n)
  <2>1. PICK X : X = [j \in {i} |-> y]
    OBVIOUS
  <2>2. StepsTogether({i}, F, labels, s, l, X)
    BY <1>2, <2>1 DEF StepsTogether
  <2>3. PICK o \in l : StepIsReal({i}, F, s, o, X)
    BY <2>2 DEF StepsExact
  <2>4. PICK t : t = Result(s, o)
    OBVIOUS
  <2>5. Applicable(s, o) /\ f.alpha[t] = y
    BY <2>1, <2>3, <2>4 DEF StepIsReal
  <2>6. o \in Op /\ Cost[o] = LabelCost(l)
    BY CostOfLabel DEF LabelsOK, LabelSetOK
  <2>7. s \in State /\ t \in Reachable /\ t \in State
    BY <2>4, <2>5, <2>6, ReachableFacts
  <2>8. AtMost(RealDistance[t], n)
    BY <2>5, <2>7 DEF Bounds
  <2>9. AtMost(RealDistance[s], Plus(Cost[o], RealDistance[t]))
    BY <2>4, <2>5, <2>6, <2>7, RealDistanceFacts
  <2>10. RealDistance[s] \in Distances /\ RealDistance[t] \in Distances
    BY <2>7, RealDistanceFacts
  <2>11. PICK a, b, c : a = RealDistance[s] /\ b = RealDistance[t] /\ c = LabelCost(l)
    OBVIOUS
  <2>12. /\ a \in Distances /\ b \in Distances /\ c \in Nat
         /\ AtMost(b, n) /\ AtMost(a, Plus(c, b))
    BY <1>1, <2>6, <2>8, <2>9, <2>10, <2>11
  <2>13. AtMost(a, c + n)
    BY <2>12, InftyAssumption DEF AtMost, Plus, Distances
  <2> QED
    BY <2>11, <2>13
<1> QED
  BY <1>1, <1>2 DEF Bounds

LEMMA ExactDistance ==
  ASSUME NEW f, NEW i, NEW F, F[i] = f, Abstraction(f),
         GoalsExact({i}, F), StepsExact({i}, F, labels),
         NEW s \in Reachable, f.alpha[s] # Pruned
  PROVE  AtMost(RealDistance[s], GoalDistances(f, labels)[f.alpha[s]])
<1>1. FactorShape(f, labels) /\ LabelsOK /\ LabelSetOK(labels)
  BY DEF Abstraction, LabelsOK
<1>2. PICK d : d = GoalDistances(f, labels)
  OBVIOUS
<1>3. PICK e : e = [x \in f.states |-> IF Alive(f, labels, x) THEN BestBound(f, x) ELSE Infty]
  OBVIOUS
<1>4. e \in [f.states -> Distances]
  BY <1>3, BestBoundFacts DEF Distances
<1>5. IsGraph(f.states, ArcsOf(f, labels), f.goals)
  BY <1>1, FactorGraph
<1>6. ASSUME NEW x \in f.goals PROVE e[x] = 0
  <2>1. Alive(f, labels, x) /\ x \in f.states
    BY <1>1, AliveFacts DEF Alive
  <2>2. ASSUME NEW t \in Reachable, f.alpha[t] = x PROVE AtMost(RealDistance[t], 0)
    <3>1. t \in GoalStates
      BY <2>2 DEF GoalsExact
    <3>2. RealDistance[t] = 0
      BY <3>1, RealDistanceFacts
    <3> QED
      BY <3>2, InftyAssumption DEF AtMost
  <2>3. Bounds(f, x, 0)
    BY <2>2 DEF Bounds
  <2>4. BestBound(f, x) \in Nat /\ BestBound(f, x) <= 0
    BY <2>3, BestBoundFacts
  <2> QED
    BY <1>3, <2>1, <2>4
<1>7. ASSUME NEW x \in f.states, NEW y \in f.states, NEW c \in Nat, <<x, y, c>> \in ArcsOf(f, labels)
      PROVE  AtMost(e[x], Plus(c, e[y]))
  <2>1. PICK l \in labels : Arc(f, l, x, y) /\ c = LabelCost(l)
    BY <1>1, <1>7, FactorArcs DEF Arc
  <2>2. CASE e[y] = Infty
    BY <2>2 DEF AtMost, Plus
  <2>3. CASE e[y] # Infty
    <3>1. Alive(f, labels, y) /\ e[y] = BestBound(f, y)
      BY <1>3, <2>3
    <3>2. Alive(f, labels, x)
      BY <1>1, <2>1, <3>1, AliveFacts
    <3>3. e[x] = BestBound(f, x)
      BY <1>3, <3>2
    <3>4. PICK n : n = BestBound(f, y)
      OBVIOUS
    <3>5. n \in Nat /\ Bounds(f, y, n)
      BY <2>3, <3>1, <3>4, BestBoundFacts DEF Distances
    <3>6. Bounds(f, x, c + n)
      BY <1>1, <2>1, <3>1, <3>5, BoundBefore
    <3>7. e[x] \in Nat /\ e[x] <= c + n
      BY <3>3, <3>5, <3>6, BestBoundFacts
    <3> QED
      BY <3>1, <3>4, <3>5, <3>7, InftyAssumption DEF AtMost, Plus
  <2> QED
    BY <2>2, <2>3
<1>8. PICK x : x = f.alpha[s]
  OBVIOUS
<1>9. x \in f.states
  BY <1>1, <1>8, ReachableFacts DEF FactorShape
<1>10. AtMost(e[x], d[x])
  <2>1. d = ShortestPaths(f.states, ArcsOf(f, labels), f.goals)
    BY <1>2 DEF GoalDistances
  <2> QED
    BY <1>4, <1>5, <1>6, <1>7, <1>9, <2>1, LowerBound
<1>11. CASE d[x] = Infty
  BY <1>2, <1>8, <1>11 DEF AtMost
<1>12. CASE d[x] # Infty
  <2>1. e[x] # Infty /\ e[x] = BestBound(f, x)
    BY <1>2, <1>3, <1>9, <1>10, <1>12 DEF AtMost, Alive
  <2>2. AtMost(RealDistance[s], e[x])
    BY <1>8, <2>1, BestBoundFacts DEF Bounds
  <2>3. /\ RealDistance[s] \in Distances /\ e[x] \in Distances /\ d[x] \in Distances
    BY <1>1, <1>2, <1>4, <1>9, ReachableFacts, RealDistanceFacts, AliveFacts
  <2>4. AtMost(RealDistance[s], d[x])
    BY <1>10, <2>2, <2>3, InftyAssumption DEF AtMost, Distances
  <2> QED
    BY <1>2, <1>8, <2>4
<1> QED
  BY <1>11, <1>12

LEMMA PerfectWhenDone ==
  ASSUME PerfectInv, phase = "done", exact, Deterministic, NEW s \in Reachable
  PROVE  HeuristicValue(s) = RealDistance[s]
<1>1. PICK f : f = fts[final]
  OBVIOUS
<1>2. AdmissibleInv /\ DistanceInv /\ final \in active
  BY DEF PerfectInv, AdmissibleInv, DistanceInv, LastIsActive
<1>3. Abstraction(f) /\ DistancesOK(f, labels) /\ FactorShape(f, labels) /\ LabelSetOK(labels)
  <2>1. FactorShape(f, labels) /\ DistancesOK(f, labels) /\ LabelsOK
    BY <1>1, <1>2, ActiveFactor
  <2>2. FactorOK(f, labels) /\ LabelsCover /\ PruningSafe(f)
    BY <1>1, <1>2 DEF AdmissibleInv, DistanceInv, MSInv, FactorsOK, PruningIsSafe
  <2> QED
    BY <2>1, <2>2 DEF Abstraction, LabelsOK
<1>4. PICK d : d = GoalDistances(f, labels)
  OBVIOUS
<1>5. HeuristicValue(s) = IF f.alpha[s] = Pruned THEN Infty ELSE d[f.alpha[s]]
  BY <1>1, <1>3, <1>4 DEF HeuristicValue, DistancesOK
<1>6. AtMost(HeuristicValue(s), RealDistance[s])
  BY <1>2, AdmissibleWhenDone
<1>7. RealDistance[s] \in Distances
  BY ReachableFacts, RealDistanceFacts
<1>8. CASE HeuristicValue(s) = Infty
  BY <1>6, <1>8 DEF AtMost
<1>9. CASE HeuristicValue(s) # Infty
  <2>1. f.alpha[s] # Pruned /\ HeuristicValue(s) = d[f.alpha[s]]
    BY <1>5, <1>9
  <2>2. IsSolvable(f)
    <3>1. ~HopelessState(f, s)
      BY <1>4, <1>9, <2>1 DEF HopelessState
    <3> QED
      BY <1>3, <3>1, UnsolvableFactor
  <2>3. active = {final} /\ ~late
    BY <1>1, <2>2 DEF PerfectInv, DoneOK
  <2>4. PICK F : F = fts
    OBVIOUS
  <2>5. GoalsExact({final}, F) /\ StepsExact({final}, F, labels)
    BY <2>3, <2>4 DEF PerfectInv, ExactOK, AllExact
  <2>6. F[final] = f
    BY <1>1, <2>4
  <2>7. AtMost(RealDistance[s], d[f.alpha[s]])
    BY <1>3, <1>4, <2>1, <2>5, <2>6, ExactDistance
  <2>8. f.alpha[s] \in f.states /\ d[f.alpha[s]] \in Distances
    <3>1. f.alpha[s] \in f.states
      BY <1>3, <2>1, ReachableFacts DEF FactorShape
    <3> QED
      BY <1>3, <1>4, <3>1, AliveFacts
  <2> QED
    BY <1>6, <1>7, <2>1, <2>7, <2>8, AtMostBothWays
<1> QED
  BY <1>8, <1>9

\* The factors together lose nothing while only exact bisimulations are used:
\* they step together where an operator of the task does.
THEOREM PerfectInvariant == PrunedIsNoPair /\ Spec => []PerfectInv
<1>1. PrunedIsNoPair /\ Init => PerfectInv
  BY InitPerfect
<1>2. PerfectInv /\ [Next]_vars => PerfectInv'
  BY NextPerfect
<1> QED
  BY <1>1, <1>2, PTL DEF Spec

\* With exact bisimulations only, deterministic atomic factors, and not cut off
\* by the time limit, the heuristic is the distance to the goal, whatever the merge
\* strategy, label reduction and pruning (merge_and_shrink_heuristic.cc, build).
THEOREM AlwaysPerfect == PrunedIsNoPair /\ Spec => []HeuristicIsPerfect
<1>1. PerfectInv => HeuristicIsPerfect
  <2> SUFFICES ASSUME PerfectInv, phase = "done", exact, Deterministic
               PROVE  \A s \in Reachable : HeuristicValue(s) = RealDistance[s]
    BY DEF HeuristicIsPerfect
  <2> QED
    BY PerfectWhenDone
<1> QED
  BY <1>1, PerfectInvariant, PTL

-----------------------------------------------------------------------------
(***************************************************************************)
(* Stubborn sets: operators that do not interfere commute                  *)
(***************************************************************************)
\* Operators between which only the applicability of one after the other and
\* the values they set are in question.
Independent(o, p) == ~CanConflict(o, p) /\ ~CanDisable(o, p) /\ ~CanDisable(p, o)

\* Two facts on a variable that differ, wherever the lists have them.
Contradict(E, F) == \E e \in E, f \in F : e.fact[1] = f.fact[1] /\ e.fact[2] # f.fact[2]

\* The operators are never applicable together.
NeverTogether(o, p) == Contradict(Listed(Pre[o]), Listed(Pre[p]))

\* An operator that sets a variable to another value than a second one sets or
\* needs interferes with it, or the two are never applicable together.  (The
\* walk through the lists may miss a conflict if an operator has several
\* effects on a variable.)
ConflictsAreFound ==
    \A o, p \in Op :
        /\ o # p
        /\ Contradict(Effects[o], Effects[p]) \/ Contradict(Effects[o], Listed(Pre[p]))
        => ~Independent(o, p) \/ NeverTogether(o, p)

\* So does an operator that writes a variable an effect of another one depends
\* on.  (The code does not look at conditions of effects when it computes
\* interference.)
ConditionsAreSeparate ==
    \A o, p \in Op :
        o # p /\ (\E f \in EffectFacts(p), c \in EffectConditions(o) : f[1] = c[1]) =>
            ~Independent(o, p) \/ NeverTogether(o, p)

InterferenceIsFound == ConflictsAreFound /\ ConditionsAreSeparate

LEMMA ConflictingBothWays ==
  ASSUME NEW E, NEW F, Conflicting(E, F)
  PROVE  Conflicting(F, E)
<1>1. PICK e \in E, f \in F : /\ f.fact[1] = e.fact[1] /\ f.fact[2] # e.fact[2]
                              /\ Places(E, e) \cap Places(F, f) # {}
  BY DEF Conflicting, ConflictingVars
<1>2. Places(F, f) \cap Places(E, e) # {}
  BY <1>1
<1> HIDE DEF Places
<1>3. f.fact[1] \in ConflictingVars(F, E)
  BY <1>1, <1>2 DEF ConflictingVars
<1> QED
  BY <1>3 DEF Conflicting

LEMMA IndependentBothWays ==
  ASSUME NEW o, NEW p, Independent(o, p)
  PROVE  Independent(p, o)
BY ConflictingBothWays DEF Independent, CanConflict

LEMMA TogetherBothWays ==
  ASSUME NEW o, NEW p, NEW s, Applicable(s, o), Applicable(s, p)
  PROVE  ~NeverTogether(o, p) /\ ~NeverTogether(p, o)
BY DEF NeverTogether, Contradict, Listed, Applicable, Holds

\* With one entry for a variable, its place is the first.
LEMMA OnlyPlace ==
  ASSUME NEW E \in SUBSET [fact : Facts, cond : SUBSET Facts], NEW e \in E,
         \A d \in E : d.fact[1] = e.fact[1] => d = e
  PROVE  1 \in Places(E, e)
<1>1. e.fact[1] \in Var /\ e.fact[2] \in Domain[e.fact[1]]
  BY DEF Facts
<1>2. e.fact[2] \in Nat
  BY <1>1, NumbersAssumption
<1> DEFINE same == {d \in E : d.fact[1] = e.fact[1]}
<1>3. same = {e}
  OBVIOUS
<1>4. {d \in same : d.fact[2] < e.fact[2]} = {}
  BY <1>2, <1>3
<1>5. {d \in same : d.fact[2] <= e.fact[2]} = {e}
  BY <1>2, <1>3
<1> HIDE DEF same
<1>6. /\ Cardinality({d \in same : d.fact[2] < e.fact[2]}) = 0
      /\ Cardinality({d \in same : d.fact[2] <= e.fact[2]}) = 1
  BY <1>4, <1>5, FS_EmptySet, FS_Singleton
<1> QED
  BY <1>6 DEF Places, same

\* The interference relations miss nothing if no operator has two effects on a
\* variable: then the walk through two sorted lists compares all facts that may
\* contradict each other (contain_conflicting_fact, "Relies on both fact sets
\* being sorted by variable").
THEOREM OneEffectIsCompared == OneEffectEach => ConflictsAreFound
<1> SUFFICES ASSUME OneEffectEach, NEW o \in Op, NEW p \in Op, Independent(o, p)
             PROVE  ~Contradict(Effects[o], Effects[p]) /\ ~Contradict(Effects[o], Listed(Pre[p]))
  BY DEF ConflictsAreFound
<1>1. /\ Effects[o] \in SUBSET [fact : Facts, cond : SUBSET Facts]
      /\ Effects[p] \in SUBSET [fact : Facts, cond : SUBSET Facts]
      /\ Pre[p] \in SUBSET Facts
  BY TaskAssumption
<1>2. Listed(Pre[p]) \in SUBSET [fact : Facts, cond : SUBSET Facts]
  BY <1>1 DEF Listed
<1>3. /\ \A e, d \in Effects[o] : d.fact[1] = e.fact[1] => d = e
      /\ \A e, d \in Effects[p] : d.fact[1] = e.fact[1] => d = e
  BY DEF OneEffectEach
<1>4. ASSUME NEW e \in Listed(Pre[p]), NEW d \in Listed(Pre[p]), d.fact[1] = e.fact[1]
      PROVE  d = e
  <2>1. PICK f \in Pre[p], g \in Pre[p] : /\ e = [fact |-> f, cond |-> {}]
                                         /\ d = [fact |-> g, cond |-> {}]
    BY DEF Listed
  <2>2. f[1] = g[1]
    BY <1>4, <2>1
  <2>3. f = g
    BY <2>2, ConsistentFactsAssumption
  <2> QED
    BY <2>1, <2>3
<1>5. ASSUME NEW E \in SUBSET [fact : Facts, cond : SUBSET Facts],
             NEW F \in SUBSET [fact : Facts, cond : SUBSET Facts],
             \A e, d \in E : d.fact[1] = e.fact[1] => d = e,
             \A e, d \in F : d.fact[1] = e.fact[1] => d = e,
             Contradict(E, F)
      PROVE  Conflicting(E, F)
  <2>1. PICK e \in E, f \in F : e.fact[1] = f.fact[1] /\ e.fact[2] # f.fact[2]
    BY <1>5 DEF Contradict
  <2>2. 1 \in Places(E, e) /\ 1 \in Places(F, f)
    BY <1>5, <2>1, OnlyPlace
  <2>3. e.fact[1] \in ConflictingVars(E, F)
    BY <2>1, <2>2 DEF ConflictingVars
  <2> QED
    BY <2>3 DEF Conflicting
<1>6. ~Conflicting(Effects[o], Effects[p]) /\ ~Conflicting(Effects[o], Listed(Pre[p]))
  BY DEF Independent, CanConflict, CanDisable
<1> QED
  BY <1>1, <1>2, <1>3, <1>4, <1>5, <1>6

\* What an operator does to a variable depends only on which effects fire.
LEMMA ResultValue ==
  ASSUME NEW s, NEW o \in Op, NEW v \in Var
  PROVE  /\ Fired(s, o, v) = {} => Result(s, o)[v] = s[v]
         /\ Fired(s, o, v) # {} =>
               /\ \E e \in Fired(s, o, v) : Result(s, o)[v] = e.fact[2]
               /\ \A t : Fired(t, o, v) = Fired(s, o, v) => Result(t, o)[v] = Result(s, o)[v]
<1>1. CASE Fired(s, o, v) = {}
  BY <1>1 DEF Result
<1>2. CASE Fired(s, o, v) # {}
  <2>1. PICK e : e = CHOOSE d \in Fired(s, o, v) : TRUE
    OBVIOUS
  <2>2. e \in Fired(s, o, v)
    BY <1>2, <2>1
  <2>3. \A t : Fired(t, o, v) = Fired(s, o, v) => Result(t, o)[v] = e.fact[2]
    BY <1>2, <2>1 DEF Result
  <2> QED
    BY <1>2, <2>2, <2>3
<1> QED
  BY <1>1, <1>2

\* A value changes only to that of an effect.
LEMMA ValueSet ==
  ASSUME NEW s, NEW o \in Op, NEW v \in Var
  PROVE  Result(s, o)[v] = s[v] \/ <<v, Result(s, o)[v]>> \in EffectFacts(o)
<1>1. CASE Fired(s, o, v) = {}
  BY <1>1, ResultValue
<1>2. CASE Fired(s, o, v) # {}
  <2>1. PICK e \in Fired(s, o, v) : Result(s, o)[v] = e.fact[2]
    BY <1>2, ResultValue
  <2>2. e.fact \in EffectFacts(o)
    BY DEF EffectFacts, Fired
  <2>3. e.fact[1] = v /\ e \in Effects[o]
    BY DEF Fired
  <2>4. e.fact \in Facts
    BY <2>3, TaskAssumption
  <2>5. e.fact = <<v, e.fact[2]>>
    BY <2>3, <2>4 DEF Facts
  <2> QED
    BY <2>1, <2>2, <2>5
<1> QED
  BY <1>1, <1>2

\* A condition and its facts.
LEMMA FactIsPair ==
  ASSUME NEW f \in Facts
  PROVE  f = <<f[1], f[2]>> /\ f[1] \in Var /\ f[2] \in Domain[f[1]]
BY DEF Facts

LEMMA NotDisabled ==
  ASSUME ConflictsAreFound, NEW s, NEW o \in Op, NEW p \in Op, o # p,
         Applicable(s, o), Applicable(s, p), Independent(o, p)
  PROVE  Applicable(Result(s, p), o)
<1> SUFFICES ASSUME NEW f \in Pre[o] PROVE Result(s, p)[f[1]] = f[2]
  BY DEF Applicable, Holds
<1>1. f \in Facts /\ s[f[1]] = f[2]
  BY TaskAssumption DEF Applicable, Holds
<1>2. f[1] \in Var
  BY <1>1, FactIsPair
<1>3. Result(s, p)[f[1]] = s[f[1]] \/ <<f[1], Result(s, p)[f[1]]>> \in EffectFacts(p)
  BY <1>2, ValueSet
<1>4. ~Contradict(Effects[p], Listed(Pre[o]))
  BY IndependentBothWays, TogetherBothWays DEF ConflictsAreFound
<1>5. CASE <<f[1], Result(s, p)[f[1]]>> \in EffectFacts(p)
  <2>1. PICK e \in Effects[p] : e.fact = <<f[1], Result(s, p)[f[1]]>>
    BY <1>5 DEF EffectFacts
  <2>2. e.fact[1] = f[1] /\ e.fact[2] = Result(s, p)[f[1]]
    BY <2>1
  <2>3. PICK g : g = [fact |-> f, cond |-> {}]
    OBVIOUS
  <2>4. g \in Listed(Pre[o]) /\ g.fact = f
    BY <2>3 DEF Listed
  <2> QED
    BY <1>4, <2>2, <2>4 DEF Contradict
<1> QED
  BY <1>1, <1>3, <1>5

\* Which effects fire does not depend on whether the other operator was first.
LEMMA SameFired ==
  ASSUME ConditionsAreSeparate, NEW s, NEW o \in Op, NEW p \in Op, o # p,
         Applicable(s, o), Applicable(s, p), Independent(o, p), NEW v \in Var
  PROVE  Fired(Result(s, p), o, v) = Fired(s, o, v)
<1>1. ASSUME NEW e \in Effects[o], NEW c \in e.cond
      PROVE  Result(s, p)[c[1]] = s[c[1]]
  <2>1. c \in Facts /\ c \in EffectConditions(o)
    BY TaskAssumption DEF EffectConditions
  <2>2. c[1] \in Var
    BY <2>1, FactIsPair
  <2>3. \A f \in EffectFacts(p) : f[1] # c[1]
    BY <2>1, TogetherBothWays DEF ConditionsAreSeparate
  <2>4. <<c[1], Result(s, p)[c[1]]>> \notin EffectFacts(p)
    <3>1. PICK g : g = <<c[1], Result(s, p)[c[1]]>>
      OBVIOUS
    <3> QED
      BY <2>3, <3>1
  <2> QED
    BY <2>2, <2>4, ValueSet
<1>2. \A e \in Effects[o] : Holds(Result(s, p), e.cond) <=> Holds(s, e.cond)
  BY <1>1 DEF Holds
<1> QED
  BY <1>2 DEF Fired

\* Independent operators can be applied in either order, to the same effect.
LEMMA Commute ==
  ASSUME InterferenceIsFound, NEW s \in State, NEW o \in Op, NEW p \in Op, o # p,
         Applicable(s, o), Applicable(s, p), Independent(o, p)
  PROVE  /\ Applicable(Result(s, p), o) /\ Applicable(Result(s, o), p)
         /\ Result(Result(s, p), o) = Result(Result(s, o), p)
<1>1. Applicable(Result(s, p), o) /\ Applicable(Result(s, o), p)
  BY NotDisabled, IndependentBothWays DEF InterferenceIsFound
<1>2. PICK a, b : a = Result(s, p) /\ b = Result(s, o)
  OBVIOUS
<1>3. ASSUME NEW v \in Var
      PROVE  Result(a, o)[v] = Result(b, p)[v]
  <2>1. Fired(a, o, v) = Fired(s, o, v) /\ Fired(b, p, v) = Fired(s, p, v)
    BY <1>2, SameFired, IndependentBothWays DEF InterferenceIsFound
  <2>2. /\ Fired(s, o, v) = {} => Result(a, o)[v] = a[v] /\ b[v] = s[v]
        /\ Fired(s, p, v) = {} => Result(b, p)[v] = b[v] /\ a[v] = s[v]
    BY <1>2, <2>1, ResultValue
  <2>3. /\ Fired(s, o, v) # {} => Result(a, o)[v] = b[v]
        /\ Fired(s, p, v) # {} => Result(b, p)[v] = a[v]
    BY <1>2, <2>1, ResultValue
  <2>4. ASSUME Fired(s, o, v) # {}, Fired(s, p, v) # {}
        PROVE  a[v] = b[v]
    <3>1. PICK e \in Fired(s, o, v) : b[v] = e.fact[2]
      BY <1>2, <2>4, ResultValue
    <3>2. PICK d \in Fired(s, p, v) : a[v] = d.fact[2]
      BY <1>2, <2>4, ResultValue
    <3>3. e \in Effects[o] /\ d \in Effects[p] /\ e.fact[1] = d.fact[1]
      BY DEF Fired
    <3>4. ~Contradict(Effects[o], Effects[p])
      BY TogetherBothWays DEF InterferenceIsFound, ConflictsAreFound
    <3> QED
      BY <3>1, <3>2, <3>3, <3>4 DEF Contradict
  <2> QED
    BY <2>2, <2>3, <2>4
<1>4. a \in State /\ b \in State
  BY <1>2, ResultInState
<1>5. Result(a, o) \in State /\ Result(b, p) \in State
  BY <1>4, ResultInState
<1>6. PICK x, y : x = Result(a, o) /\ y = Result(b, p)
  OBVIOUS
<1>7. x \in State /\ y \in State /\ \A v \in Var : x[v] = y[v]
  BY <1>3, <1>5, <1>6
<1>8. x = y
  BY <1>7 DEF State
<1> QED
  BY <1>1, <1>2, <1>6, <1>8

-----------------------------------------------------------------------------
(***************************************************************************)
(* Stubborn sets: the stack                                                *)
(***************************************************************************)
\* The operators of a set, each once, in ascending order.
LEMMA AscendingFacts ==
  ASSUME NEW S \in SUBSET Op
  PROVE  /\ Ascending(S) \in Seq(S)
         /\ \A o \in S : \E i \in 1..Len(Ascending(S)) : Ascending(S)[i] = o
<1> DEFINE n == Cardinality(S)
           Below(o) == {p \in S : p < o}
<1>1. IsFiniteSet(S) /\ n \in Nat /\ S \subseteq Nat
  BY FS_Subset, FS_CardinalityType, TaskAssumption, NumbersAssumption
<1>2. ASSUME NEW o \in S
      PROVE  /\ IsFiniteSet(Below(o)) /\ Cardinality(Below(o)) + 1 \in 1..n
             /\ Cardinality(Below(o)) \in Nat
  <2>1. Below(o) \subseteq S /\ Below(o) # S
    BY <1>1
  <2>2. /\ IsFiniteSet(Below(o)) /\ Cardinality(Below(o)) \in Nat
        /\ Cardinality(Below(o)) < n
    <3> HIDE DEF Below
    <3> QED
      BY <1>1, <2>1, StrictSubset
  <2> HIDE DEF Below
  <2> QED
    BY <1>1, <2>2
<1>3. ASSUME NEW o \in S, NEW p \in S, o < p
      PROVE  Cardinality(Below(o)) < Cardinality(Below(p))
  <2>1. \A q \in S : q < o => q < p
    BY <1>1, <1>3
  <2>2. ~(o < o) /\ o < p
    BY <1>1, <1>3
  <2>3. Below(o) \subseteq Below(p) /\ o \in Below(p) /\ o \notin Below(o)
    BY <2>1, <2>2
  <2> HIDE DEF Below
  <2>4. Below(o) \subseteq Below(p) /\ Below(o) # Below(p) /\ IsFiniteSet(Below(p))
    BY <1>2, <2>3
  <2> QED
    BY <2>4, StrictSubset
<1> DEFINE place == [o \in S |-> Cardinality(Below(o)) + 1]
<1>4. place \in Injection(S, 1..n)
  <2>1. place \in [S -> 1..n]
    <3> HIDE DEF Below
    <3> QED
      BY <1>2
  <2>2. ASSUME NEW o \in S, NEW p \in S, place[o] = place[p] PROVE o = p
    <3> HIDE DEF Below
    <3>1. Cardinality(Below(o)) + 1 = Cardinality(Below(p)) + 1
      BY <2>2
    <3>2. Cardinality(Below(o)) = Cardinality(Below(p))
      <4>1. PICK a \in Nat, b \in Nat : a = Cardinality(Below(o)) /\ b = Cardinality(Below(p))
        BY <1>2
      <4> QED
        BY <3>1, <4>1
    <3>3. ~(o < p) /\ ~(p < o)
      BY <1>2, <1>3, <3>2
    <3> QED
      BY <1>1, <3>3
  <2> HIDE DEF place
  <2> QED
    BY <2>1, <2>2 DEF Injection, IsInjective
<1>5. place \in Surjection(S, 1..n)
  <2>1. IsFiniteSet(1..n) /\ Cardinality(1..n) = n
    BY <1>1, UpTo
  <2> HIDE DEF place, n
  <2>2. Cardinality(S) = Cardinality(1..n)
    BY <2>1 DEF n
  <2> QED
    BY <1>4, <2>1, <2>2, FS_Injection
<1>6. ASSUME NEW i \in 1..n
      PROVE  \E o \in S : Cardinality(Below(o)) = i - 1
  <2>1. PICK o \in S : place[o] = i
    <3> HIDE DEF place
    <3> QED
      BY <1>5 DEF Surjection
  <2>2. Cardinality(Below(o)) + 1 = i /\ Cardinality(Below(o)) \in Nat
    BY <1>2, <2>1
  <2> HIDE DEF Below
  <2> QED
    BY <2>2
<1> DEFINE At(i) == CHOOSE o \in S : Cardinality(Below(o)) = i - 1
<1>7. ASSUME NEW i \in 1..n PROVE At(i) \in S /\ Cardinality(Below(At(i))) = i - 1
  <2> HIDE DEF Below
  <2> QED
    BY <1>6
<1>8. Ascending(S) = [i \in 1..n |-> At(i)]
  BY DEF Ascending
<1>9. ASSUME NEW o \in S PROVE \E i \in 1..n : At(i) = o
  <2>1. PICK i \in 1..n : i = Cardinality(Below(o)) + 1
    BY <1>2
  <2>2. Cardinality(Below(o)) \in Nat
    BY <1>2
  <2>3. At(i) \in S /\ Cardinality(Below(At(i))) = i - 1
    BY <1>7
  <2> HIDE DEF At, Below
  <2>4. ~(At(i) < o) /\ ~(o < At(i))
    <3>1. Cardinality(Below(At(i))) = Cardinality(Below(o))
      BY <2>1, <2>2, <2>3
    <3> QED
      BY <1>2, <1>3, <2>3, <3>1
  <2>5. At(i) = o
    <3>1. PICK a : a = At(i)
      OBVIOUS
    <3>2. a \in Nat /\ o \in Nat
      BY <1>1, <2>3, <3>1
    <3>3. ~(a < o) /\ ~(o < a)
      BY <2>4, <3>1
    <3> QED
      BY <3>1, <3>2, <3>3
  <2> QED
    BY <2>5
<1> HIDE DEF At, Below, n, place
<1>10. Ascending(S) \in Seq(S) /\ Len(Ascending(S)) = n
  <2>1. Ascending(S) \in [1..n -> S]
    BY <1>7, <1>8
  <2> QED
    BY <1>1, <2>1
<1> QED
  BY <1>8, <1>9, <1>10

IsIn(x, s) == \E i \in 1..Len(s) : s[i] = x

LEMMA IsInAppended ==
  ASSUME NEW T, NEW s \in Seq(T), NEW t \in Seq(T), NEW x, IsIn(x, s) \/ IsIn(x, t)
  PROVE  IsIn(x, s \o t)
<1>1. /\ Len(s \o t) = Len(s) + Len(t) /\ Len(s) \in Nat /\ Len(t) \in Nat
      /\ \A i \in 1..Len(s) : (s \o t)[i] = s[i]
      /\ \A i \in 1..Len(t) : (s \o t)[Len(s) + i] = t[i]
  OBVIOUS
<1>2. CASE IsIn(x, s)
  <2>1. PICK i \in 1..Len(s) : s[i] = x
    BY <1>2 DEF IsIn
  <2>2. i \in 1..Len(s \o t) /\ (s \o t)[i] = x
    BY <1>1, <2>1
  <2> QED
    BY <2>2 DEF IsIn
<1>3. CASE IsIn(x, t)
  <2>1. PICK i \in 1..Len(t) : t[i] = x
    BY <1>3 DEF IsIn
  <2>2. Len(s) + i \in 1..Len(s \o t) /\ (s \o t)[Len(s) + i] = x
    BY <1>1, <2>1
  <2> QED
    BY <2>2 DEF IsIn
<1> QED
  BY <1>2, <1>3

\* The stack without its top.
LEMMA FrontFacts ==
  ASSUME NEW T, NEW s \in Seq(T), s # <<>>
  PROVE  /\ Last(s) \in T /\ Front(s) \in Seq(T)
         /\ \A x : IsIn(x, s) => x = Last(s) \/ IsIn(x, Front(s))
<1>1. Len(s) \in Nat \ {0} /\ s[Len(s)] \in T
  OBVIOUS
<1>2. Last(s) = s[Len(s)] /\ Front(s) = SubSeq(s, 1, Len(s) - 1)
  BY DEF Last, Front
<1>3. /\ SubSeq(s, 1, Len(s) - 1) \in Seq(T)
      /\ Len(SubSeq(s, 1, Len(s) - 1)) = Len(s) - 1
      /\ \A i \in 1..(Len(s) - 1) : SubSeq(s, 1, Len(s) - 1)[i] = s[i]
  <2>1. PICK n \in Nat : n = Len(s) - 1
    BY <1>1
  <2>2. 1 \in 1..(Len(s) + 1) /\ n \in 0..Len(s)
    BY <1>1, <2>1
  <2>3. /\ SubSeq(s, 1, n) \in Seq(T)
        /\ Len(SubSeq(s, 1, n)) = IF 1 <= n THEN n - 1 + 1 ELSE 0
        /\ \A i \in 1..(n - 1 + 1) : SubSeq(s, 1, n)[i] = s[1 + i - 1]
    BY <2>2, SubSeqProperties
  <2>4. Len(SubSeq(s, 1, n)) = n /\ \A i \in 1..n : SubSeq(s, 1, n)[i] = s[i]
    BY <2>1, <2>3
  <2> QED
    BY <2>1, <2>3, <2>4
<1>4. ASSUME NEW x, IsIn(x, s), x # Last(s) PROVE IsIn(x, Front(s))
  <2>1. PICK i \in 1..Len(s) : s[i] = x
    BY <1>4 DEF IsIn
  <2>2. i # Len(s)
    BY <1>2, <1>4, <2>1
  <2>3. i \in 1..(Len(s) - 1)
    BY <1>1, <2>2
  <2> QED
    BY <1>2, <1>3, <2>1, <2>3 DEF IsIn
<1> QED
  BY <1>1, <1>2, <1>3, <1>4

LEMMA TailFacts ==
  ASSUME NEW T, NEW s \in Seq(T), s # <<>>
  PROVE  /\ Head(s) \in T /\ Tail(s) \in Seq(T)
         /\ \A x : IsIn(x, s) <=> x = Head(s) \/ IsIn(x, Tail(s))
<1>1. /\ Len(s) \in Nat \ {0} /\ Head(s) = s[1] /\ s[1] \in T
      /\ Tail(s) \in Seq(T) /\ Len(Tail(s)) = Len(s) - 1
      /\ \A i \in 1..(Len(s) - 1) : Tail(s)[i] = s[i + 1]
  OBVIOUS
<1>2. ASSUME NEW x, IsIn(x, s), x # Head(s) PROVE IsIn(x, Tail(s))
  <2>1. PICK i \in 1..Len(s) : s[i] = x
    BY <1>2 DEF IsIn
  <2>2. i # 1
    BY <1>1, <1>2, <2>1
  <2>3. i - 1 \in 1..(Len(s) - 1) /\ (i - 1) + 1 = i
    BY <1>1, <2>2
  <2>4. Tail(s)[i - 1] = x
    BY <1>1, <2>1, <2>3
  <2> QED
    BY <1>1, <2>3, <2>4 DEF IsIn
<1>3. ASSUME NEW x, IsIn(x, Tail(s)) PROVE IsIn(x, s)
  <2>1. PICK i \in 1..(Len(s) - 1) : Tail(s)[i] = x
    BY <1>1, <1>3 DEF IsIn
  <2>2. i + 1 \in 1..Len(s) /\ s[i + 1] = x
    BY <1>1, <2>1
  <2> QED
    BY <2>2 DEF IsIn
<1>4. IsIn(Head(s), s)
  <2>1. 1 \in 1..Len(s)
    BY <1>1
  <2> QED
    BY <1>1, <2>1 DEF IsIn
<1> QED
  BY <1>1, <1>2, <1>3, <1>4

-----------------------------------------------------------------------------
(***************************************************************************)
(* Stubborn sets: values a variable can take                               *)
(***************************************************************************)
\* A chain of growing subsets of a finite set, each determined by the one
\* before it, has come to its end after as many steps as the set has members.
LEMMA GrowingChain ==
  ASSUME NEW T, IsFiniteSet(T), NEW F \in [SUBSET T -> SUBSET T],
         \A X \in SUBSET T : X \subseteq F[X],
         NEW base \in SUBSET T, base # {},
         NEW f, Iterates(f, Cardinality(T), SUBSET T, base, F)
  PROVE  /\ f[Cardinality(T)] \in SUBSET T
         /\ F[f[Cardinality(T)]] = f[Cardinality(T)]
         /\ base \subseteq f[Cardinality(T)]
<1> DEFINE N == Cardinality(T)
           Done(n) == F[f[n]] = f[n]
           S == {n \in 0..N : base \subseteq f[n] /\ (Done(n) \/ Cardinality(f[n]) > n)}
<1>1. N \in Nat
  BY FS_CardinalityType
<1>2. \A n \in 0..N : f[n] \in SUBSET T
  BY DEF Iterates
<1>3. f[0] = base
  BY <1>1 DEF Iterates
<1>4. \A n \in 1..N : f[n] = F[f[n - 1]]
  BY <1>1 DEF Iterates
<1>5. \A X \in SUBSET T : IsFiniteSet(X) /\ Cardinality(X) \in Nat /\ Cardinality(X) <= N
  BY FS_Subset, FS_CardinalityType
<1>6. 0 \in S
  <2>1. Cardinality(base) # 0
    BY <1>5, FS_EmptySet
  <2>2. Cardinality(f[0]) > 0
    BY <1>3, <1>5, <2>1
  <2>3. 0 \in 0..N /\ base \subseteq f[0]
    BY <1>1, <1>3
  <2> QED
    BY <2>2, <2>3
<1>7. ASSUME NEW n \in 1..N, n - 1 \in S PROVE n \in S
  <2>1. n - 1 \in 0..N /\ n \in 0..N
    BY <1>1
  <2>2. PICK X \in SUBSET T : X = f[n - 1]
    BY <1>2, <2>1
  <2>3. f[n] = F[X] /\ X \subseteq F[X] /\ F[X] \in SUBSET T
    BY <1>4, <2>2
  <2>4. base \subseteq X /\ (F[X] = X \/ Cardinality(X) > n - 1)
    BY <1>7, <2>2
  <2>5. CASE F[X] = X
    BY <2>1, <2>3, <2>4, <2>5
  <2>6. CASE F[X] # X
    <3>1. Cardinality(X) < Cardinality(F[X]) /\ Cardinality(X) \in Nat
          /\ Cardinality(F[X]) \in Nat
      <4>1. PICK Y : Y = F[X]
        OBVIOUS
      <4>2. IsFiniteSet(Y) /\ X \subseteq Y /\ X # Y
        BY <1>5, <2>3, <2>6, <4>1
      <4> QED
        BY <4>1, <4>2, StrictSubset
    <3>2. Cardinality(F[X]) > n
      BY <2>4, <2>6, <3>1
    <3> QED
      BY <2>1, <2>3, <2>4, <3>2
  <2> QED
    BY <2>5, <2>6
<1>8. N \in S
  <2> HIDE DEF S, N
  <2> QED
    BY <1>1, <1>6, <1>7, Induct
<1>9. f[N] \in SUBSET T /\ Cardinality(f[N]) <= N
  BY <1>1, <1>2, <1>5
<1>10. Done(N) /\ base \subseteq f[N]
  BY <1>1, <1>5, <1>8, <1>9
<1> QED
  BY <1>9, <1>10

\* The reachable values of a variable: closed under its transition graph.
LEMMA ReachableValuesFacts ==
  ASSUME NEW v \in Var, NEW x \in Domain[v]
  PROVE  /\ x \in ReachableValues(v, x)
         /\ \A a \in TransitionGraph(v) :
               a[1] \in ReachableValues(v, x) => a[2] \in ReachableValues(v, x)
<1> DEFINE T == Domain[v]
           N == Cardinality(T)
           Grown(V) == V \cup {a[2] : a \in {b \in TransitionGraph(v) : b[1] \in V}}
           F == [V \in SUBSET T |-> Grown(V)]
<1>1. IsFiniteSet(T) /\ N \in Nat
  BY DomainFinite, FS_CardinalityType
<1>2. ASSUME NEW a \in TransitionGraph(v) PROVE a[2] \in T
  <2>1. PICK o \in Op :
          \E f \in EffectFacts(o), y \in Domain[v] : f[1] = v /\ a = <<y, f[2]>>
    BY DEF TransitionGraph
  <2>2. PICK f \in EffectFacts(o), y \in Domain[v] : f[1] = v /\ a = <<y, f[2]>>
    BY <2>1
  <2>3. f \in Facts
    BY TaskAssumption DEF EffectFacts
  <2> QED
    BY <2>2, <2>3, FactIsPair
<1>3. F \in [SUBSET T -> SUBSET T]
  BY <1>2
<1>4. \A V \in SUBSET T : V \subseteq F[V]
  OBVIOUS
<1> DEFINE Is(f) == f = [n \in 0..N |-> IF n = 0 THEN {x} ELSE Grown(f[n - 1])]
<1>5. PICK g : Iterates(g, N, SUBSET T, {x}, F)
  <2> HIDE DEF T, N, F
  <2>1. {x} \in SUBSET T
    BY DEF T
  <2> QED
    BY <1>1, <1>3, <2>1, Iteration
<1>6. Is(g)
  <2>1. g = [n \in 0..N |-> IF n = 0 THEN {x} ELSE F[g[n - 1]]]
        /\ \A n \in 0..N : g[n] \in SUBSET T
    BY <1>5 DEF Iterates
  <2>2. \A n \in 0..N : n # 0 => n - 1 \in 0..N
    BY <1>1
  <2>3. \A n \in 0..N : n # 0 => F[g[n - 1]] = Grown(g[n - 1])
    BY <2>1, <2>2
  <2> HIDE DEF F, Grown, N
  <2> QED
    BY <2>1, <2>3
<1> DEFINE values == CHOOSE f : Is(f)
<1>7. Is(values)
  <2> HIDE DEF Is
  <2> QED
    BY <1>6
<1>8. ReachableValues(v, x) = values[N]
  BY DEF ReachableValues
<1>9. Iterates(values, N, SUBSET T, {x}, F)
  <2>1. values[0] = {x} /\ \A n \in 1..N : values[n] = Grown(values[n - 1])
    <3> HIDE DEF values, Grown
    <3>1. \A n \in 0..N : values[n] = IF n = 0 THEN {x} ELSE Grown(values[n - 1])
      BY <1>7
    <3> QED
      BY <1>1, <3>1
  <2> DEFINE S == {n \in Nat : n \in 0..N => values[n] \in SUBSET T}
  <2>2. ASSUME NEW m \in 0..N PROVE values[m] \in SUBSET T
    <3>1. 0 \in S
      BY <2>1
    <3>2. ASSUME NEW i \in 1..m, i - 1 \in S PROVE i \in S
      <4>1. i \in 1..N /\ i - 1 \in 0..N /\ i \in Nat
        BY <1>1
      <4>2. values[i - 1] \in SUBSET T
        BY <3>2, <4>1
      <4>3. Grown(values[i - 1]) \in SUBSET T
        BY <1>2, <4>2
      <4> QED
        BY <2>1, <4>1, <4>3
    <3>3. m \in S
      <4> HIDE DEF S
      <4> QED
        BY <3>1, <3>2, Induct
    <3> QED
      BY <3>3
  <2>3. \A n \in 0..N : n # 0 => n - 1 \in 0..N
    BY <1>1
  <2>4. \A n \in 0..N : n # 0 => F[values[n - 1]] = Grown(values[n - 1])
    BY <2>2, <2>3
  <2> HIDE DEF F, Grown, N, values, T
  <2>5. values = [n \in 0..N |-> IF n = 0 THEN {x} ELSE F[values[n - 1]]]
    BY <1>7, <2>4
  <2> QED
    BY <2>2, <2>5 DEF Iterates
<1>10. values[N] \in SUBSET T /\ F[values[N]] = values[N] /\ {x} \subseteq values[N]
  <2> HIDE DEF F, values, T
  <2>1. {x} \in SUBSET T /\ {x} # {}
    BY DEF T
  <2> QED
    BY <1>1, <1>3, <1>4, <1>9, <2>1, GrowingChain
<1>11. Grown(values[N]) = values[N]
  BY <1>10
<1> HIDE DEF values
<1> QED
  BY <1>8, <1>10, <1>11

-----------------------------------------------------------------------------
(***************************************************************************)
(* Stubborn sets: what the iteration knows of the operators it has handled *)
(***************************************************************************)
\* The achievers that count.
Usable(f) == IF variant = "ec" THEN Achievers(f) \cap ActiveOps(state) ELSE Achievers(f)

\* A fact that does not hold before a stubborn operator is applied.
Guarded(f) == state[f[1]] # f[2] /\ Usable(f) \subseteq stubborn
HasEnablingSet(o) == \E f \in Pre[o] : Guarded(f)

\* That o disables p is left to be handled.
Waiting(o, p) == IsIn(<<o, p>>, disabled_todo)

DisabledHandled(o) ==
    \A p \in Disabled(o) \cap ActiveOps(state) :
        p \in stubborn \/ HasEnablingSet(p) \/ Waiting(o, p)

Closed(o) ==
    /\ Applicable(state, o) /\ variant = "simple" => Interfering(o) \subseteq stubborn
    /\ Applicable(state, o) /\ variant = "ec" =>
          /\ ConflictingAndDisabling(o) \cap ActiveOps(state) \subseteq stubborn
          /\ DisabledHandled(o)
    /\ ~Applicable(state, o) => HasEnablingSet(o)

PruningTypeOK ==
    /\ variant \in Variants
    /\ state \in State
    /\ stubborn \subseteq Op
    /\ stubborn_queue \in Seq(Op)
    /\ disabled_todo \in Seq(Op \X Op)
    /\ nes_computed \subseteq Facts
    /\ stage \in {"idle", "handle", "pruned"}

TodoOK == \A o, p : Waiting(o, p) => CanDisable(o, p) /\ variant = "ec"
EmptyOK ==
    /\ stage # "handle" => disabled_todo = <<>>
    /\ stage = "pruned" => stubborn_queue = <<>>
KnownOK == \A f \in nes_computed : Usable(f) \subseteq stubborn
GoalOK == stage # "idle" => \E f \in Goal : Guarded(f)
HandledOK == stage # "idle" => \A o \in stubborn : IsIn(o, stubborn_queue) \/ Closed(o)

PruningInv == PruningTypeOK /\ TodoOK /\ EmptyOK /\ KnownOK /\ GoalOK /\ HandledOK

LEMMA AchieversFacts ==
  ASSUME NEW f
  PROVE  /\ Achievers(f) \subseteq Op /\ Usable(f) \subseteq Op
         /\ Achievers(f) \cap ActiveOps(state) \subseteq Op
         /\ Usable(f) \subseteq Achievers(f)
BY DEF Achievers, Usable

\* One of the facts that do not hold: that of the first variable.
LEMMA FirstUnsatisfiedFacts ==
  ASSUME NEW s, NEW F, F \subseteq Facts, Unsatisfied(s, F) # {}
  PROVE  /\ FirstUnsatisfied(s, F) \in F
         /\ s[FirstUnsatisfied(s, F)[1]] # FirstUnsatisfied(s, F)[2]
<1> DEFINE U == Unsatisfied(s, F)
           K == {f[1] : f \in U}
<1>1. \A f \in U : f[1] \in Nat
  <2>1. \A f \in U : f[1] \in Var
    BY FactIsPair DEF Unsatisfied
  <2> QED
    BY <2>1, VarFinite, TaskAssumption
<1>2. PICK k \in K : \A m \in K : k <= m
  <2>1. K \in SUBSET Nat /\ K # {}
    BY <1>1
  <2> HIDE DEF K
  <2> QED
    BY <2>1, LeastNumber
<1>3. \E f \in U : \A g \in U : f[1] <= g[1]
  BY <1>2
<1>4. FirstUnsatisfied(s, F) \in U
  BY <1>3 DEF FirstUnsatisfied
<1> QED
  BY <1>4 DEF Unsatisfied

\* The queue and the set after operators have been marked.
LEMMA MarkFacts ==
  ASSUME PruningTypeOK, NEW ops \in SUBSET Op, NEW queue \in Seq(Op), Mark(ops, queue)
  PROVE  /\ stubborn' = stubborn \cup ops /\ stubborn' \subseteq Op
         /\ stubborn_queue' \in Seq(Op)
         /\ \A o : IsIn(o, queue) => IsIn(o, stubborn_queue')
         /\ \A o \in ops : o \in stubborn \/ IsIn(o, stubborn_queue')
<1>1. /\ stubborn' = stubborn \cup New(ops)
      /\ stubborn_queue' = queue \o Ascending(New(ops))
  BY DEF Mark
<1>2. New(ops) \in SUBSET Op /\ stubborn \cup New(ops) = stubborn \cup ops
  BY DEF New
<1>3. PICK t : t = Ascending(New(ops))
  OBVIOUS
<1>4. t \in Seq(New(ops)) /\ \A o \in New(ops) : IsIn(o, t)
  BY <1>2, <1>3, AscendingFacts DEF IsIn
<1>5. t \in Seq(Op)
  BY <1>2, <1>4
<1>6. queue \o t \in Seq(Op)
  BY <1>5
<1>7. \A o : IsIn(o, queue) \/ IsIn(o, t) => IsIn(o, queue \o t)
  BY <1>5, IsInAppended
<1>8. \A o \in ops : o \in stubborn \/ o \in New(ops)
  BY DEF New
<1> QED
  BY <1>1, <1>2, <1>3, <1>4, <1>6, <1>7, <1>8 DEF PruningTypeOK

\* What is known stays true as the set grows.
LEMMA GuardedStays ==
  ASSUME variant' = variant, state' = state, stubborn \subseteq stubborn'
  PROVE  /\ \A f : Usable(f)' = Usable(f)
         /\ \A f : Guarded(f) => Guarded(f)'
         /\ \A o : HasEnablingSet(o) => HasEnablingSet(o)'
BY DEF Usable, Guarded, HasEnablingSet

LEMMA ClosedStays ==
  ASSUME variant' = variant, state' = state, stubborn \subseteq stubborn',
         \A o, p : Waiting(o, p) => p \in stubborn' \/ HasEnablingSet(p)' \/ Waiting(o, p)'
  PROVE  \A o : Closed(o) => Closed(o)'
<1> SUFFICES ASSUME NEW o, Closed(o) PROVE Closed(o)'
  OBVIOUS
<1>1. \A p : HasEnablingSet(p) => HasEnablingSet(p)'
  BY GuardedStays
<1>2. DisabledHandled(o) => DisabledHandled(o)'
  BY <1>1 DEF DisabledHandled
<1> QED
  BY <1>1, <1>2 DEF Closed

\* What a step of the iteration does that brings some operators in order.
Brings(handled) ==
    /\ variant' = variant /\ state' = state /\ stubborn \subseteq stubborn'
    /\ stage = "handle" /\ stage' = stage
    /\ PruningTypeOK' /\ TodoOK' /\ KnownOK'
    /\ \A o : IsIn(o, stubborn_queue) => o \in handled \/ IsIn(o, stubborn_queue')
    /\ \A o \in stubborn' : o \in stubborn \/ IsIn(o, stubborn_queue')
    /\ \A o, p : Waiting(o, p) => p \in stubborn' \/ HasEnablingSet(p)' \/ Waiting(o, p)'
    /\ \A o \in handled : Closed(o)'

\* Such a step keeps what has been done before.
LEMMA BringsKeeps ==
  ASSUME PruningInv, NEW handled, Brings(handled)
  PROVE  PruningInv'
<1>1. EmptyOK'
  BY DEF EmptyOK, Brings
<1>2. GoalOK'
  BY GuardedStays DEF GoalOK, PruningInv, Brings
<1>3. HandledOK'
  <2> SUFFICES ASSUME NEW o \in stubborn'
               PROVE  IsIn(o, stubborn_queue') \/ Closed(o)'
    BY DEF HandledOK
  <2>1. CASE o \notin stubborn
    BY <2>1 DEF Brings
  <2>2. CASE o \in handled
    BY <2>2 DEF Brings
  <2>3. CASE o \notin handled /\ o \in stubborn
    <3>1. IsIn(o, stubborn_queue) \/ Closed(o)
      BY <2>3 DEF PruningInv, HandledOK, Brings
    <3>2. Closed(o) => Closed(o)'
      BY ClosedStays DEF Brings
    <3> QED
      BY <2>3, <3>1, <3>2 DEF Brings
  <2> QED
    BY <2>1, <2>2, <2>3
<1> QED
  BY <1>1, <1>2, <1>3 DEF PruningInv, Brings

LEMMA UnsatisfiedCondition ==
  ASSUME NEW o \in Op, ~Applicable(state, o)
  PROVE  Unsatisfied(state, Pre[o]) # {} /\ Pre[o] \subseteq Facts
BY TaskAssumption DEF Applicable, Holds, Unsatisfied

\* Rule S5: afterwards there is a necessary enabling set for the operator.
LEMMA ApplyS5Facts ==
  ASSUME PruningTypeOK, KnownOK, variant = "ec", variant' = variant, state' = state,
         NEW p \in Op, ~Applicable(state, p), NEW queue \in Seq(Op), ApplyS5(p, queue)
  PROVE  /\ stubborn \subseteq stubborn' /\ stubborn' \subseteq Op
         /\ stubborn_queue' \in Seq(Op)
         /\ \A o : IsIn(o, queue) => IsIn(o, stubborn_queue')
         /\ \A o \in stubborn' : o \in stubborn \/ IsIn(o, stubborn_queue')
         /\ nes_computed' \subseteq Facts /\ KnownOK' /\ HasEnablingSet(p)'
<1> DEFINE violated == Unsatisfied(state, Pre[p])
           written == {f \in violated : f[1] \in written_vars}
           from == IF written = {} THEN violated ELSE written
<1>1. PICK fact : fact = FirstUnsatisfied(state, from)
  OBVIOUS
<1>2. fact \in Pre[p] /\ state[fact[1]] # fact[2] /\ fact \in Facts
  <2>1. violated # {} /\ violated \subseteq Pre[p] /\ Pre[p] \subseteq Facts
    BY UnsatisfiedCondition DEF Unsatisfied
  <2>2. from # {} /\ from \subseteq Pre[p] /\ \A f \in from : state[f[1]] # f[2]
    BY <2>1 DEF Unsatisfied
  <2> HIDE DEF from
  <2>3. Unsatisfied(state, from) # {} /\ from \subseteq Facts
    BY <2>1, <2>2 DEF Unsatisfied
  <2> QED
    BY <1>1, <2>1, <2>2, <2>3, FirstUnsatisfiedFacts
<1>3. IF fact \in nes_computed
      THEN /\ stubborn_queue' = queue
           /\ UNCHANGED <<stubborn, written_vars, nes_computed>>
      ELSE /\ Mark(Achievers(fact) \cap ActiveOps(state), queue)
           /\ nes_computed' = nes_computed \cup {fact}
  BY <1>1 DEF ApplyS5
<1> HIDE DEF from, written, violated
<1>4. Usable(fact) = Achievers(fact) \cap ActiveOps(state)
  BY DEF Usable
<1>5. CASE fact \in nes_computed
  <2>1. /\ stubborn_queue' = queue /\ stubborn' = stubborn /\ nes_computed' = nes_computed
    BY <1>3, <1>5
  <2>2. Usable(fact) \subseteq stubborn
    BY <1>5 DEF KnownOK
  <2>3. Guarded(fact)
    BY <1>2, <2>2 DEF Guarded
  <2>4. HasEnablingSet(p)
    BY <1>2, <2>3 DEF HasEnablingSet
  <2>5. HasEnablingSet(p)' /\ KnownOK'
    BY <2>1, <2>4, GuardedStays DEF KnownOK
  <2> QED
    BY <2>1, <2>5 DEF PruningTypeOK
<1>6. CASE fact \notin nes_computed
  <2>1. PICK ops : ops = Achievers(fact) \cap ActiveOps(state)
    OBVIOUS
  <2>2. Mark(ops, queue) /\ nes_computed' = nes_computed \cup {fact} /\ ops \in SUBSET Op
    BY <1>3, <1>6, <2>1, AchieversFacts
  <2>3. /\ stubborn' = stubborn \cup ops /\ stubborn' \subseteq Op
        /\ stubborn_queue' \in Seq(Op)
        /\ \A o : IsIn(o, queue) => IsIn(o, stubborn_queue')
        /\ \A o \in ops : o \in stubborn \/ IsIn(o, stubborn_queue')
    BY <2>2, MarkFacts
  <2>4. \A f : Usable(f)' = Usable(f)
    BY <2>3, GuardedStays
  <2>5. Usable(fact)' \subseteq stubborn'
    BY <1>4, <2>1, <2>3, <2>4
  <2>6. KnownOK'
    BY <2>2, <2>3, <2>4, <2>5 DEF KnownOK
  <2>7. Guarded(fact)'
    BY <1>2, <2>5 DEF Guarded
  <2>8. HasEnablingSet(p)'
    BY <1>2, <2>7 DEF HasEnablingSet
  <2> QED
    BY <1>2, <2>2, <2>3, <2>6, <2>8 DEF PruningTypeOK
<1> QED
  BY <1>5, <1>6

LEMMA PoppedFacts ==
  ASSUME PruningTypeOK, NEW v, Popping(v)
  PROVE  /\ stage = "handle" /\ variant = v /\ disabled_todo = <<>>
         /\ Popped \in Op /\ Rest \in Seq(Op)
         /\ \A o : IsIn(o, stubborn_queue) => o = Popped \/ IsIn(o, Rest)
         /\ \A o, p : ~Waiting(o, p)
<1>1. stubborn_queue \in Seq(Op) /\ stubborn_queue # <<>>
  BY DEF PruningTypeOK, Popping
<1>2. disabled_todo = <<>> /\ Len(<<>>) = 0
  BY DEF Popping
<1>3. \A o, p : ~Waiting(o, p)
  BY <1>2 DEF Waiting, IsIn
<1> QED
  BY <1>1, <1>3, FrontFacts DEF Popping, Popped, Rest

LEMMA SimpleKeeps == PruningInv /\ HandleSimple => PruningInv'
<1> SUFFICES ASSUME PruningInv, HandleSimple PROVE PruningInv'
  OBVIOUS
<1>1. /\ PruningTypeOK /\ KnownOK /\ TodoOK
      /\ variant = "simple" /\ variant' = variant /\ state' = state
      /\ disabled_todo' = disabled_todo /\ nes_computed' = nes_computed
      /\ stage = "handle" /\ stage' = stage
      /\ Popped \in Op /\ Rest \in Seq(Op)
      /\ \A o : IsIn(o, stubborn_queue) => o = Popped \/ IsIn(o, Rest)
  BY PoppedFacts DEF PruningInv, HandleSimple, Popping
<1>2. \A o, p : Waiting(o, p)' = Waiting(o, p)
  BY <1>1 DEF Waiting
<1>3. PICK ops : ops = IF Applicable(state, Popped) THEN Interfering(Popped) \cup Enabled(Popped)
                       ELSE Achievers(FirstUnsatisfied(state, Pre[Popped]))
  OBVIOUS
<1>4. Mark(ops, Rest)
  BY <1>3 DEF HandleSimple
<1>5. ops \in SUBSET Op
  <2>1. Interfering(Popped) \subseteq Op
    BY DEF Interfering
  <2>2. Enabled(Popped) \subseteq Op
    BY DEF Enabled, Achievers
  <2> QED
    BY <1>3, <2>1, <2>2, AchieversFacts
<1>6. /\ stubborn' = stubborn \cup ops /\ stubborn' \subseteq Op
      /\ stubborn_queue' \in Seq(Op)
      /\ \A o : IsIn(o, Rest) => IsIn(o, stubborn_queue')
      /\ \A o \in ops : o \in stubborn \/ IsIn(o, stubborn_queue')
  BY <1>1, <1>4, <1>5, MarkFacts
<1>7. PICK q : q = Popped
  OBVIOUS
<1>8. Closed(q)'
  <2>1. CASE Applicable(state, q)
    <3>1. Interfering(q) \subseteq stubborn'
      BY <1>3, <1>6, <1>7, <2>1
    <3> QED
      BY <1>1, <2>1, <3>1 DEF Closed
  <2>2. CASE ~Applicable(state, q)
    <3>1. PICK fact : fact = FirstUnsatisfied(state, Pre[q])
      OBVIOUS
    <3>2. fact \in Pre[q] /\ state[fact[1]] # fact[2]
      BY <1>1, <1>7, <2>2, <3>1, UnsatisfiedCondition, FirstUnsatisfiedFacts
    <3>3. Achievers(fact) \subseteq stubborn'
      BY <1>3, <1>6, <1>7, <2>2, <3>1
    <3>4. HasEnablingSet(q)'
      BY <1>1, <3>2, <3>3 DEF HasEnablingSet, Guarded, Usable
    <3> QED
      BY <1>1, <2>2, <3>4 DEF Closed
  <2> QED
    BY <2>1, <2>2
<1>9. PruningTypeOK' /\ TodoOK' /\ KnownOK'
  <2>1. KnownOK'
    BY <1>1, <1>6, GuardedStays DEF KnownOK
  <2>2. PruningTypeOK'
    BY <1>1, <1>6 DEF PruningTypeOK
  <2> QED
    BY <1>1, <1>2, <2>1, <2>2 DEF TodoOK
<1>10. /\ stubborn \subseteq stubborn'
       /\ \A o : IsIn(o, stubborn_queue) => o \in {q} \/ IsIn(o, stubborn_queue')
       /\ \A o \in stubborn' : o \in stubborn \/ IsIn(o, stubborn_queue')
       /\ \A o \in {q} : Closed(o)'
  BY <1>1, <1>6, <1>7, <1>8
<1>11. \A o, p : Waiting(o, p) => p \in stubborn' \/ HasEnablingSet(p)' \/ Waiting(o, p)'
  BY <1>2
<1>12. Brings({q})
  BY <1>1, <1>9, <1>10, <1>11 DEF Brings
<1> QED
  BY <1>12, BringsKeeps

LEMMA ApplicableKeeps == PruningInv /\ HandleApplicable => PruningInv'
<1> SUFFICES ASSUME PruningInv, HandleApplicable PROVE PruningInv'
  OBVIOUS
<1>1. PICK q : q = Popped
  OBVIOUS
<1>2. /\ PruningTypeOK /\ KnownOK
      /\ variant = "ec" /\ variant' = variant /\ state' = state
      /\ nes_computed' = nes_computed
      /\ stage = "handle" /\ stage' = stage
      /\ q \in Op /\ Rest \in Seq(Op) /\ Applicable(state, q)
      /\ \A o : IsIn(o, stubborn_queue) => o = q \/ IsIn(o, Rest)
      /\ \A o, p : ~Waiting(o, p)
  BY <1>1, PoppedFacts DEF PruningInv, HandleApplicable, Popping
<1>3. PICK ops, dis : /\ ops = ConflictingAndDisabling(q) \cap ActiveOps(state)
                      /\ dis = Disabled(q) \cap ActiveOps(state)
  OBVIOUS
<1>4. ops \in SUBSET Op /\ dis \in SUBSET Op
  BY <1>3 DEF ConflictingAndDisabling, Disabled
<1>5. /\ Mark(ops, Rest)
      /\ disabled_todo' = [i \in 1..Cardinality(dis) |-> <<q, Ascending(dis)[i]>>]
  BY <1>1, <1>3 DEF HandleApplicable
<1>6. /\ stubborn' = stubborn \cup ops /\ stubborn' \subseteq Op
      /\ stubborn_queue' \in Seq(Op)
      /\ \A o : IsIn(o, Rest) => IsIn(o, stubborn_queue')
      /\ \A o \in ops : o \in stubborn \/ IsIn(o, stubborn_queue')
  BY <1>2, <1>4, <1>5, MarkFacts
<1>7. PICK n, t : n = Cardinality(dis) /\ t = Ascending(dis)
  OBVIOUS
<1>8. /\ n \in Nat /\ Len(t) = n
      /\ \A i \in 1..n : t[i] \in dis
      /\ \A p \in dis : \E i \in 1..n : t[i] = p
  <2>1. IsFiniteSet(dis) /\ Cardinality(dis) \in Nat
    BY <1>4, FS_Subset, FS_CardinalityType, TaskAssumption
  <2>2. t \in Seq(dis) /\ \A p \in dis : \E i \in 1..Len(t) : t[i] = p
    BY <1>4, <1>7, AscendingFacts
  <2>3. Len(t) = n
    BY <1>7, <2>1 DEF Ascending
  <2> QED
    BY <1>7, <2>1, <2>2, <2>3
<1>9. /\ disabled_todo' \in Seq(Op \X Op) /\ Len(disabled_todo') = n
      /\ \A i \in 1..n : disabled_todo'[i] = <<q, t[i]>>
  <2>1. disabled_todo' = [i \in 1..n |-> <<q, t[i]>>]
    BY <1>5, <1>7
  <2>2. \A i \in 1..n : <<q, t[i]>> \in Op \X Op
    BY <1>2, <1>4, <1>8
  <2>3. disabled_todo' \in [1..n -> Op \X Op]
    BY <2>1, <2>2
  <2> QED
    BY <1>8, <2>1, <2>3
<1>10. \A p \in dis : Waiting(q, p)'
  BY <1>8, <1>9 DEF Waiting, IsIn
<1>11. \A o, p : Waiting(o, p)' => o = q /\ p \in dis
  <2> SUFFICES ASSUME NEW o, NEW p, Waiting(o, p)' PROVE o = q /\ p \in dis
    OBVIOUS
  <2>1. PICK i \in 1..n : disabled_todo'[i] = <<o, p>>
    BY <1>9 DEF Waiting, IsIn
  <2>2. <<o, p>> = <<q, t[i]>>
    BY <1>9, <2>1
  <2> QED
    BY <1>8, <2>2
<1>12. Closed(q)'
  <2>1. ops \subseteq stubborn' /\ ops = ConflictingAndDisabling(q) \cap ActiveOps(state)'
    BY <1>2, <1>3, <1>6
  <2>2. DisabledHandled(q)'
    BY <1>2, <1>3, <1>10 DEF DisabledHandled
  <2>3. Applicable(state, q)'
    BY <1>2
  <2> QED
    BY <1>2, <2>1, <2>2, <2>3 DEF Closed
<1>13. PruningTypeOK' /\ TodoOK' /\ KnownOK'
  <2>1. KnownOK'
    BY <1>2, <1>6, GuardedStays DEF KnownOK
  <2>2. PruningTypeOK'
    BY <1>2, <1>6, <1>9 DEF PruningTypeOK
  <2>3. TodoOK'
    BY <1>2, <1>3, <1>11 DEF TodoOK, Disabled
  <2> QED
    BY <2>1, <2>2, <2>3
<1>14. /\ stubborn \subseteq stubborn'
       /\ \A o : IsIn(o, stubborn_queue) => o \in {q} \/ IsIn(o, stubborn_queue')
       /\ \A o \in stubborn' : o \in stubborn \/ IsIn(o, stubborn_queue')
       /\ \A o \in {q} : Closed(o)'
  BY <1>2, <1>6, <1>12
<1>15. \A o, p : Waiting(o, p) => p \in stubborn' \/ HasEnablingSet(p)' \/ Waiting(o, p)'
  BY <1>2
<1>16. Brings({q})
  BY <1>2, <1>13, <1>14, <1>15 DEF Brings
<1> QED
  BY <1>16, BringsKeeps

LEMMA InapplicableKeeps == PruningInv /\ HandleInapplicable => PruningInv'
<1> SUFFICES ASSUME PruningInv, HandleInapplicable PROVE PruningInv'
  OBVIOUS
<1>1. PICK q : q = Popped
  OBVIOUS
<1>2. /\ PruningTypeOK /\ KnownOK /\ TodoOK
      /\ variant = "ec" /\ variant' = variant /\ state' = state
      /\ disabled_todo' = disabled_todo /\ stage = "handle" /\ stage' = stage
      /\ q \in Op /\ Rest \in Seq(Op) /\ ~Applicable(state, q) /\ ApplyS5(q, Rest)
      /\ \A o : IsIn(o, stubborn_queue) => o = q \/ IsIn(o, Rest)
  BY <1>1, PoppedFacts DEF PruningInv, HandleInapplicable, Popping
<1>3. /\ stubborn \subseteq stubborn' /\ stubborn' \subseteq Op
      /\ stubborn_queue' \in Seq(Op)
      /\ \A o : IsIn(o, Rest) => IsIn(o, stubborn_queue')
      /\ \A o \in stubborn' : o \in stubborn \/ IsIn(o, stubborn_queue')
      /\ nes_computed' \subseteq Facts /\ KnownOK' /\ HasEnablingSet(q)'
  BY <1>2, ApplyS5Facts
<1>4. \A o, p : Waiting(o, p)' = Waiting(o, p)
  BY <1>2 DEF Waiting
<1>5. Closed(q)'
  BY <1>2, <1>3 DEF Closed
<1>6. PruningTypeOK' /\ TodoOK'
  BY <1>2, <1>3, <1>4 DEF PruningTypeOK, TodoOK
<1>7. /\ \A o : IsIn(o, stubborn_queue) => o \in {q} \/ IsIn(o, stubborn_queue')
      /\ \A o \in {q} : Closed(o)'
  BY <1>2, <1>3, <1>5
<1>8. \A o, p : Waiting(o, p) => p \in stubborn' \/ HasEnablingSet(p)' \/ Waiting(o, p)'
  BY <1>4
<1>9. Brings({q})
  BY <1>2, <1>3, <1>6, <1>7, <1>8 DEF Brings
<1> QED
  BY <1>9, BringsKeeps

\* A pair is handled: the operator is marked, or has a necessary enabling set.
LEMMA DisabledKeeps == PruningInv /\ HandleDisabled => PruningInv'
<1> SUFFICES ASSUME PruningInv, HandleDisabled PROVE PruningInv'
  OBVIOUS
<1>1. /\ PruningTypeOK /\ KnownOK /\ TodoOK
      /\ variant' = variant /\ state' = state
      /\ stage = "handle" /\ stage' = stage
      /\ disabled_todo \in Seq(Op \X Op) /\ disabled_todo # <<>>
      /\ disabled_todo' = Tail(disabled_todo)
      /\ stubborn_queue \in Seq(Op)
  BY DEF PruningInv, HandleDisabled, PruningTypeOK
<1>2. PICK o \in Op, p \in Op : Head(disabled_todo) = <<o, p>>
  BY <1>1, TailFacts
<1>3. /\ Tail(disabled_todo) \in Seq(Op \X Op)
      /\ \A x, y : Waiting(x, y) <=> <<x, y>> = <<o, p>> \/ IsIn(<<x, y>>, Tail(disabled_todo))
  BY <1>1, <1>2, TailFacts DEF Waiting
<1>4. \A x, y : Waiting(x, y)' <=> IsIn(<<x, y>>, Tail(disabled_todo))
  BY <1>1 DEF Waiting
<1>5. CanDisable(o, p)
  BY <1>1, <1>3 DEF TodoOK
<1>6. IF \E v \in DisabledVars(o, p) : IsVApplicable(v, p)
      THEN Mark({p}, stubborn_queue) /\ UNCHANGED nes_computed
      ELSE ApplyS5(p, stubborn_queue)
  <2>1. Head(disabled_todo)[1] = o /\ Head(disabled_todo)[2] = p
    BY <1>2
  <2> QED
    BY <2>1 DEF HandleDisabled
<1>7. /\ stubborn \subseteq stubborn' /\ stubborn' \subseteq Op
      /\ stubborn_queue' \in Seq(Op)
      /\ \A x : IsIn(x, stubborn_queue) => IsIn(x, stubborn_queue')
      /\ \A x \in stubborn' : x \in stubborn \/ IsIn(x, stubborn_queue')
      /\ nes_computed' \subseteq Facts /\ KnownOK'
      /\ p \in stubborn' \/ HasEnablingSet(p)'
  <2>1. CASE \E v \in DisabledVars(o, p) : IsVApplicable(v, p)
    <3>1. /\ stubborn' = stubborn \cup {p} /\ stubborn' \subseteq Op
          /\ stubborn_queue' \in Seq(Op)
          /\ \A x : IsIn(x, stubborn_queue) => IsIn(x, stubborn_queue')
          /\ \A x \in {p} : x \in stubborn \/ IsIn(x, stubborn_queue')
      BY <1>1, <1>6, <2>1, MarkFacts
    <3>2. nes_computed' = nes_computed
      BY <1>6, <2>1
    <3>3. KnownOK'
      BY <1>1, <3>1, <3>2, GuardedStays DEF KnownOK
    <3> QED
      BY <1>1, <3>1, <3>2, <3>3 DEF PruningTypeOK
  <2>2. CASE ~\E v \in DisabledVars(o, p) : IsVApplicable(v, p)
    <3>1. PICK v \in DisabledVars(o, p) : TRUE
      BY <1>5 DEF CanDisable, Conflicting, DisabledVars
    <3>2. ~IsVApplicable(v, p)
      BY <2>2, <3>1
    <3>3. ~Applicable(state, p)
      BY <3>2 DEF IsVApplicable, Applicable, Holds
    <3>4. variant = "ec"
      BY <1>1, <1>2, <1>3 DEF PruningInv, TodoOK
    <3> QED
      BY <1>1, <1>6, <2>2, <3>3, <3>4, ApplyS5Facts
  <2> QED
    BY <2>1, <2>2
<1>8. \A x, y : Waiting(x, y) => y \in stubborn' \/ HasEnablingSet(y)' \/ Waiting(x, y)'
  <2> SUFFICES ASSUME NEW x, NEW y, Waiting(x, y), ~Waiting(x, y)'
               PROVE  y \in stubborn' \/ HasEnablingSet(y)'
    OBVIOUS
  <2>1. <<x, y>> = <<o, p>>
    BY <1>3, <1>4
  <2>2. y = p
    BY <2>1
  <2> QED
    BY <1>7, <2>2
<1>9. PruningTypeOK' /\ TodoOK'
  <2>1. TodoOK'
    BY <1>1, <1>3, <1>4 DEF TodoOK
  <2> QED
    BY <1>1, <1>3, <1>7, <2>1 DEF PruningTypeOK
<1>10. Brings({})
  BY <1>1, <1>7, <1>8, <1>9 DEF Brings
<1> QED
  BY <1>10, BringsKeeps

LEMMA CompleteKeeps == PruningInv /\ SetComplete => PruningInv'
<1> SUFFICES ASSUME PruningInv, SetComplete PROVE PruningInv'
  OBVIOUS
<1>1. /\ UNCHANGED <<variant, state, stubborn, stubborn_queue, disabled_todo, nes_computed>>
      /\ stage = "handle" /\ stage' = "pruned"
      /\ stubborn_queue = <<>> /\ disabled_todo = <<>>
  BY DEF SetComplete
<1>2. \A f : Guarded(f)' = Guarded(f) /\ Usable(f)' = Usable(f)
  BY <1>1 DEF Guarded, Usable
<1>3. \A o, p : Waiting(o, p)' = Waiting(o, p)
  BY <1>1 DEF Waiting
<1>4. \A o : Closed(o)' = Closed(o)
  BY <1>1, <1>2, <1>3 DEF Closed, DisabledHandled, HasEnablingSet
<1>5. PruningTypeOK' /\ TodoOK' /\ KnownOK'
  BY <1>1, <1>2, <1>3 DEF PruningInv, PruningTypeOK, TodoOK, KnownOK
<1>6. GoalOK' /\ HandledOK' /\ EmptyOK'
  BY <1>1, <1>2, <1>4 DEF PruningInv, GoalOK, HandledOK, EmptyOK
<1> QED
  BY <1>5, <1>6 DEF PruningInv

\* A new call: the achievers of a goal that does not hold.
LEMMA PruneKeeps ==
  ASSUME PruningInv, NEW s \in Reachable \ GoalStates, PruneOperators(s)
  PROVE  PruningInv'
<1>1. PICK goal : goal = FirstUnsatisfied(s, Goal)
  OBVIOUS
<1>2. s \in State /\ goal \in Goal /\ s[goal[1]] # goal[2] /\ goal \in Facts
  <2>1. s \in State /\ ~Holds(s, Goal)
    BY DEF Reachable, GoalStates
  <2>2. Unsatisfied(s, Goal) # {} /\ Goal \subseteq Facts
    BY <2>1, TaskAssumption DEF Holds, Unsatisfied
  <2> QED
    BY <1>1, <2>1, <2>2, FirstUnsatisfiedFacts
<1>3. PICK ops : ops = IF variant = "ec" THEN Achievers(goal) \cap ActiveOps(s) ELSE Achievers(goal)
  OBVIOUS
<1>4. /\ stage # "handle" /\ stage' = "handle" /\ state' = s /\ stubborn' = ops
      /\ stubborn_queue' = Ascending(ops)
      /\ nes_computed' = IF variant = "ec" THEN {goal} ELSE {}
      /\ variant' = variant /\ disabled_todo' = disabled_todo
  BY <1>1, <1>3 DEF PruneOperators, KnownSets
<1>5. disabled_todo = <<>> /\ Len(<<>>) = 0
  BY <1>4 DEF PruningInv, EmptyOK
<1>6. ops \in SUBSET Op /\ Usable(goal)' = ops
  BY <1>3, <1>4 DEF Achievers, Usable
<1>7. Guarded(goal)'
  BY <1>2, <1>4, <1>6 DEF Guarded
<1>8. PICK t : t = Ascending(ops)
  OBVIOUS
<1>9. t \in Seq(ops) /\ \A o \in ops : IsIn(o, t)
  BY <1>6, <1>8, AscendingFacts DEF IsIn
<1>10. t \in Seq(Op)
  BY <1>6, <1>9
<1>11. PruningTypeOK'
  BY <1>2, <1>4, <1>6, <1>8, <1>10 DEF PruningInv, PruningTypeOK
<1>12. TodoOK' /\ EmptyOK'
  BY <1>4, <1>5 DEF TodoOK, EmptyOK, Waiting, IsIn
<1>13. KnownOK'
  BY <1>4, <1>6 DEF KnownOK
<1>14. GoalOK' /\ HandledOK'
  BY <1>2, <1>4, <1>7, <1>8, <1>9 DEF GoalOK, HandledOK
<1> QED
  BY <1>11, <1>12, <1>13, <1>14 DEF PruningInv

LEMMA PruningInvInit == PruningInit => PruningInv
<1> SUFFICES ASSUME PruningInit PROVE PruningInv
  OBVIOUS
<1>1. Len(<<>>) = 0 /\ <<>> \in Seq(Op) /\ <<>> \in Seq(Op \X Op)
  OBVIOUS
<1>2. PruningTypeOK
  BY <1>1, TaskAssumption DEF PruningInit, PruningTypeOK
<1>3. TodoOK /\ EmptyOK
  BY <1>1 DEF PruningInit, TodoOK, EmptyOK, Waiting, IsIn
<1>4. KnownOK /\ GoalOK /\ HandledOK
  BY DEF PruningInit, KnownOK, GoalOK, HandledOK
<1> QED
  BY <1>2, <1>3, <1>4 DEF PruningInv

LEMMA PruningInvNext == PruningInv /\ [PruningNext]_pruning_vars => PruningInv'
<1> SUFFICES ASSUME PruningInv, [PruningNext]_pruning_vars PROVE PruningInv'
  OBVIOUS
<1>1. CASE HandleSimple
  BY <1>1, SimpleKeeps
<1>2. CASE HandleApplicable
  BY <1>2, ApplicableKeeps
<1>3. CASE HandleInapplicable
  BY <1>3, InapplicableKeeps
<1>4. CASE HandleDisabled
  BY <1>4, DisabledKeeps
<1>5. CASE SetComplete
  BY <1>5, CompleteKeeps
<1>6. CASE \E s \in Reachable \ GoalStates : PruneOperators(s)
  BY <1>6, PruneKeeps
<1>7. CASE UNCHANGED pruning_vars
  <2>1. /\ UNCHANGED <<variant, state, stubborn, stubborn_queue, disabled_todo, nes_computed>>
        /\ stage' = stage
    BY <1>7 DEF pruning_vars
  <2>2. \A f : Guarded(f)' = Guarded(f) /\ Usable(f)' = Usable(f)
    BY <2>1 DEF Guarded, Usable
  <2>3. \A o, p : Waiting(o, p)' = Waiting(o, p)
    BY <2>1 DEF Waiting
  <2>4. \A o : Closed(o)' = Closed(o)
    BY <2>1, <2>2, <2>3 DEF Closed, DisabledHandled, HasEnablingSet
  <2>5. PruningTypeOK' /\ TodoOK' /\ KnownOK'
    BY <2>1, <2>2, <2>3 DEF PruningInv, PruningTypeOK, TodoOK, KnownOK
  <2>6. GoalOK' /\ HandledOK' /\ EmptyOK'
    BY <2>1, <2>2, <2>4 DEF PruningInv, GoalOK, HandledOK, EmptyOK
  <2> QED
    BY <2>5, <2>6 DEF PruningInv
<1> QED
  BY <1>1, <1>2, <1>3, <1>4, <1>5, <1>6, <1>7 DEF PruningNext, Handle

\* Whatever is taken from the stack is brought in order: afterwards what an
\* applicable operator interferes with is stubborn or cannot become applicable
\* before a stubborn operator is applied, and an inapplicable operator cannot
\* become so, either; some goal cannot be reached without the set
\* (prune_operators with either handle_stubborn_operator).
THEOREM StubbornInvariant == PruningSpec => []PruningInv
<1>1. PruningInit => PruningInv
  BY PruningInvInit
<1>2. PruningInv /\ [PruningNext]_pruning_vars => PruningInv'
  BY PruningInvNext
<1> QED
  BY <1>1, <1>2, PTL DEF PruningSpec

-----------------------------------------------------------------------------
(***************************************************************************)
(* Stubborn sets: paths that avoid the set                                 *)
(***************************************************************************)
\* The states such a path may lead to: no variable has a value that the
\* transition graphs exclude, and no guarded fact holds.
Outside ==
    {t \in State :
        /\ \A v \in Var : t[v] \in ReachableValues(v, state[v])
        /\ \A f \in Facts : Guarded(f) => t[f[1]] # f[2]}

LEMMA StartsOutside ==
  ASSUME PruningInv
  PROVE  state \in Outside
<1>1. state \in State
  BY DEF PruningInv, PruningTypeOK
<1>2. \A v \in Var : state[v] \in Domain[v]
  BY <1>1 DEF State
<1> QED
  BY <1>1, <1>2, ReachableValuesFacts DEF Outside, Guarded

\* What is applicable in such a state is active (rules out no operator of ec).
LEMMA ActiveOutside ==
  ASSUME PruningInv, NEW t \in Outside, NEW p \in Op, Applicable(t, p)
  PROVE  p \in ActiveOps(state)
<1> SUFFICES ASSUME NEW f \in Pre[p]
             PROVE  f[2] \in ReachabilityMap[f[1]][state[f[1]]]
  BY DEF ActiveOps
<1>1. f \in Facts /\ t[f[1]] = f[2]
  BY TaskAssumption DEF Applicable, Holds
<1>2. PICK v \in Var : v = f[1]
  BY <1>1, FactIsPair
<1>3. state \in State
  BY DEF PruningInv, PruningTypeOK
<1>4. state[v] \in Domain[v]
  BY <1>3 DEF State
<1>5. ReachabilityMap[v][state[v]] = ReachableValues(v, state[v])
  <2>1. ReachabilityMap[v] = [x \in Domain[v] |-> ReachableValues(v, x)]
    BY DEF ReachabilityMap
  <2> QED
    BY <1>4, <2>1
<1>6. t[v] \in ReachableValues(v, state[v])
  BY DEF Outside
<1> QED
  BY <1>1, <1>2, <1>5, <1>6

LEMMA StaysOutside ==
  ASSUME PruningInv, NEW t \in Outside, NEW p \in Op \ stubborn, Applicable(t, p)
  PROVE  Result(t, p) \in Outside
<1>1. PICK r : r = Result(t, p)
  OBVIOUS
<1>2. t \in State /\ r \in State /\ state \in State
  BY <1>1, ResultInState DEF Outside, PruningInv, PruningTypeOK
<1>3. ASSUME NEW v \in Var
      PROVE  r[v] \in ReachableValues(v, state[v])
  <2>1. t[v] \in ReachableValues(v, state[v])
    BY DEF Outside
  <2>2. CASE r[v] = t[v]
    BY <2>1, <2>2
  <2>3. CASE <<v, r[v]>> \in EffectFacts(p)
    <3>1. t[v] \in {y \in Domain[v] : \A f \in Pre[p] : f[1] = v => f[2] = y}
      <4>1. t[v] \in Domain[v]
        BY <1>2 DEF State
      <4>2. \A f \in Pre[p] : f[1] = v => f[2] = t[v]
        BY DEF Applicable, Holds
      <4> QED
        BY <4>1, <4>2
    <3>2. PICK f : f = <<v, r[v]>>
      OBVIOUS
    <3>3. f \in {g \in EffectFacts(p) : g[1] = v} /\ f[2] = r[v]
      BY <2>3, <3>2
    <3>4. <<t[v], f[2]>> \in TransitionGraph(v)
      BY <3>1, <3>3 DEF TransitionGraph
    <3>5. PICK a : a = <<t[v], r[v]>>
      OBVIOUS
    <3>6. a \in TransitionGraph(v) /\ a[1] = t[v] /\ a[2] = r[v]
      BY <3>3, <3>4, <3>5
    <3>7. state[v] \in Domain[v]
      BY <1>2 DEF State
    <3> QED
      BY <2>1, <3>6, <3>7, ReachableValuesFacts
  <2> QED
    BY <1>1, <2>2, <2>3, ValueSet
<1>4. ASSUME NEW f \in Facts, Guarded(f), r[f[1]] = f[2]
      PROVE  FALSE
  <2>1. t[f[1]] # f[2] /\ f = <<f[1], f[2]>> /\ f[1] \in Var
    BY <1>4, FactIsPair DEF Outside
  <2>2. <<f[1], r[f[1]]>> \in EffectFacts(p)
    BY <1>1, <1>4, <2>1, ValueSet
  <2>3. p \in Achievers(f)
    BY <1>4, <2>1, <2>2 DEF Achievers
  <2>4. p \in Usable(f)
    BY <2>3, ActiveOutside DEF Usable
  <2> QED
    BY <1>4, <2>4 DEF Guarded
<1> QED
  BY <1>1, <1>2, <1>3, <1>4 DEF Outside

\* No such state is a goal.
LEMMA NoGoalOutside ==
  ASSUME PruningInv, stage = "pruned"
  PROVE  \A t \in Outside : t \notin GoalStates
<1>1. PICK f \in Goal : Guarded(f)
  BY DEF PruningInv, GoalOK
<1>2. f \in Facts
  BY TaskAssumption
<1> QED
  BY <1>1, <1>2 DEF Outside, GoalStates, Holds

\* The operators outside the set form a graph in which no goal can be reached.
LEMMA MeetsTheSet == PruningInv => EveryPlanMeetsTheSet
<1> SUFFICES ASSUME PruningInv, stage = "pruned"
             PROVE  ShortestPaths(State, {<<p[1], Result(p[1], p[2]), 1>> :
                        p \in {q \in State \X (Op \ stubborn) : Applicable(q[1], q[2])}},
                        GoalStates)[state] = Infty
  BY DEF EveryPlanMeetsTheSet
<1> DEFINE A == {<<p[1], Result(p[1], p[2]), 1>> :
                    p \in {q \in State \X (Op \ stubborn) : Applicable(q[1], q[2])}}
           e == [s \in State |-> IF s \in Outside THEN Infty ELSE 0]
<1>1. ASSUME NEW a \in A
      PROVE  \E s \in State, p \in Op \ stubborn :
                Applicable(s, p) /\ a = <<s, Result(s, p), 1>>
  <2>1. PICK x \in {q \in State \X (Op \ stubborn) : Applicable(q[1], q[2])} :
          a = <<x[1], Result(x[1], x[2]), 1>>
    OBVIOUS
  <2> QED
    BY <2>1
<1> HIDE DEF A
<1>2. A \subseteq State \X State \X Nat
  <2> SUFFICES ASSUME NEW a \in A PROVE a \in State \X State \X Nat
    OBVIOUS
  <2>1. PICK s \in State, p \in Op \ stubborn : a = <<s, Result(s, p), 1>>
    BY <1>1
  <2> QED
    BY <2>1, ResultInState
<1>3. IsGraph(State, A, GoalStates)
  BY <1>2, TaskAssumption DEF IsGraph, GoalStates
<1>4. e \in [State -> Distances] /\ \A t \in GoalStates : e[t] = 0
  BY NoGoalOutside DEF Distances, GoalStates
<1>5. ASSUME NEW s \in State, NEW t \in State, NEW c \in Nat, <<s, t, c>> \in A
      PROVE  AtMost(e[s], Plus(c, e[t]))
  <2>1. PICK x \in State, p \in Op \ stubborn :
          Applicable(x, p) /\ <<s, t, c>> = <<x, Result(x, p), 1>>
    BY <1>1, <1>5
  <2>2. s \in Outside => t \in Outside
    BY <2>1, StaysOutside
  <2> QED
    BY <2>2, ZeroAtMost, <1>4, InftyAssumption DEF AtMost, Plus, Distances
<1>6. PICK d : d = ShortestPaths(State, A, GoalStates)
  OBVIOUS
<1>7. state \in State /\ e[state] = Infty
  BY StartsOutside DEF Outside
<1>8. AtMost(e[state], d[state])
  <2> HIDE DEF e
  <2> QED
    BY <1>3, <1>4, <1>5, <1>6, <1>7, LowerBound
<1>9. d[state] = Infty
  BY <1>7, <1>8 DEF AtMost
<1> QED
  BY <1>6, <1>9 DEF A

\* For every task and state: no goal can be reached with the operators outside
\* the set alone, so every plan contains one of its operators (the achievers of
\* an unsatisfied goal, initialize_stubborn_set of both variants).
THEOREM PlansMeetTheSet == PruningSpec => []EveryPlanMeetsTheSet
  BY StubbornInvariant, MeetsTheSet, PTL

-----------------------------------------------------------------------------
(***************************************************************************)
(* Stubborn sets: a cheapest plan can begin with a stubborn operator       *)
(***************************************************************************)
\* The states above from which the remaining operators can be applied.
Open == {t \in Outside : \A o \in Remaining : Applicable(t, o)}

\* A remaining operator and one that is left out can be exchanged.
LEMMA RemainingIsIndependent ==
  ASSUME PruningInv, stage = "pruned", NEW o \in Remaining, NEW t \in Outside,
         NEW p \in Op \ stubborn, Applicable(t, p)
  PROVE  Independent(o, p) /\ o # p /\ o \in Op
<1>1. o \in Op /\ o \in stubborn /\ Applicable(state, o) /\ o # p
  BY DEF Remaining
<1>2. stubborn_queue = <<>> /\ disabled_todo = <<>> /\ Len(<<>>) = 0
  BY DEF PruningInv, EmptyOK
<1>3. ~IsIn(o, stubborn_queue) /\ \A x, y : ~Waiting(x, y)
  BY <1>2 DEF IsIn, Waiting
<1>4. Closed(o)
  BY <1>1, <1>3 DEF PruningInv, HandledOK
<1>5. variant \in {"simple", "ec"}
  BY VariantsAssumption DEF PruningInv, PruningTypeOK
<1>6. CASE variant = "simple"
  <2>1. p \notin Interfering(o)
    BY <1>1, <1>4, <1>6 DEF Closed
  <2> QED
    BY <1>1, <2>1 DEF Interfering, Independent
<1>7. CASE variant = "ec"
  <2>1. p \in ActiveOps(state)
    BY ActiveOutside
  <2>2. p \notin ConflictingAndDisabling(o) /\ DisabledHandled(o)
    BY <1>1, <1>4, <1>7, <2>1 DEF Closed
  <2>3. ~CanConflict(o, p) /\ ~CanDisable(p, o)
    BY <1>1, <2>2 DEF ConflictingAndDisabling
  <2>4. ASSUME CanDisable(o, p) PROVE FALSE
    <3>1. p \in Disabled(o) \cap ActiveOps(state)
      BY <1>1, <2>1, <2>4 DEF Disabled
    <3>2. HasEnablingSet(p)
      BY <1>3, <2>2, <3>1 DEF DisabledHandled
    <3>3. PICK f \in Pre[p] : Guarded(f)
      BY <3>2 DEF HasEnablingSet
    <3>4. f \in Facts
      BY TaskAssumption
    <3> QED
      BY <3>3, <3>4 DEF Outside, Applicable, Holds
  <2> QED
    BY <1>1, <2>3, <2>4 DEF Independent
<1> QED
  BY <1>5, <1>6, <1>7

\* A stubborn operator that can be applied later can be applied at once.
LEMMA StubbornIsRemaining ==
  ASSUME PruningInv, stage = "pruned", NEW p \in stubborn, NEW t \in Outside, Applicable(t, p)
  PROVE  p \in Remaining
<1>1. p \in Op
  BY DEF PruningInv, PruningTypeOK
<1>2. stubborn_queue = <<>> /\ Len(<<>>) = 0
  BY DEF PruningInv, EmptyOK
<1>3. Closed(p)
  BY <1>2 DEF PruningInv, HandledOK, IsIn
<1>4. ASSUME ~Applicable(state, p) PROVE FALSE
  <2>1. PICK f \in Pre[p] : Guarded(f)
    BY <1>3, <1>4 DEF Closed, HasEnablingSet
  <2>2. f \in Facts
    BY <1>1, TaskAssumption
  <2> QED
    BY <2>1, <2>2 DEF Outside, Applicable, Holds
<1> QED
  BY <1>1, <1>4 DEF Remaining

LEMMA StaysOpen ==
  ASSUME PruningInv, stage = "pruned", ConflictsAreFound,
         NEW t \in Open, NEW p \in Op \ stubborn, Applicable(t, p)
  PROVE  Result(t, p) \in Open
<1>1. t \in Outside /\ Result(t, p) \in Outside
  BY StaysOutside DEF Open
<1>2. ASSUME NEW o \in Remaining PROVE Applicable(Result(t, p), o)
  <2>1. Independent(o, p) /\ o # p /\ o \in Op
    BY <1>1, RemainingIsIndependent
  <2>2. Applicable(t, o)
    BY DEF Open
  <2> QED
    BY <2>1, <2>2, NotDisabled
<1> QED
  BY <1>1, <1>2 DEF Open

\* Both orders of a remaining operator and one left out lead to the same state.
LEMMA Exchange ==
  ASSUME PruningInv, stage = "pruned", InterferenceIsFound,
         NEW o \in Remaining, NEW t \in Open, NEW p \in Op \ stubborn, Applicable(t, p)
  PROVE  /\ Applicable(Result(t, p), o) /\ Applicable(Result(t, o), p)
         /\ Result(Result(t, p), o) = Result(Result(t, o), p)
<1>1. t \in Outside /\ t \in State /\ Applicable(t, o)
  BY DEF Open, Outside
<1>2. Independent(o, p) /\ o # p /\ o \in Op
  BY <1>1, RemainingIsIndependent
<1> QED
  BY <1>1, <1>2, Commute

LEMMA StartsOpen ==
  ASSUME PruningInv
  PROVE  state \in Open
BY StartsOutside DEF Open, Remaining

LEMMA CommutesInSet == InterferenceIsFound /\ PruningInv => CommutesWithRest
<1> SUFFICES ASSUME InterferenceIsFound, PruningInv, stage = "pruned",
                    NEW o \in Remaining, NEW p \in Op \ stubborn, Applicable(state, p)
             PROVE  /\ Applicable(Result(state, p), o) /\ Applicable(Result(state, o), p)
                    /\ Result(Result(state, p), o) = Result(Result(state, o), p)
  BY DEF CommutesWithRest
<1> QED
  BY StartsOpen, Exchange

\* If the interference relations miss no conflict (which they do not if an
\* operator has one effect on a variable at most, OneEffectIsCompared) and no
\* effect depends on what an operator writes that does not interfere with it
\* (which is so if effects have no conditions), a remaining operator and an
\* applicable one that is pruned can be exchanged (the relations of
\* compute_interference_relation, and rules S2 to S4' of the ec variant).
THEOREM RemainingCommutes ==
  ASSUME InterferenceIsFound
  PROVE  PruningSpec => []CommutesWithRest
<1>1. PruningInv => CommutesWithRest
  BY CommutesInSet
<1> QED
  BY <1>1, StubbornInvariant, PTL

\* A state from which a target can be reached, and which is none, has an arc
\* on a cheapest path.
LEMMA TightArc ==
  ASSUME NEW S, NEW A, NEW T, IsGraph(S, A, T), NEW d, d = ShortestPaths(S, A, T),
         NEW s \in S, s \notin T, d[s] # Infty
  PROVE  \E t \in S, c \in Nat :
            <<s, t, c>> \in A /\ d[t] \in Nat /\ d[s] \in Nat /\ d[s] = c + d[t]
<1>1. /\ d \in [S -> Distances] /\ \A t \in T : d[t] = 0
      /\ \A x, t \in S, c \in Nat : <<x, t, c>> \in A => AtMost(d[x], Plus(c, d[t]))
  BY DistanceFacts
<1>2. d[s] \in Nat
  BY <1>1 DEF Distances
<1> SUFFICES ASSUME \A t \in S, c \in Nat :
                       <<s, t, c>> \in A /\ d[t] \in Nat => d[s] # c + d[t]
             PROVE  FALSE
  BY <1>2
<1> DEFINE e == [x \in S |-> IF x = s THEN d[s] + 1 ELSE d[x]]
<1>3. e \in [S -> Distances] /\ \A t \in T : e[t] = 0
  BY <1>1, <1>2 DEF Distances, IsGraph
<1>4. ASSUME NEW x \in S, NEW t \in S, NEW c \in Nat, <<x, t, c>> \in A
      PROVE  AtMost(e[x], Plus(c, e[t]))
  <2>1. AtMost(d[x], Plus(c, d[t])) /\ d[x] \in Distances /\ d[t] \in Distances
    BY <1>1, <1>4
  <2>2. e[t] = d[t] \/ (e[t] = d[t] + 1 /\ d[t] \in Nat)
    BY <1>2
  <2>3. CASE x = s
    <3>1. e[x] = d[s] + 1 /\ e[x] \in Nat
      BY <1>2, <2>3
    <3>2. CASE d[t] = Infty
      <4>1. Plus(c, e[t]) = Infty
        BY <2>2, <3>2, InftyAssumption DEF Plus
      <4> QED
        BY <4>1 DEF AtMost
    <3>3. CASE d[t] \in Nat
      <4>1. d[s] # c + d[t] /\ Plus(c, d[t]) = c + d[t]
        BY <1>4, <2>3, <3>3, InftyAssumption DEF Plus
      <4>2. d[s] <= c + d[t]
        BY <2>1, <2>3, <3>3, <4>1, InftyAssumption DEF AtMost
      <4>3. e[t] \in Nat /\ d[t] <= e[t]
        BY <2>2, <3>3
      <4>4. Plus(c, e[t]) = c + e[t] /\ e[x] <= c + e[t]
        BY <1>2, <3>1, <3>3, <4>1, <4>2, <4>3, InftyAssumption DEF Plus
      <4> QED
        BY <3>1, <4>4, InftyAssumption DEF AtMost
    <3> QED
      BY <2>1, <3>2, <3>3 DEF Distances
  <2>4. CASE x # s
    <3>1. e[x] = d[x]
      BY <2>4
    <3>2. CASE d[t] = Infty
      <4>1. Plus(c, e[t]) = Infty
        BY <2>2, <3>2, InftyAssumption DEF Plus
      <4> QED
        BY <4>1 DEF AtMost
    <3>3. CASE d[t] \in Nat
      <4>1. e[t] \in Nat /\ d[t] <= e[t]
        BY <2>2, <3>3
      <4>2. d[x] \in Nat /\ d[x] <= c + d[t]
        BY <2>1, <3>3, InftyAssumption DEF AtMost, Plus, Distances
      <4>3. Plus(c, e[t]) = c + e[t] /\ d[x] <= c + e[t]
        BY <3>3, <4>1, <4>2, InftyAssumption DEF Plus
      <4> QED
        BY <3>1, <4>2, <4>3, InftyAssumption DEF AtMost
    <3> QED
      BY <2>1, <3>2, <3>3 DEF Distances
  <2> QED
    BY <2>3, <2>4
<1>5. e[s] = d[s] + 1
  OBVIOUS
<1> HIDE DEF e
<1>6. AtMost(e[s], d[s])
  BY <1>3, <1>4, LowerBound
<1>7. d[s] + 1 <= d[s]
  BY <1>2, <1>5, <1>6, InftyAssumption DEF AtMost
<1> QED
  BY <1>2, <1>7

\* The length of a step, as PlanLength counts it.
Length(o) == Steps * Cost[o] + 1

LEMMA LengthFacts ==
  /\ \A o \in Op : Length(o) \in Nat /\ Length(o) > 0
  /\ PlanLength \in [State -> Distances]
  /\ \A s \in State, o \in Op : Applicable(s, o) =>
        AtMost(PlanLength[s], Plus(Length(o), PlanLength[Result(s, o)]))
  /\ \A s \in State : s \notin GoalStates /\ PlanLength[s] # Infty =>
        \E o \in Op : /\ Applicable(s, o) /\ PlanLength[s] \in Nat
                      /\ PlanLength[Result(s, o)] \in Nat
                      /\ PlanLength[s] = Length(o) + PlanLength[Result(s, o)]
<1> DEFINE A == {<<a[1], a[2], Steps * a[3] + 1>> : a \in RealArcs}
<1>1. \A o \in Op : Length(o) \in Nat /\ Length(o) > 0
  BY TaskAssumption DEF Length, Steps
<1>2. PICK d : d = PlanLength
  OBVIOUS
<1>3. d = ShortestPaths(State, A, GoalStates)
  BY <1>2 DEF PlanLength
<1>4. ASSUME NEW x \in A
      PROVE  \E s \in State, o \in Op : Applicable(s, o) /\ x = <<s, Result(s, o), Length(o)>>
  <2>1. PICK a \in RealArcs : x = <<a[1], a[2], Steps * a[3] + 1>>
    OBVIOUS
  <2>2. PICK p \in {q \in State \X Op : Applicable(q[1], q[2])} :
          a = <<p[1], Result(p[1], p[2]), Cost[p[2]]>>
    BY DEF RealArcs
  <2> QED
    BY <2>1, <2>2 DEF Length
<1>5. ASSUME NEW s \in State, NEW o \in Op, Applicable(s, o)
      PROVE  <<s, Result(s, o), Length(o)>> \in A
  <2>1. PICK a : a = <<s, Result(s, o), Cost[o]>>
    OBVIOUS
  <2>2. a \in RealArcs
    BY <1>5, <2>1, RealGraph
  <2>3. <<a[1], a[2], Steps * a[3] + 1>> \in A
    BY <2>2
  <2> QED
    BY <2>1, <2>3 DEF Length
<1> HIDE DEF A
<1>6. A \subseteq State \X State \X Nat
  <2> SUFFICES ASSUME NEW x \in A PROVE x \in State \X State \X Nat
    OBVIOUS
  <2>1. PICK s \in State, o \in Op : x = <<s, Result(s, o), Length(o)>>
    BY <1>4
  <2> QED
    BY <1>1, <2>1, ResultInState
<1>7. IsGraph(State, A, GoalStates)
  BY <1>6, TaskAssumption DEF IsGraph, GoalStates
<1>8. /\ d \in [State -> Distances]
      /\ \A s, t \in State, c \in Nat : <<s, t, c>> \in A => AtMost(d[s], Plus(c, d[t]))
  BY <1>3, <1>7, DistanceFacts
<1>9. ASSUME NEW s \in State, NEW o \in Op, Applicable(s, o)
      PROVE  AtMost(d[s], Plus(Length(o), d[Result(s, o)]))
  <2>1. Result(s, o) \in State /\ Length(o) \in Nat
    BY <1>1, ResultInState
  <2>2. <<s, Result(s, o), Length(o)>> \in A
    BY <1>5, <1>9
  <2> QED
    BY <1>8, <2>1, <2>2
<1>10. ASSUME NEW s \in State, s \notin GoalStates, d[s] # Infty
       PROVE  \E o \in Op : /\ Applicable(s, o) /\ d[s] \in Nat
                            /\ d[Result(s, o)] \in Nat
                            /\ d[s] = Length(o) + d[Result(s, o)]
  <2>1. PICK t \in State, c \in Nat :
          <<s, t, c>> \in A /\ d[t] \in Nat /\ d[s] \in Nat /\ d[s] = c + d[t]
    BY <1>3, <1>7, <1>10, TightArc
  <2>2. PICK x \in State, o \in Op :
          Applicable(x, o) /\ <<s, t, c>> = <<x, Result(x, o), Length(o)>>
    BY <1>4, <2>1
  <2>3. s = x /\ t = Result(x, o) /\ c = Length(o)
    BY <2>2
  <2> QED
    BY <2>1, <2>2, <2>3
<1> QED
  BY <1>1, <1>2, <1>8, <1>9, <1>10

\* A remaining operator that begins a cheapest plan.
Begins(o, t) == PlanLength[t] = Plus(Length(o), PlanLength[Result(t, o)])

\* If one begins a cheapest plan after another operator has been applied, it
\* does so before, too.
LEMMA BeginsBefore ==
  ASSUME PruningInv, stage = "pruned", InterferenceIsFound,
         NEW t \in Open, NEW p \in Op \ stubborn, Applicable(t, p), NEW o \in Remaining,
         Begins(o, Result(t, p)), PlanLength[t] \in Nat, PlanLength[Result(t, p)] \in Nat,
         PlanLength[t] = Length(p) + PlanLength[Result(t, p)]
  PROVE  Begins(o, t)
<1>1. PICK u, x, y : u = Result(t, p) /\ x = Result(t, o) /\ y = Result(u, o)
  OBVIOUS
<1>2. Applicable(u, o) /\ Applicable(x, p) /\ y = Result(x, p)
  BY <1>1, Exchange
<1>3. o \in Op /\ Applicable(t, o) /\ t \in State
  BY DEF Open, Outside, Remaining
<1>4. u \in State /\ x \in State /\ y \in State
  BY <1>1, <1>3, ResultInState
<1>5. PICK d : d = PlanLength
  OBVIOUS
<1>6. PICK lo \in Nat, lp \in Nat : lo = Length(o) /\ lp = Length(p)
  BY <1>3, LengthFacts
<1>7. /\ d[x] \in Distances /\ d[y] \in Distances
      /\ AtMost(d[t], Plus(lo, d[x])) /\ AtMost(d[x], Plus(lp, d[y]))
  BY <1>1, <1>2, <1>3, <1>4, <1>5, <1>6, LengthFacts
<1>8. d[u] = Plus(lo, d[y]) /\ d[u] \in Nat /\ d[t] \in Nat /\ d[t] = lp + d[u]
  BY <1>1, <1>5, <1>6 DEF Begins
<1>9. d[y] \in Nat /\ d[u] = lo + d[y]
  BY <1>7, <1>8, InftyAssumption DEF Plus, Distances
<1>10. d[x] \in Nat /\ d[x] <= lp + d[y]
  BY <1>7, <1>9, InftyAssumption DEF AtMost, Plus, Distances
<1>11. d[t] <= lo + d[x] /\ Plus(lo, d[x]) = lo + d[x]
  BY <1>7, <1>8, <1>10, InftyAssumption DEF AtMost, Plus
<1>12. d[t] = lo + d[x]
  BY <1>8, <1>9, <1>10, <1>11
<1> QED
  BY <1>1, <1>5, <1>6, <1>11, <1>12 DEF Begins

LEMMA SomeRemainingBegins ==
  ASSUME PruningInv, stage = "pruned", InterferenceIsFound, NEW t \in Open,
         PlanLength[t] # Infty
  PROVE  \E o \in Remaining : Begins(o, t)
<1> DEFINE Bad == {s \in Open : PlanLength[s] \in Nat /\ ~\E o \in Remaining : Begins(o, s)}
           K == {PlanLength[s] : s \in Bad}
<1>1. \A s \in Open : s \in Outside /\ s \in State /\ s \notin GoalStates
  BY NoGoalOutside DEF Open, Outside
<1>2. Bad = {}
  <2> SUFFICES ASSUME Bad # {} PROVE FALSE
    OBVIOUS
  <2>1. PICK k \in K : \A m \in K : k <= m
    <3>1. K \in SUBSET Nat /\ K # {}
      OBVIOUS
    <3> HIDE DEF K
    <3> QED
      BY <3>1, LeastNumber
  <2>2. PICK s \in Bad : \A r \in Bad : PlanLength[s] <= PlanLength[r]
    BY <2>1
  <2>3. PlanLength[s] \in Nat /\ PlanLength[s] # Infty /\ s \in Open
    BY InftyAssumption
  <2>4. PICK p \in Op : /\ Applicable(s, p) /\ PlanLength[Result(s, p)] \in Nat
                        /\ PlanLength[s] = Length(p) + PlanLength[Result(s, p)]
    BY <1>1, <2>3, LengthFacts
  <2>5. CASE p \in stubborn
    <3>1. p \in Remaining
      BY <1>1, <2>3, <2>4, <2>5, StubbornIsRemaining
    <3>2. Plus(Length(p), PlanLength[Result(s, p)]) = Length(p) + PlanLength[Result(s, p)]
      <4>1. Length(p) \in Nat
        BY LengthFacts
      <4> QED
        BY <2>4, <4>1, InftyAssumption DEF Plus
    <3>3. Begins(p, s)
      BY <2>4, <3>2 DEF Begins
    <3> QED
      BY <3>1, <3>3
  <2>6. CASE p \notin stubborn
    <3>1. Result(s, p) \in Open
      BY <2>3, <2>4, <2>6, StaysOpen DEF InterferenceIsFound
    <3>2. ~(PlanLength[s] <= PlanLength[Result(s, p)])
      <4>1. Length(p) \in Nat /\ Length(p) > 0
        BY LengthFacts
      <4> QED
        BY <2>3, <2>4, <4>1
    <3>3. Result(s, p) \notin Bad
      BY <2>2, <3>2
    <3>4. PICK o \in Remaining : Begins(o, Result(s, p))
      BY <2>4, <3>1, <3>3
    <3>5. Begins(o, s)
      BY <2>3, <2>4, <2>6, <3>4, BeginsBefore
    <3> QED
      BY <3>5
  <2> QED
    BY <2>5, <2>6
<1>3. PlanLength[t] \in Nat
  BY <1>1, LengthFacts DEF Distances
<1> QED
  BY <1>2, <1>3

LEMMA PlanIsKept == InterferenceIsFound /\ PruningInv => KeepsAPlan
<1> SUFFICES ASSUME InterferenceIsFound, PruningInv, stage = "pruned",
                    PlanLength[state] # Infty
             PROVE  \E o \in Remaining :
                       PlanLength[state] = Plus(Steps * Cost[o] + 1, PlanLength[Result(state, o)])
  BY DEF KeepsAPlan
<1> QED
  BY StartsOpen, SomeRemainingBegins DEF Begins, Length

\* Under the same conditions, after pruning one of the remaining operators
\* begins a cheapest plan with the fewest steps, for every task and both
\* variants, in every state the search may ask about ("completeness and
\* optimality of the overall search is preserved", stubborn_sets_simple.cc:92).
\* The two conditions are what the code leaves out: StubbornSetsSwitch.cfg and
\* StubbornSetsConditional.cfg find a pruned plan where one of them is not met.
THEOREM PlanKept ==
  ASSUME InterferenceIsFound
  PROVE  PruningSpec => []KeepsAPlan
<1>1. PruningInv => KeepsAPlan
  BY PlanIsKept
<1> QED
  BY <1>1, StubbornInvariant, PTL
=============================================================================
