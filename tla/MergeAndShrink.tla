--------------------------- MODULE MergeAndShrink ---------------------------
(***************************************************************************)
(* The construction of a merge-and-shrink heuristic (src/src/search/       *)
(* merge_and_shrink): the main loop of merge_and_shrink_heuristic.cc over  *)
(* the factors of factored_transition_system.cc, with label reduction      *)
(* (label_reduction.cc), shrinking and pruning (utils.cc), the distances   *)
(* kept with a factor (distances.cc) and its lookup tables                 *)
(* (merge_and_shrink_representation.cc).                                   *)
(*                                                                         *)
(* A label is the set of operators it stands for.  An abstract state keeps *)
(* the name of one of the states it was made of; the lookup tables are     *)
(* composed to one function of the concrete state.  The merge strategy     *)
(* picks any pair, the time limit may strike at every check of the timer.  *)
(***************************************************************************)
EXTENDS FiniteDomainTask, Sequences, Functions, SequencesExt

CONSTANTS
    Configurations,   \* the options, as records
    Pruned            \* PRUNED_STATE

ASSUME ConfigurationsAssumption ==
    \A c \in Configurations :
        /\ c.label_reduction_at \subseteq {"reduce_before_shrinking", "reduce_before_merging"}
        /\ DOMAIN c.system_order = 1..(2 * Cardinality(Var) - 1)
        /\ Range(c.system_order) = DOMAIN c.system_order

ASSUME PrunedAssumption == \A v \in Var : Pruned \notin Domain[v]

ASSUME InftyAssumption == Infty \notin Nat

VARIABLES
    config,
    labels,        \* the current labels
    fts,           \* the factors, in the order of their creation
    active,        \* the indices of those that have not been merged
    phase,
    merge_indices,
    position,      \* the index of a loop over factors
    unsuccessful,  \* num_unsuccessful_iterations of the label reduction
    final,         \* the factor extracted in the end, 0 before
    late,          \* timer() > max_time has been seen
    valid,         \* max_valid_factor_index: factors before it are created
    exact          \* only exact bisimulations have been used for shrinking

creation == <<late, valid>>
vars == <<config, labels, fts, active, phase, merge_indices, position,
          unsuccessful, final, late, valid, exact>>

-----------------------------------------------------------------------------
(***************************************************************************)
(* Distances                                                               *)
(***************************************************************************)
LabelCost(l) == Cost[CHOOSE o \in l : TRUE]

ArcsOf(f, L) == UNION {{<<p[1], p[2], LabelCost(l)>> : p \in f.trans[l]} : l \in L}

GoalDistances(f, L) == ShortestPaths(f.states, ArcsOf(f, L), f.goals)
InitDistances(f, L) == ShortestPaths(f.states, Turned(ArcsOf(f, L)), {f.init})

\* compute_goal_distances and compute_init_distances of build()
NeedGoalDistances == config.prune_irrelevant \/ config.shrink = "bisimulation"
NeedInitDistances == config.prune_unreachable

NotComputed == <<>>
Merged == <<>>        \* a factor that has been moved from

\* Only the distances that will be needed are kept.
SetDistances(f, goal_dist, init_dist) ==
    [f EXCEPT !.goal_dist = IF NeedGoalDistances THEN goal_dist ELSE NotComputed,
              !.init_dist = IF NeedInitDistances THEN init_dist ELSE NotComputed]

\* compute_distances
WithDistances(f, L) == SetDistances(f, GoalDistances(f, L), InitDistances(f, L))

-----------------------------------------------------------------------------
(***************************************************************************)
(* Operations on factors                                                   *)
(***************************************************************************)
\* The ways to distribute the states of S, one after the other, among classes.
Distributions(S) ==
    LET extend(x, Ps) == UNION {{P \cup {{x}}} \cup {(P \ {B}) \cup {B \cup {x}} : B \in P} :
                                P \in Ps}
    IN  FoldSet(extend, {{}}, S)

Partitions(S) ==
    {P \in Distributions(S) : UNION P = S /\ \A B, C \in P : B # C => B \cap C = {}}

\* compute_abstraction_mapping: a state in no class is pruned.
Mapping(states, classes) ==
    [s \in states |-> IF \E B \in classes : s \in B
                      THEN CHOOSE t \in CHOOSE B \in classes : s \in B : TRUE
                      ELSE Pruned]

\* Mutant: only whether distances are equal within a class counts for goals.
Preserved_Goal(f, classes) ==
    \A B \in classes : \A s, t \in B : NeedGoalDistances => f.goal_dist[s] = f.goal_dist[t]

\* Distances::apply_abstraction: distances are kept if those of the states
\* of each class agree.
Preserved(f, classes) ==
    \A B \in classes : \A s, t \in B :
        /\ NeedGoalDistances => f.goal_dist[s] = f.goal_dist[t]
        /\ NeedInitDistances => f.init_dist[s] = f.init_dist[t]

\* Mutant: a class with a state that is no goal is no goal.
AbstractGoals_All(f, m) == {m[s] : s \in f.goals} \ ({m[s] : s \in f.states \ f.goals} \cup {Pruned})

\* A class is a goal state if one of its states is.
AbstractGoals(f, m) == {m[s] : s \in f.goals} \ {Pruned}

\* apply_abstraction of transition system, distances and lookup table.
Abstracted(f, classes) ==
    LET m == Mapping(f.states, classes)
        image == [states |-> {m[s] : s \in f.states} \ {Pruned},
                  init |-> m[f.init],
                  goals |-> AbstractGoals(f, m),
                  trans |-> [l \in labels |->
                      {<<m[p[1]], m[p[2]]>> :
                          p \in {q \in f.trans[l] : m[q[1]] # Pruned /\ m[q[2]] # Pruned}}],
                  alpha |-> [s \in State |-> IF f.alpha[s] = Pruned THEN Pruned
                                             ELSE m[f.alpha[s]]],
                  goal_dist |-> NotComputed,
                  init_dist |-> NotComputed]
    IN  IF Cardinality(classes) = Cardinality(f.states) THEN f
        ELSE IF Preserved(f, classes)
        THEN SetDistances(image, [s \in image.states |-> f.goal_dist[s]],
                                 [s \in image.states |-> f.init_dist[s]])
        ELSE WithDistances(image, labels)

\* TransitionSystem::merge and MergeAndShrinkRepresentationMerge
Product(f, g) ==
    WithDistances(
        [states |-> f.states \X g.states,
         init |-> <<f.init, g.init>>,
         goals |-> f.goals \X g.goals,
         trans |-> [l \in labels |-> {<<<<p[1], q[1]>>, <<p[2], q[2]>>>> :
                                         p \in f.trans[l], q \in g.trans[l]}],
         alpha |-> [s \in State |-> IF f.alpha[s] = Pruned \/ g.alpha[s] = Pruned
                                    THEN Pruned ELSE <<f.alpha[s], g.alpha[s]>>],
         goal_dist |-> NotComputed,
         init_dist |-> NotComputed],
        labels)

Irrelevant(f) ==
    {s \in f.states : config.prune_irrelevant /\ f.goal_dist[s] = Infty}
Unreachable(f) ==
    {s \in f.states : config.prune_unreachable /\ f.init_dist[s] = Infty}

\* compute_pruning_equivalence_relation
PruningClasses(f) ==
    LET dead == Irrelevant(f) \cup Unreachable(f)
        kept == {{s} : s \in f.states \ dead}
    IN  IF config.pruning_as_abstraction
        THEN kept \cup ({Irrelevant(f), Unreachable(f) \ Irrelevant(f)} \ {{}})
        ELSE kept

\* prune_step
PruneStep(f) ==
    IF config.prune_irrelevant \/ config.prune_unreachable
    THEN Abstracted(f, PruningClasses(f))
    ELSE f

\* is_solvable
IsSolvable(f) ==
    /\ f.init # Pruned
    /\ NeedGoalDistances => f.goal_dist[f.init] # Infty

-----------------------------------------------------------------------------
(***************************************************************************)
(* Shrinking                                                               *)
(***************************************************************************)
Root(n) == CHOOSE k \in 0..n : k * k <= n /\ (k + 1) * (k + 1) > n

Smaller(m, n) == IF m < n THEN m ELSE n

\* compute_shrink_sizes
ShrinkSizes(size1, size2) ==
    LET s1 == Smaller(size1, config.max_states_before_merge)
        s2 == Smaller(size2, config.max_states_before_merge)
        balanced == Root(config.max_states)
    IN  IF s1 * s2 <= config.max_states THEN <<s1, s2>>
        ELSE IF s1 <= balanced THEN <<s1, config.max_states \div s1>>
        ELSE IF s2 <= balanced THEN <<config.max_states \div s2, s2>>
        ELSE <<balanced, balanced>>

\* What initialize_groups never puts together.
SameHValue(f, s, t) ==
    /\ f.goal_dist[s] = f.goal_dist[t]
    /\ s \in f.goals <=> t \in f.goals

\* The equivalence relations a shrink strategy may compute: shrink_random
\* combines states until the target is met; bisimulation may exceed it
\* (issue250), since it never combines states of different h values.
Equivalences(f, target) ==
    LET HGroups == {{t \in f.states : SameHValue(f, s, t)} : s \in f.states}
        n == Cardinality(f.states)
    IN  IF config.shrink = "random"
        THEN {P \in Partitions(f.states) : Cardinality(P) = Smaller(target, n)}
        ELSE {P \in Partitions(f.states) :
                 /\ \A B \in P : \E H \in HGroups : B \subseteq H
                 /\ \/ Cardinality(P) <= target
                    \/ P = HGroups}

\* The states of a class are goals or none is, and they have transitions of the
\* same labels to the same classes: no state counts as potentially
\* miss-qualified.
IsBisimulation(f, P) ==
    LET Successors(s, l) == {B \in P : \E t \in B : <<s, t>> \in f.trans[l]}
    IN  \A B \in P : \A s, t \in B :
            /\ s \in f.goals <=> t \in f.goals
            /\ \A l \in labels : Successors(s, l) = Successors(t, l)

\* shrink_factor: the results of shrinking a factor.
Shrunk(f, target) ==
    IF Cardinality(f.states) > Smaller(target, config.threshold)
    THEN Equivalences(f, target)
    ELSE {{{s} : s \in f.states}}

-----------------------------------------------------------------------------
(***************************************************************************)
(* Label reduction                                                         *)
(***************************************************************************)
\* Mutant: the costs are not compared.
Combinable_AnyCost(i, k, l) == \A j \in active \ {i} : fts[j].trans[k] = fts[j].trans[l]

\* compute_combinable_equivalence_relation, and equal costs.
Combinable(i, k, l) ==
    /\ LabelCost(k) = LabelCost(l)
    /\ \A j \in active \ {i} : fts[j].trans[k] = fts[j].trans[l]

\* compute_label_mapping: the sets of labels to be replaced by one.
LabelMapping(i) ==
    {K \in {{k \in labels : Combinable(i, k, l)} : l \in labels} : Cardinality(K) > 1}

OldLabels(l) == {k \in labels : k \subseteq l}

\* Mutant: the factor's own transitions of the other labels are forgotten.
ReducedTrans_OneLabel(f, own, l) == f.trans[CHOOSE k \in OldLabels(l) : TRUE]

\* apply_label_reduction: in the factor itself the transitions of the labels
\* are united, in the others they are the same.
ReducedTrans(f, own, l) ==
    IF own THEN UNION {f.trans[k] : k \in OldLabels(l)}
    ELSE f.trans[CHOOSE k \in OldLabels(l) : TRUE]

NewLabels(i) ==
    (labels \ UNION LabelMapping(i)) \cup {UNION K : K \in LabelMapping(i)}

\* apply_label_mapping
Reduce(i) ==
    /\ labels' = NewLabels(i)
    /\ fts' = [j \in DOMAIN fts |->
          IF j \in active
          THEN [fts[j] EXCEPT !.trans =
                   [l \in NewLabels(i) |-> ReducedTrans(fts[j], j = i, l)]]
          ELSE fts[j]]

-----------------------------------------------------------------------------
(***************************************************************************)
(* build()                                                                 *)
(***************************************************************************)
InitialLabels == {{o} : o \in Op}

\* The transitions of operator o in the atomic factor of v: a condition on v
\* is evaluated, one on another variable may hold or not.
AtomicTrans(v, o) ==
    LET pre == {f[2] : f \in {g \in Pre[o] : g[1] = v}}
        from == IF pre = {} THEN Domain[v] ELSE pre
        effects == {e \in Effects[o] : e.fact[1] = v}
        MayFire(x, e) == \A f \in e.cond : f[1] = v => f[2] = x
        MayFail(x, e) == \E f \in e.cond : f[1] # v \/ f[2] # x
    IN  IF effects = {} THEN {<<x, x>> : x \in from}
        ELSE (UNION {{<<x, e.fact[2]>> : x \in {y \in from : MayFire(y, e)}} : e \in effects})
             \cup {<<x, x>> : x \in {y \in from : \E e \in effects : MayFail(y, e)}}

AtomicFactor(v) ==
    [states |-> Domain[v],
     init |-> InitialState[v],
     goals |-> {x \in Domain[v] : \A g \in Goal : g[1] = v => g[2] = x},
     trans |-> [l \in InitialLabels |-> AtomicTrans(v, CHOOSE o \in l : TRUE)],
     alpha |-> [s \in State |-> s[v]],
     goal_dist |-> NotComputed,
     init_dist |-> NotComputed]

Init ==
    /\ config \in Configurations
    /\ labels = InitialLabels
    /\ fts = <<>>
    /\ active = {}
    /\ phase = "data"
    /\ merge_indices = <<0, 0>>
    /\ position = 1
    /\ unsuccessful = 0
    /\ final = 0
    /\ late = FALSE
    /\ valid = Cardinality(Var)
    /\ exact = TRUE

\* One variable in the loops of FTSFactory: its states and goals, then its
\* transitions for operators that do not mention it.  The timer is asked
\* after each; it stays expired.  The variable just done has the index
\* position - 1 and is not counted (check_time_and_set_valid_factors).
Build ==
    /\ phase \in {"data", "irrelevant"}
    /\ position <= Cardinality(Var)
    /\ position <= valid + 1
    /\ late' \in {late, TRUE}
    /\ IF late'
       THEN /\ valid' = position - 1
            /\ position' = Cardinality(Var) + 1
       ELSE /\ position' = position + 1
            /\ UNCHANGED valid
    /\ UNCHANGED <<config, labels, fts, active, phase, merge_indices, unsuccessful,
                   final, exact>>

BuildDone ==
    /\ phase \in {"data", "irrelevant"}
    /\ position > Cardinality(Var) \/ position > valid + 1
    /\ phase' = IF phase = "data" THEN "irrelevant" ELSE "create"
    /\ position' = 1
    /\ UNCHANGED <<config, labels, fts, active, merge_indices, unsuccessful, final,
                   creation, exact>>

\* create_transition_systems and the like assert that there is a factor; the
\* vectors they reserve room in would have a negative size.
Create ==
    /\ phase = "create"
    /\ IF valid = 0
       THEN phase' = "crash" /\ UNCHANGED <<fts, active>>
       ELSE /\ fts' = [v \in 1..valid |-> WithDistances(AtomicFactor(v), InitialLabels)]
            /\ active' = 1..valid
            /\ phase' = "atomic"
    /\ UNCHANGED <<config, labels, merge_indices, position, unsuccessful, final,
                   creation, exact>>

\* One iteration of the loop over the atomic factors.
PruneAtomic ==
    /\ phase = "atomic"
    /\ position <= Len(fts)
    /\ LET f == PruneStep(fts[position]) IN
       /\ fts' = [fts EXCEPT ![position] = f]
       /\ IF IsSolvable(f)
          THEN position' = position + 1 /\ UNCHANGED <<phase, final>>
          ELSE phase' = "done" /\ final' = position /\ UNCHANGED position
    /\ UNCHANGED <<config, labels, active, merge_indices, unsuccessful, creation, exact>>

AtomicDone ==
    /\ phase = "atomic"
    /\ position > Len(fts)
    /\ ~late
    /\ phase' = "next"
    /\ UNCHANGED <<config, labels, fts, active, merge_indices, position,
                   unsuccessful, final, creation, exact>>

GetNext(i, j) ==
    /\ phase = "next"
    /\ i # j
    /\ merge_indices' = <<i, j>>
    /\ phase' = "reduce_before_shrinking"
    /\ position' = 0
    /\ unsuccessful' = 0
    /\ UNCHANGED <<config, labels, fts, active, final, creation, exact>>

\* The transition system order, without the indices out of range: the index
\* that n others in range come before.
PlaceOf(i) == CHOOSE p \in DOMAIN config.system_order : config.system_order[p] = i

Earlier(i) == {j \in 1..Len(fts) : PlaceOf(j) < PlaceOf(i)}

SystemAt(n) == CHOOSE i \in 1..Len(fts) : Cardinality(Earlier(i)) = n

ReductionIndex ==
    IF config.label_reduction = "two" THEN merge_indices[position + 1]
    ELSE SystemAt(position)

CountUnsuccessful(nothing) == unsuccessful' = IF nothing THEN unsuccessful + 1 ELSE 1

\* Mutant: indices of merged factors are not counted.
LastIteration_Active ==
    CASE config.label_reduction = "two" -> position = 2
      [] config.label_reduction = "all" -> position = Len(fts)
      [] config.label_reduction = "fixpoint" -> unsuccessful >= Cardinality(active)

LastIteration ==
    CASE config.label_reduction = "two" -> position = 2
      [] config.label_reduction = "all" -> position = Len(fts)
      [] config.label_reduction = "fixpoint" -> unsuccessful = Len(fts)

ReducesNow == phase \in config.label_reduction_at

\* One iteration of LabelReduction::reduce.
ReduceLabels ==
    /\ ReducesNow
    /\ ~LastIteration
    /\ LET i == ReductionIndex
           nothing == i \notin active \/ LabelMapping(i) = {}
       IN  /\ CountUnsuccessful(nothing)
           /\ IF nothing THEN UNCHANGED <<labels, fts>> ELSE Reduce(i)
    /\ position' = IF config.label_reduction = "fixpoint" THEN (position + 1) % Len(fts)
                   ELSE position + 1
    /\ UNCHANGED <<config, active, phase, merge_indices, final, creation, exact>>

ReductionDone ==
    /\ phase \in {"reduce_before_shrinking", "reduce_before_merging"}
    /\ ReducesNow => LastIteration
    /\ phase' = IF phase = "reduce_before_shrinking" THEN "shrink" ELSE "merge"
    /\ position' = 0
    /\ unsuccessful' = 0
    /\ UNCHANGED <<config, labels, fts, active, merge_indices, final, creation, exact>>

\* shrink_before_merge_step
Shrink ==
    /\ phase = "shrink"
    /\ LET i == merge_indices[1]
           j == merge_indices[2]
           sizes == ShrinkSizes(Cardinality(fts[i].states), Cardinality(fts[j].states))
       IN  \E P \in Shrunk(fts[i], sizes[1]), Q \in Shrunk(fts[j], sizes[2]) :
              /\ fts' = [fts EXCEPT ![i] = Abstracted(@, P), ![j] = Abstracted(@, Q)]
              /\ exact' = (exact /\ IsBisimulation(fts[i], P) /\ IsBisimulation(fts[j], Q))
    /\ phase' = "reduce_before_merging"
    /\ UNCHANGED <<config, labels, active, merge_indices, position, unsuccessful, final, creation>>

Merge ==
    /\ phase = "merge"
    /\ LET i == merge_indices[1]
           j == merge_indices[2]
       IN  /\ fts' = Append([fts EXCEPT ![i] = Merged, ![j] = Merged],
                            Product(fts[i], fts[j]))
           /\ active' = (active \ {i, j}) \cup {Len(fts) + 1}
    /\ phase' = "prune"
    /\ UNCHANGED <<config, labels, merge_indices, position, unsuccessful, final, creation, exact>>

\* The factor just merged is pruned; an unsolvable one ends the construction.
Prune ==
    /\ phase = "prune"
    /\ LET f == PruneStep(fts[Len(fts)]) IN
       /\ fts' = [fts EXCEPT ![Len(fts)] = f]
       /\ IF IsSolvable(f)
          THEN phase' = "next" /\ UNCHANGED final
          ELSE phase' = "done" /\ final' = Len(fts)
    /\ UNCHANGED <<config, labels, active, merge_indices, position, unsuccessful, creation, exact>>

\* The loop ends when one factor is left, the last one.
LoopEnds ==
    /\ phase = "next"
    /\ Cardinality(active) = 1
    /\ phase' = "done"
    /\ final' = Len(fts)
    /\ UNCHANGED <<config, labels, fts, active, merge_indices, position,
                   unsuccessful, creation, exact>>

\* check_time_and_set_final_factor takes a factor with the largest goal
\* distance of its initial state, then the largest of these.  Distances that
\* have not been computed are read all the same and can be anything.
BestFactors ==
    LET InitH(i) == fts[i].goal_dist[fts[i].init]
        highest == {i \in active : \A j \in active : AtMost(InitH(j), InitH(i))}
        candidates == IF NeedGoalDistances THEN highest ELSE active
        Size(i) == Cardinality(fts[i].states)
    IN  {i \in candidates : NeedGoalDistances => \A j \in candidates : Size(i) >= Size(j)}

TimeIsChecked ==
    \/ phase \in {"next", "shrink", "merge", "prune"}
    \/ phase = "atomic" /\ position > Len(fts)
    \/ /\ phase \in {"reduce_before_shrinking", "reduce_before_merging"}
       /\ position = 0 /\ unsuccessful = 0

OutOfTime(i) ==
    /\ TimeIsChecked
    /\ i \in BestFactors
    /\ phase' = "done"
    /\ final' = i
    /\ exact' = FALSE
    /\ late' = TRUE
    /\ UNCHANGED <<config, labels, fts, active, merge_indices, position, unsuccessful, valid>>

Finished == phase \in {"done", "crash"} /\ UNCHANGED vars

Step ==
    \/ Build
    \/ BuildDone
    \/ Create
    \/ PruneAtomic
    \/ AtomicDone
    \/ \E i, j \in active : GetNext(i, j)
    \/ ReduceLabels
    \/ ReductionDone
    \/ Shrink
    \/ Merge
    \/ Prune
    \/ LoopEnds
    \/ \E i \in active : OutOfTime(i)

Next == Step \/ Finished

Spec == Init /\ [][Next]_vars /\ WF_vars(Step)

\* set_distances and get_value: the heuristic that has been built.
HeuristicValue(s) ==
    LET f == fts[final]
        d == IF NeedGoalDistances THEN f.goal_dist ELSE GoalDistances(f, labels)
    IN  IF f.alpha[s] = Pruned THEN Infty ELSE d[f.alpha[s]]

-----------------------------------------------------------------------------
(***************************************************************************)
(* Properties                                                              *)
(***************************************************************************)
\* Merging, shrinking, pruning and label reduction lose no transition: each
\* operator leads from a state to a state in every factor as in the task,
\* unless one of them has been pruned.
TransitionsPreserved ==
    \A i \in active : \A l \in labels : \A o \in l : \A s \in State :
        LET alpha == fts[i].alpha
            t == Result(s, o)
        IN  Applicable(s, o) /\ alpha[s] # Pruned /\ alpha[t] # Pruned =>
                <<alpha[s], alpha[t]>> \in fts[i].trans[l]

\* Goal states stay goal states, unless they have been pruned.
GoalsPreserved ==
    \A i \in active : \A s \in GoalStates :
        fts[i].alpha[s] # Pruned => fts[i].alpha[s] \in fts[i].goals

\* A label reduction never puts operators of different costs together.
LabelsHaveOneCost == \A l \in labels : \A o, q \in l : Cost[o] = Cost[q]

\* The factors together are an abstraction of the task at every step of the
\* construction.
Homomorphism == TransitionsPreserved /\ GoalsPreserved /\ LabelsHaveOneCost

\* The distances carried over from before an abstraction are those of the
\* factor after it.
DistancesAreCurrent ==
    \A i \in active :
        /\ NeedGoalDistances => fts[i].goal_dist = GoalDistances(fts[i], labels)
        /\ NeedInitDistances /\ fts[i].init # Pruned =>
              fts[i].init_dist = InitDistances(fts[i], labels)

\* "admissible: yes", "safe: yes" and "consistent: yes" on the states the
\* search can meet, wherever the construction has been cut off.
HeuristicIsAdmissible ==
    phase = "done" =>
        /\ \A s \in Reachable : AtMost(HeuristicValue(s), RealDistance[s])
        /\ \A a \in RealArcs : a[1] \in Reachable =>
              AtMost(HeuristicValue(a[1]), Plus(a[3], HeuristicValue(a[2])))

\* The task is factored: conditions of effects concern the variable of the
\* effect only.
Factored == \A o \in Op : \A e \in Effects[o] : \A f \in e.cond : f[1] = e.fact[1]

\* No operator has two effects on a variable.  Of two whose conditions exclude
\* each other one always fails to trigger, and has a loop for that.
OneEffectEach == \A o \in Op : \A e, d \in Effects[o] : e.fact[1] = d.fact[1] => d = e

\* The transitions of an operator in an atomic factor are those it makes.
Deterministic == Factored /\ OneEffectEach

\* With exact bisimulations only, and to the end, the heuristic is perfect:
\* neither label reduction nor pruning lose anything.
HeuristicIsPerfect ==
    phase = "done" /\ exact /\ Deterministic => \A s \in Reachable : HeuristicValue(s) = RealDistance[s]

\* The documentation excepts only tasks that are not factored: "for tasks that
\* are not factored [...], the atomic transition systems [...] are
\* nondeterministic, which can lead to poor heuristics".
PerfectIfFactored ==
    phase = "done" /\ exact /\ Factored =>
        \A s \in Reachable : HeuristicValue(s) = RealDistance[s]

\* After a fixpoint iteration no factor allows a reduction, although the
\* counter of label_reduction.cc starts anew at 1.
FixpointReached ==
    /\ config.label_reduction = "fixpoint"
    /\ \/ phase = "shrink" /\ "reduce_before_shrinking" \in config.label_reduction_at
       \/ phase = "merge" /\ "reduce_before_merging" \in config.label_reduction_at
    => \A i \in active : LabelMapping(i) = {}

\* The goal distances that build() reads before a merge have been computed
\* ("assert(are_goal_distances_computed())" in get_goal_distance).
ReadsComputedDistances ==
    phase = "merge" =>
        \A i \in Range(merge_indices) : DOMAIN fts[i].goal_dist = fts[i].states

\* There is a factor when the time limit ends the creation of factors
\* ("assert(num_variables >= 1)" in fts_factory.cc).
FactorsAreCreated == phase # "crash"

=============================================================================
