---------------------------- MODULE LandmarkCut ----------------------------
(***************************************************************************)
(* The landmark-cut heuristic celmcut (src/src/search/heuristics/          *)
(* ce_lm_cut_landmarks.cc): compute_landmarks is called for one state      *)
(* after the other and works on propositions and relaxed operators that    *)
(* keep their contents between calls.  An operator has one relaxed         *)
(* operator for all its unconditional effects and one for each conditional *)
(* effect; they form a group and share its cost.  lmcut                    *)
(* (lm_cut_landmarks.cc) is the same algorithm without conditional         *)
(* effects, so that every group has a single member.                       *)
(*                                                                         *)
(* Ties of the priority queue, the order of the second queue and that of   *)
(* the relaxed operators of one group are open.  Preconditions are a set:  *)
(* one that is also the condition of an effect is counted once, where the  *)
(* code counts it twice and triggers the operator twice for it.            *)
(***************************************************************************)
EXTENDS FiniteDomainTask, FiniteSetsExt

CONSTANTS
    CostFunctions,      \* base costs of the operators (Cost is not used)
    Garbage             \* contents of h_max_cost that was never set

artificial_precondition == <<0, "precondition">>
artificial_goal == <<0, "goal">>
None == <<0, "none">>   \* a null pointer

ASSUME RelaxedTaskAssumption ==
    /\ Op = 1..Cardinality(Op)
    /\ CostFunctions \subseteq [Op -> Nat]
    /\ Garbage \subseteq Nat

VARIABLES
    call_state,
    base_cost, cost,                            \* of groups
    status, h_max_cost,                         \* of propositions
    unsatisfied_preconditions,                  \* of relaxed operators, as the next two
    h_max_supporter, h_max_supporter_cost,
    priority_queue,                             \* a set of pairs <<cost, proposition>>
    prop,                                       \* the pair popped last
    triggered_operators,                        \* those still to be handled
    second_exploration_queue,
    cut,
    total_cost,
    progress

landmark_vars == <<call_state, base_cost, cost, status, h_max_cost, unsatisfied_preconditions,
          h_max_supporter, h_max_supporter_cost, priority_queue,
          prop, triggered_operators, second_exploration_queue, cut, total_cost, progress>>

-----------------------------------------------------------------------------
(***************************************************************************)
(* The relaxed task                                                        *)
(***************************************************************************)
Propositions == Facts \cup {artificial_precondition, artificial_goal}

\* relaxed_operator_groups: the last one is that of the artificial operator.
GoalGroup == Cardinality(Op) + 1
Groups == Op \cup {GoalGroup}

\* add_relaxed_operator
RelaxedOperator(g, pre, eff) ==
    [group |-> g,
     preconditions |-> IF pre = {} THEN {artificial_precondition} ELSE pre,
     effects |-> eff]

GoalOp == RelaxedOperator(GoalGroup, Goal, {artificial_goal})

\* build_relaxed_operator
RelaxedOpsOf(o) ==
    LET always == {e \in Effects[o] : e.cond = {}}
    IN  (IF always = {} THEN {} ELSE {RelaxedOperator(o, Pre[o], {e.fact : e \in always})})
        \cup {RelaxedOperator(o, Pre[o] \cup e.cond, {e.fact}) : e \in Effects[o] \ always}

RelaxedOps == {GoalOp} \cup UNION {RelaxedOpsOf(o) : o \in Op}

Holding(s) == {<<v, s[v]>> : v \in Var} \cup {artificial_precondition}

BaseCost(c) == [g \in Groups |-> IF g = GoalGroup THEN 0 ELSE c[g]]

-----------------------------------------------------------------------------
(***************************************************************************)
(* Explorations                                                            *)
(***************************************************************************)
\* Mutant: propositions that were reached in an earlier call count as reached.
IsBetter_Stale(p, c) == h_max_cost[p] > c

\* The condition of enqueue_if_necessary
IsBetter(p, c) == status[p] = "unreached" \/ h_max_cost[p] > c

\* enqueue_if_necessary for each of some pairs <<proposition, cost>>: only the
\* cheapest entry of a proposition is kept, others would be skipped later.
Enqueue(offers) ==
    LET Costs(p) == {x[2] : x \in {y \in offers : y[1] = p}}
        better == {p \in Propositions : Costs(p) # {} /\ IsBetter(p, Min(Costs(p)))}
    IN  /\ status' = [p \in Propositions |-> IF p \in better THEN "reached" ELSE status[p]]
        /\ h_max_cost' = [p \in Propositions |->
                             IF p \in better THEN Min(Costs(p)) ELSE h_max_cost[p]]
        /\ priority_queue' = priority_queue \cup {<<Min(Costs(p)), p>> : p \in better}

Offers(o, c) == {<<p, c>> : p \in o.effects}

IsTop(e) == e \in priority_queue /\ \A f \in priority_queue : e[1] <= f[1]

Triggered(p) == {o \in RelaxedOps : p \in o.preconditions}

\* Relaxed operators come in the order of their groups.
IsNext(o) ==
    /\ o \in triggered_operators
    /\ \A x \in triggered_operators : o.group <= x.group

LandmarksInit ==
    /\ call_state = InitialState
    /\ base_cost \in {BaseCost(c) : c \in CostFunctions}
    /\ cost = base_cost
    /\ status = [p \in Propositions |-> "unreached"]
    /\ \E g \in Garbage : h_max_cost = [p \in Propositions |-> g]
    /\ unsatisfied_preconditions = [o \in RelaxedOps |-> 0]
    /\ h_max_supporter = [o \in RelaxedOps |-> None]
    /\ h_max_supporter_cost = [o \in RelaxedOps |-> Infty]
    /\ priority_queue = {}
    /\ prop = <<0, None>>
    /\ triggered_operators = {}
    /\ second_exploration_queue = {}
    /\ cut = {}
    /\ total_cost = 0
    /\ progress = "idle"

\* compute_landmarks is called for s: setup_exploration_queue and
\* setup_exploration_queue_state.
ComputeLandmarks(s) ==
    /\ progress \in {"idle", "done", "dead_end"}
    /\ call_state' = s
    /\ cost' = base_cost
    /\ status' = [p \in Propositions |-> IF p \in Holding(s) THEN "reached" ELSE "unreached"]
    /\ h_max_cost' = [p \in Propositions |-> IF p \in Holding(s) THEN 0 ELSE h_max_cost[p]]
    /\ priority_queue' = {<<0, p>> : p \in Holding(s)}
    /\ unsatisfied_preconditions' = [o \in RelaxedOps |-> Cardinality(o.preconditions)]
    /\ h_max_supporter' = [o \in RelaxedOps |-> None]
    /\ h_max_supporter_cost' = [o \in RelaxedOps |-> Infty]
    /\ total_cost' = 0
    /\ progress' = "first"
    /\ UNCHANGED <<base_cost, prop, triggered_operators, second_exploration_queue, cut>>

\* An entry whose proposition has become cheaper is skipped.
Pop ==
    /\ progress \in {"first", "incremental"}
    /\ triggered_operators = {}
    /\ \E e \in priority_queue :
          /\ IsTop(e)
          /\ priority_queue' = priority_queue \ {e}
          /\ prop' = e
          /\ triggered_operators' = IF h_max_cost[e[2]] < e[1] THEN {} ELSE Triggered(e[2])
    /\ UNCHANGED <<call_state, base_cost, cost, status, h_max_cost, unsatisfied_preconditions,
                   h_max_supporter, h_max_supporter_cost, second_exploration_queue, cut,
                   total_cost, progress>>

\* first_exploration: the last precondition reached is the supporter.
Trigger(o) ==
    /\ progress = "first"
    /\ IsNext(o)
    /\ triggered_operators' = triggered_operators \ {o}
    /\ unsatisfied_preconditions' = [unsatisfied_preconditions EXCEPT ![o] = @ - 1]
    /\ IF unsatisfied_preconditions[o] = 1
       THEN /\ h_max_supporter' = [h_max_supporter EXCEPT ![o] = prop[2]]
            /\ h_max_supporter_cost' = [h_max_supporter_cost EXCEPT ![o] = prop[1]]
            /\ Enqueue(Offers(o, prop[1] + cost[o.group]))
       ELSE UNCHANGED <<h_max_supporter, h_max_supporter_cost, status, h_max_cost, priority_queue>>
    /\ UNCHANGED <<call_state, base_cost, cost, prop, second_exploration_queue, cut, total_cost, progress>>

FirstDone ==
    /\ progress = "first"
    /\ priority_queue = {}
    /\ triggered_operators = {}
    /\ progress' = IF status[artificial_goal] = "unreached" THEN "dead_end" ELSE "round"
    /\ UNCHANGED <<call_state, base_cost, cost, status, h_max_cost, unsatisfied_preconditions,
                   h_max_supporter, h_max_supporter_cost, priority_queue,
                   prop, triggered_operators, second_exploration_queue, cut, total_cost>>

\* Mutant: any precondition that has not become cheaper will do.
NewSupporters_Any(o) == o.preconditions \ {prop[2]}

\* update_h_max_supporter: another precondition only if it is dearer.
NewSupporters(o) ==
    LET dearest == {q \in o.preconditions :
                       \A r \in o.preconditions : h_max_cost[r] <= h_max_cost[q]}
    IN  IF h_max_supporter[o] \in dearest THEN {h_max_supporter[o]} ELSE dearest

\* first_exploration_incremental: an operator whose supporter has become
\* cheaper looks for a new one.
Update(o) ==
    /\ progress = "incremental"
    /\ IsNext(o)
    /\ triggered_operators' = triggered_operators \ {o}
    /\ IF h_max_supporter[o] = prop[2] /\ h_max_supporter_cost[o] > prop[1]
       THEN \E q \in NewSupporters(o) :
               /\ h_max_supporter' = [h_max_supporter EXCEPT ![o] = q]
               /\ h_max_supporter_cost' = [h_max_supporter_cost EXCEPT ![o] = h_max_cost[q]]
               /\ Enqueue(IF h_max_cost[q] # h_max_supporter_cost[o]
                          THEN Offers(o, h_max_cost[q] + cost[o.group]) ELSE {})
       ELSE UNCHANGED <<h_max_supporter, h_max_supporter_cost, status, h_max_cost, priority_queue>>
    /\ UNCHANGED <<call_state, base_cost, cost, unsatisfied_preconditions, prop,
                   second_exploration_queue, cut, total_cost, progress>>

-----------------------------------------------------------------------------
(***************************************************************************)
(* Cuts                                                                    *)
(***************************************************************************)
\* What follows from some propositions by rules <<premises, conclusion>>.
Closure(base, rules) ==
    LET closed[n \in 0..Cardinality(Propositions)] ==
            IF n = 0 THEN base
            ELSE Only({R \cup {r[2] : r \in {x \in rules : x[1] \subseteq R}} :
                       R \in {closed[n - 1]}})
    IN  closed[Cardinality(Propositions)]

\* Mutant: zero-cost operators do not extend the goal zone.
GoalZone_Goal == {artificial_goal}

\* mark_goal_plateau: back through supporters of operators without cost.
GoalZone ==
    LET free == {o \in RelaxedOps : cost[o.group] = 0 /\ h_max_supporter[o] # None}
    IN  Closure({artificial_goal},
                UNION {{<<{p}, h_max_supporter[o]>> : p \in o.effects} : o \in free})

\* One round: mark_goal_plateau and the beginning of second_exploration.
StartRound ==
    /\ progress = "round"
    /\ h_max_cost[artificial_goal] # 0
    /\ \E zone \in {GoalZone} :
          status' = [p \in Propositions |->
              IF p \in Holding(call_state) THEN "before_goal_zone"
              ELSE IF p \in zone THEN "goal_zone" ELSE status[p]]
    /\ second_exploration_queue' = Holding(call_state)
    /\ progress' = "second"
    /\ UNCHANGED <<call_state, base_cost, cost, h_max_cost, unsatisfied_preconditions,
                   h_max_supporter, h_max_supporter_cost, priority_queue, prop,
                   triggered_operators, cut, total_cost>>

\* second_exploration: operators into the goal zone are cut.
SecondExploration ==
    /\ progress = "second"
    /\ \E p \in second_exploration_queue :
          LET supported == {o \in Triggered(p) : h_max_supporter[o] = p}
              into == {o \in supported : \E q \in o.effects : status[q] = "goal_zone"}
              next == {q \in UNION {o.effects : o \in supported \ into} :
                          status[q] # "before_goal_zone"}
          IN  /\ cut' = cut \cup into
              /\ status' = [q \in Propositions |->
                               IF q \in next THEN "before_goal_zone" ELSE status[q]]
              /\ second_exploration_queue' = (second_exploration_queue \ {p}) \cup next
    /\ UNCHANGED <<call_state, base_cost, cost, h_max_cost, unsatisfied_preconditions,
                   h_max_supporter, h_max_supporter_cost, priority_queue, prop,
                   triggered_operators, total_cost, progress>>

CutCost == IF cut = {} THEN Infty ELSE Min({cost[o.group] : o \in cut})

CutGroups == {o.group : o \in cut}

\* Each group of the cut becomes cheaper, once, and all its relaxed operators
\* that are reached offer their effects for less.
ApplyCut ==
    /\ progress = "second"
    /\ second_exploration_queue = {}
    /\ cost' = [g \in Groups |-> cost[g] - IF g \in CutGroups THEN CutCost ELSE 0]
    /\ total_cost' = total_cost + CutCost
    /\ Enqueue(UNION {Offers(o, h_max_supporter_cost[o] + cost'[o.group]) :
                      o \in {x \in RelaxedOps : /\ x.group \in CutGroups
                                               /\ h_max_supporter[x] # None}})
    /\ cut' = {}
    /\ progress' = "incremental"
    /\ UNCHANGED <<call_state, base_cost, unsatisfied_preconditions, h_max_supporter,
                   h_max_supporter_cost, prop, triggered_operators, second_exploration_queue>>

ResetStatus ==
    [p \in Propositions |-> IF status[p] \in {"goal_zone", "before_goal_zone"}
                            THEN "reached" ELSE status[p]]

RoundDone ==
    /\ progress = "incremental"
    /\ priority_queue = {}
    /\ triggered_operators = {}
    /\ status' = ResetStatus
    /\ progress' = "round"
    /\ UNCHANGED <<call_state, base_cost, cost, h_max_cost, unsatisfied_preconditions,
                   h_max_supporter, h_max_supporter_cost, priority_queue,
                   prop, triggered_operators, second_exploration_queue, cut, total_cost>>

Done ==
    /\ progress = "round"
    /\ h_max_cost[artificial_goal] = 0
    /\ progress' = "done"
    /\ UNCHANGED <<call_state, base_cost, cost, status, h_max_cost, unsatisfied_preconditions,
                   h_max_supporter, h_max_supporter_cost, priority_queue,
                   prop, triggered_operators, second_exploration_queue, cut, total_cost>>

Compute ==
    \/ Pop \/ FirstDone \/ \E o \in RelaxedOps : Trigger(o) \/ Update(o)
    \/ StartRound \/ SecondExploration \/ ApplyCut \/ RoundDone \/ Done

LandmarksNext == Compute \/ \E s \in State : ComputeLandmarks(s)

LandmarksSpec == LandmarksInit /\ [][LandmarksNext]_landmark_vars

-----------------------------------------------------------------------------
(***************************************************************************)
(* Properties                                                              *)
(***************************************************************************)
\* Reference: h^max by value iteration.
Least(S) == CHOOSE x \in S : \A y \in S : AtMost(x, y)
Greatest(S) == CHOOSE x \in S : \A y \in S : AtMost(y, x)

Through(c, h, o) == Plus(c[o.group], Greatest({h[q] : q \in o.preconditions}))

Improved(c, h) ==
    [p \in Propositions |->
        Least({h[p]} \cup {Through(c, h, o) : o \in {x \in RelaxedOps : p \in x.effects}})]

HMax(s, c) ==
    LET value[n \in 0..Cardinality(Propositions)] ==
            IF n = 0 THEN [p \in Propositions |-> IF p \in Holding(s) THEN 0 ELSE Infty]
            ELSE Only({Improved(c, h) : h \in {value[n - 1]}})
    IN  value[Cardinality(Propositions)]

\* Reference: the propositions reachable with a set of operators.
ReachableWith(s, ops) ==
    Closure(Holding(s), UNION {{<<o.preconditions, p>> : p \in o.effects} : o \in ops})

InGroups(groups) == {o \in RelaxedOps : o.group \in groups}

RelaxedPlans(s) ==
    {ops \in SUBSET Op : artificial_goal \in ReachableWith(s, InGroups(ops \cup {GoalGroup}))}

\* No operator has effects under several conditions that can be reached from
\* s, as in all tasks of lmcut.
UsedInOneWay(s) ==
    \E R \in {ReachableWith(s, RelaxedOps)} :
        \A o, x \in RelaxedOps :
            /\ o.group = x.group
            /\ o.preconditions \subseteq R /\ x.preconditions \subseteq R
            => o = x

CostOf(c, ops) ==
    LET sum[n \in 0..Cardinality(Op)] ==
            IF n = 0 THEN 0 ELSE sum[n - 1] + IF n \in ops THEN c[n] ELSE 0
    IN  sum[Cardinality(Op)]

\* After each round the values updated incrementally are those of h^max for
\* the reduced costs, and every supporter is a dearest precondition
\* (validate_h_max, "too expensive to use even in regular debug mode").
HMaxIsExact ==
    progress = "round" =>
        LET h == HMax(call_state, cost)
        IN  /\ \A p \in Propositions :
                  h[p] = IF status[p] = "unreached" THEN Infty ELSE h_max_cost[p]
            /\ \A o \in RelaxedOps :
                  IF h_max_supporter[o] = None
                  THEN \E q \in o.preconditions : status[q] = "unreached"
                  ELSE /\ h_max_supporter_cost[o] = h[h_max_supporter[o]]
                       /\ \A q \in o.preconditions : AtMost(h[q], h_max_supporter_cost[o])

\* Every cut is found, costs something and is a disjunctive action landmark:
\* no relaxed plan avoids it.
CutIsLandmark ==
    progress = "second" /\ second_exploration_queue = {} =>
        /\ cut # {}
        /\ \A o \in cut : cost[o.group] > 0
        /\ artificial_goal \notin ReachableWith(call_state, RelaxedOps \ cut)

\* The estimate never exceeds the cost of a relaxed plan, in which an operator
\* is paid once for all its effects.  It is 0 only if h^max is, and at least
\* h^max unless an operator may have to be used several times, for effects
\* under different conditions.  A state is reported as a dead end exactly if it
\* has no relaxed plan.
EstimateIsBounded ==
    /\ progress = "done" =>
           /\ \A h \in {HMax(call_state, base_cost)[artificial_goal]} :
                 /\ total_cost = 0 => h = 0
                 /\ UsedInOneWay(call_state) => AtMost(h, total_cost)
           /\ RelaxedPlans(call_state) # {}
           /\ \A ops \in RelaxedPlans(call_state) : total_cost <= CostOf(base_cost, ops)
    /\ progress = "dead_end" => RelaxedPlans(call_state) = {}
=============================================================================
