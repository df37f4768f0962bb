---------------------------- MODULE PlanningTask ----------------------------
(***************************************************************************)
(* The grounded planning task every search engine of src/src/search works  *)
(* on, reduced to its state space: which operators are applicable in a     *)
(* state, the state they lead to and what they cost.  Variables, facts and *)
(* axioms are abstracted away; the successor generator and the state       *)
(* registry are represented by the functions Applicable and Result.        *)
(*                                                                         *)
(* The second group of constants is the ground truth the properties        *)
(* compare the planner with: the states from which a goal is reachable,    *)
(* the cost of a cheapest plan from each of them, and a rank that          *)
(* decreases along one such plan.  The planner never reads them.           *)
(***************************************************************************)
EXTENDS Integers

CONSTANTS
    State,          \* the (reachable) states
    Op,             \* the operators
    InitialState,   \* g_initial_state_data
    Goal,           \* the goal states
    Applicable,     \* [State -> SUBSET Op]: generate_applicable_ops
    Result,         \* [State -> [Op -> State]]: get_successor_state
    Cost,           \* [Op -> Nat]: OperatorProxy::get_cost
    CostType,       \* the option cost_type of the search engine
    IsUnitCost,     \* is_unit_cost(): every operator costs 1
    Bound           \* the option bound; "infinity" is a large number

CONSTANTS
    Solvable,       \* the states with a plan
    Dist,           \* [State -> Nat]: cost of a cheapest plan (on Solvable)
    Rank            \* [State -> Nat]: steps of one of the cheapest plans

ASSUME TaskAssumption ==
    /\ InitialState \in State
    /\ Goal \subseteq State
    /\ Applicable \in [State -> SUBSET Op]
    /\ Result \in [State -> [Op -> State]]
    /\ Cost \in [Op -> Nat]
    /\ CostType \in {"NORMAL", "ONE", "PLUSONE"}
    /\ IsUnitCost \in BOOLEAN
    /\ IsUnitCost <=> \A o \in Op : Cost[o] = 1
    /\ Bound \in Nat

\* Dist is the distance to the goal: it is 0 on goals, no edge can lower it
\* by more than its cost, and some edge of every solvable state realises it.
ASSUME DistanceAssumption ==
    /\ Solvable \subseteq State
    /\ Dist \in [State -> Nat]
    /\ Rank \in [State -> Nat]
    /\ \A s \in Goal : s \in Solvable /\ Dist[s] = 0
    /\ \A s \in State : \A o \in Applicable[s] :
          Result[s][o] \in Solvable =>
             s \in Solvable /\ Dist[s] <= Cost[o] + Dist[Result[s][o]]
    /\ \A s \in Solvable \ Goal : \E o \in Applicable[s] :
          /\ Result[s][o] \in Solvable
          /\ Dist[s] = Cost[o] + Dist[Result[s][o]]
          /\ Rank[Result[s][o]] < Rank[s]

\* The cost the search engine counts for an operator.
AdjustedCost(o) ==
    IF CostType = "NORMAL" THEN Cost[o]
    ELSE IF CostType = "ONE" \/ IsUnitCost THEN 1
    ELSE Cost[o] + 1

\* The transitions of the task with the costs the search engine counts.
TaskEdges ==
    {e \in State \X State \X {AdjustedCost(o) : o \in Op} :
        \E o \in Applicable[e[1]] :
            e[2] = Result[e[1]][o] /\ e[3] = AdjustedCost(o)}
=============================================================================
