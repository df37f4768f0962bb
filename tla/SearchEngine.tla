---------------------------- MODULE SearchEngine ----------------------------
(***************************************************************************)
(* What the search engines share: the nodes of the SearchSpace             *)
(* (search_space.cc), their fields set by SearchNode::open, reopen and     *)
(* update_parent, and the end of a successful search in                    *)
(* SearchEngine::check_goal_and_set_plan (search_engine.cc), which traces  *)
(* the plan along the parent pointers, one pointer a step.                 *)
(***************************************************************************)
EXTENDS PlanningTask, FiniteSets, Sequences

CONSTANTS
    Heuristics,      \* the functions the heuristic may be
    NoState, NoOp    \* StateID::no_state, OperatorID::no_operator

\* EvaluationResult::INFTY of a heuristic: the state is a dead end.
Infty == -1

ASSUME EngineAssumption ==
    /\ Heuristics \subseteq [State -> Nat \cup {Infty}]
    /\ NoState \notin State
    /\ NoOp \notin Op

VARIABLES
    h,               \* the heuristic of this run, never changed
    status,          \* SearchNodeInfo::status of every state
    g, real_g,       \* SearchNodeInfo::g and real_g
    parent,          \* SearchNodeInfo::parent_state_id
    creating_op,     \* SearchNodeInfo::creating_operator
    phase,           \* where step() is
    current,         \* the state the engine, or the trace, has got to
    path,            \* trace_path: the operators collected, front first
    path_cost        \* calculate_plan_cost of path

node_vars == <<status, g, real_g, parent, creating_op>>

Status == {"NEW", "OPEN", "CLOSED", "DEAD_END"}
Reached == {s \in State : status[s] \in {"OPEN", "CLOSED"}}

-----------------------------------------------------------------------------
\* Mutant: the creating operator of the first path to the node is kept.
SetParent_KeepsOperator(s, t, o) ==
    /\ g' = [g EXCEPT ![t] = g[s] + AdjustedCost(o)]
    /\ real_g' = [real_g EXCEPT ![t] = real_g[s] + Cost[o]]
    /\ parent' = [parent EXCEPT ![t] = s]
    /\ creating_op' = [creating_op EXCEPT ![t] = IF @ = NoOp THEN o ELSE @]

\* SearchNode::open, reopen and update_parent of the node of t with the node
\* of s as its parent: the fields they all set.
SetParent(s, t, o) ==
    /\ g' = [g EXCEPT ![t] = g[s] + AdjustedCost(o)]
    /\ real_g' = [real_g EXCEPT ![t] = real_g[s] + Cost[o]]
    /\ parent' = [parent EXCEPT ![t] = s]
    /\ creating_op' = [creating_op EXCEPT ![t] = o]

\* trace_path: one iteration of its loop.
TraceParent ==
    /\ phase = "trace"
    /\ creating_op[current] # NoOp
    /\ path' = <<creating_op[current]>> \o path
    /\ path_cost' = path_cost + Cost[creating_op[current]]
    /\ current' = parent[current]
    /\ UNCHANGED <<h, node_vars, phase>>

\* Then the plan is set: step() returns SOLVED.
TraceDone ==
    /\ phase = "trace"
    /\ creating_op[current] = NoOp
    /\ phase' = "solved"
    /\ UNCHANGED <<h, node_vars, current, path, path_cost>>

-----------------------------------------------------------------------------
\* Every parent pointer is an edge of the task, and following it lowers g by
\* at least the cost of the edge: a node keeps its g when its parent finds a
\* cheaper path (the "incompatibility" of the comment in step()), so the path
\* traced back may be cheaper than g, but never more expensive.
ParentsAreEdges ==
    \A s \in Reached :
        IF creating_op[s] = NoOp
        THEN s = InitialState /\ g[s] = 0
        ELSE /\ parent[s] \in Reached
             /\ creating_op[s] \in Applicable[parent[s]]
             /\ Result[parent[s]][creating_op[s]] = s
             /\ g[parent[s]] + AdjustedCost(creating_op[s]) <= g[s]

\* Following the parent pointers never runs in a circle, even along operators
\* of cost 0: otherwise the loop of trace_path would not return.
NoParentCycle ==
    \A S \in SUBSET Reached :
        S # {} => \E s \in S : creating_op[s] = NoOp \/ parent[s] \notin S

\* The bound is exclusive and refers to the real cost, whatever cost_type is
\* (the documentation of the option bound in search_engine.cc).
PlanWithinBound == phase = "solved" => path_cost < Bound

\* Nodes only get better: a step that touches the g of a node that has one
\* lowers it, a dead end stays one, and a closed node leaves that status only
\* with a smaller g.
NodesOnlyImprove ==
    [][\A s \in State :
          /\ s \in Reached => s \in Reached' /\ g'[s] <= g[s]
          /\ status[s] = "DEAD_END" => status'[s] = "DEAD_END"
          /\ status[s] = "CLOSED" /\ status'[s] # "CLOSED" => g'[s] < g[s]
      ]_node_vars

\* The search implements the abstract label correcting algorithm: the label
\* of a node is its g, and the edges cost what the search engine counts.
LabelOf == [s \in State |-> IF s \in Reached THEN g[s] ELSE -1]

Labels == INSTANCE LabelCorrecting WITH
    Node <- State,
    Source <- InitialState,
    Edge <- TaskEdges,
    LowerBound <- [s \in State |-> 0],
    label <- LabelOf

\* Every step of the search relaxes a single edge or leaves the labels alone.
ImplementsLabelCorrecting == Labels!Spec

-----------------------------------------------------------------------------
\* What the theorems on optimality and completeness ask of the options.
Safe == \A f \in Heuristics : \A s \in Solvable : f[s] # Infty

Admissible == \A f \in Heuristics : \A s \in Solvable : 0 <= f[s] /\ f[s] <= Dist[s]
=============================================================================
