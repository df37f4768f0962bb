------------------------ MODULE EnforcedHillClimbing ------------------------
(***************************************************************************)
(* EnforcedHillClimbingSearch (enforced_hill_climbing_search.cc): from the *)
(* current state a breadth-first search over edges looks for a state with  *)
(* a smaller heuristic value, which becomes the current state of the next  *)
(* phase.  The nodes of earlier phases are kept, although the edges out of *)
(* them are forgotten with the open list; the search fails when the list   *)
(* runs empty.  A node is given its parent once and for all.               *)
(***************************************************************************)
EXTENDS SearchEngine

VARIABLES
    open,                 \* the entries of the open list, see Entry
    prune_by_preferred    \* use_preferred and PRUNE_BY_PREFERRED, never changed

ehc_vars == <<open, prune_by_preferred>>
vars == <<h, node_vars, phase, current, path, path_cost, ehc_vars>>

Phase == {"initialize", "step", "ehc", "trace", "solved", "failed", "exited"}

\* An edge and the g of the state it leads to, by which the list is ordered.
Entry == [state : State, op : Op, g : Nat]

IsMinimal(e) == \A d \in open : e.g <= d.g

Init ==
    /\ h \in Heuristics
    /\ status = [s \in State |-> "NEW"]
    /\ g = [s \in State |-> -1]
    /\ real_g = [s \in State |-> -1]
    /\ parent = [s \in State |-> NoState]
    /\ creating_op = [s \in State |-> NoOp]
    /\ phase = "initialize"
    /\ current = InitialState
    /\ open = {}
    /\ prune_by_preferred \in BOOLEAN
    /\ path = <<>>
    /\ path_cost = 0

-----------------------------------------------------------------------------
\* initialize() leaves the process if the initial state is a dead end,
\* with EXIT_UNSOLVABLE if the dead ends of the heuristic are reliable and
\* EXIT_UNSOLVED_INCOMPLETE otherwise.
ExitDeadEnd ==
    /\ phase = "initialize"
    /\ h[InitialState] = Infty
    /\ phase' = "exited"
    /\ UNCHANGED <<h, node_vars, current, path, path_cost, ehc_vars>>

OpenInitial ==
    /\ phase = "initialize"
    /\ h[InitialState] # Infty
    /\ status' = [status EXCEPT ![InitialState] = "OPEN"]
    /\ g' = [g EXCEPT ![InitialState] = 0]
    /\ real_g' = [real_g EXCEPT ![InitialState] = 0]
    /\ phase' = "step"
    /\ UNCHANGED <<h, parent, creating_op, current, path, path_cost, ehc_vars>>

\* The operators expand(s) queues: all, or the preferred ones, of which the
\* model knows no more than that they are applicable.
QueuedOps(s) ==
    IF prune_by_preferred THEN SUBSET Applicable[s] ELSE {Applicable[s]}

Edges(s, s_g, ops) ==
    {[state |-> s, op |-> o, g |-> s_g + AdjustedCost(o)] : o \in ops}

Close(s) == status' = [status EXCEPT ![s] = "CLOSED"]

\* expand(), with the g of the node and what the open list holds otherwise.
Expand(s, s_g, others) ==
    /\ Close(s)
    /\ \E ops \in QueuedOps(s) : open' = others \cup Edges(s, s_g, ops)

\* step(): the current state of the phase is a goal ...
StepGoal ==
    /\ phase = "step"
    /\ current \in Goal
    /\ phase' = "trace"
    /\ UNCHANGED <<h, node_vars, current, path, path_cost, ehc_vars>>

\* ... or is expanded.
StepExpand ==
    /\ phase = "step"
    /\ current \notin Goal
    /\ Expand(current, g[current], open)
    /\ phase' = "ehc"
    /\ UNCHANGED <<h, g, real_g, parent, creating_op, current, path, path_cost,
                   prune_by_preferred>>

-----------------------------------------------------------------------------
\* ehc(): the loop ends without an improvement.
OpenListEmpty ==
    /\ phase = "ehc"
    /\ open = {}
    /\ phase' = "failed"
    /\ UNCHANGED <<h, node_vars, current, path, path_cost, ehc_vars>>

Fetch(e) ==
    /\ phase = "ehc"
    /\ e \in open /\ IsMinimal(e)

\* Mutants: the bound is taken to be inclusive; it cuts off one too early.
WithinBound_Inclusive(e) == real_g[e.state] + Cost[e.op] <= Bound
WithinBound_TooEarly(e) == real_g[e.state] + Cost[e.op] + 1 < Bound

WithinBound(e) == real_g[e.state] + Cost[e.op] < Bound

\* Mutant: the loop looks at a node every time an edge leads to it.
IsNew_Always(t) == status[t] # "DEAD_END"

IsNew(t) == status[t] = "NEW"

\* The edge leads beyond the bound, or to a node that has been seen.
DropEdge(e) ==
    /\ Fetch(e)
    /\ WithinBound(e) => ~IsNew(Result[e.state][e.op])
    /\ open' = open \ {e}
    /\ UNCHANGED <<h, node_vars, phase, current, path, path_cost,
                   prune_by_preferred>>

DeadEnd(e) ==
    /\ Fetch(e)
    /\ WithinBound(e)
    /\ LET t == Result[e.state][e.op] IN
       /\ IsNew(t)
       /\ h[t] = Infty
       /\ status' = [status EXCEPT ![t] = "DEAD_END"]
    /\ open' = open \ {e}
    /\ UNCHANGED <<h, g, real_g, parent, creating_op, phase, current, path,
                   path_cost, prune_by_preferred>>

OpenNode(e) ==
    /\ Fetch(e)
    /\ WithinBound(e)
    /\ LET t == Result[e.state][e.op] IN
       /\ IsNew(t)
       /\ h[t] # Infty
       /\ SetParent(e.state, t, e.op)

\* A state that is no better is expanded ...
ExpandNode(e) ==
    /\ OpenNode(e)
    /\ LET t == Result[e.state][e.op] IN
       /\ h[t] >= h[current]
       /\ Expand(t, g[e.state] + AdjustedCost(e.op), open \ {e})
    /\ UNCHANGED <<h, phase, current, path, path_cost, prune_by_preferred>>

\* ... a better one starts the next phase.
NextPhase(e) ==
    /\ OpenNode(e)
    /\ LET t == Result[e.state][e.op] IN
       /\ h[t] < h[current]
       /\ status' = [status EXCEPT ![t] = "OPEN"]
       /\ current' = t
    /\ open' = {}
    /\ phase' = "step"
    /\ UNCHANGED <<h, path, path_cost, prune_by_preferred>>

-----------------------------------------------------------------------------
TraceStep == TraceParent /\ UNCHANGED ehc_vars
TraceEnd == TraceDone /\ UNCHANGED ehc_vars

Finished == phase \in {"solved", "failed", "exited"} /\ UNCHANGED vars

Next ==
    \/ ExitDeadEnd \/ OpenInitial \/ StepGoal \/ StepExpand \/ OpenListEmpty
    \/ \E e \in open : DropEdge(e) \/ DeadEnd(e) \/ ExpandNode(e) \/ NextPhase(e)
    \/ TraceStep \/ TraceEnd
    \/ Finished

\* search() calls step() until it stops returning IN_PROGRESS.
Spec == Init /\ [][Next]_vars /\ WF_vars(Next)

-----------------------------------------------------------------------------
\* The fields of the nodes and of the engine have the types of the code.
TypeOK ==
    /\ h \in Heuristics
    /\ status \in [State -> Status]
    /\ g \in [State -> Int] /\ real_g \in [State -> Int]
    /\ parent \in [State -> State \cup {NoState}]
    /\ creating_op \in [State -> Op \cup {NoOp}]
    /\ open \subseteq Entry
    /\ phase \in Phase
    /\ current \in State \cup {NoState}
    /\ prune_by_preferred \in BOOLEAN
    /\ path \in Seq(Op) /\ path_cost \in Nat

\* The assertion of SearchNode::close, "info.status == OPEN": in the loop of
\* ehc() every reached node has been expanded, and between two phases the
\* current state is the only one that has not, so it is never closed twice.
OnlyCurrentIsOpen ==
    /\ phase = "ehc" => \A s \in State : status[s] # "OPEN"
    /\ phase = "step" => \A s \in State : status[s] = "OPEN" <=> s = current

\* The nodes found since the last improvement.
Descendants(s) ==
    {d \in Reached : \A S \in SUBSET Reached :
        s \in S /\ (\A x \in Reached : parent[x] \in S => x \in S) => d \in S}

\* The search gives up only after it has looked at every edge out of every
\* state it has reached from the current one, none of them better: what
\* makes it incomplete are the nodes of earlier phases and the bound alone.
FailureIsExhaustive ==
    phase = "failed" /\ ~prune_by_preferred =>
       \A s \in Descendants(current) :
          /\ h[current] <= h[s]
          /\ \A o \in Applicable[s] :
                real_g[s] + Cost[o] < Bound => status[Result[s][o]] # "NEW"

\* Costs are never stale here: real_g is the cost of the path traced back,
\* whatever the cost type is.
RealCostsAreExact ==
    \A s \in Reached :
       real_g[s] = IF creating_op[s] = NoOp THEN 0
                   ELSE real_g[parent[s]] + Cost[creating_op[s]]

-----------------------------------------------------------------------------
(***************************************************************************)
(* The inductive invariant behind the theorems of                          *)
(* EnforcedHillClimbing_proofs.                                            *)
(***************************************************************************)

NodesOK ==
    /\ \A s \in Reached : g[s] \in Nat /\ real_g[s] \in Nat
    /\ 0 < Bound => \A s \in Reached : real_g[s] < Bound

OpenOK ==
    \A e \in open : e.state \in Reached /\ e.op \in Applicable[e.state]

PhaseOK ==
    /\ phase \in {"initialize", "exited"} =>
          /\ current = InitialState
          /\ Reached = {}
          /\ \A s \in State : status[s] = "NEW" /\ creating_op[s] = NoOp
    /\ phase \notin {"initialize", "exited"} => current \in Reached
    /\ phase \notin {"trace", "solved"} => path_cost = 0

\* The path collected and the rest of it together cost less than the bound.
TraceOK ==
    /\ phase \in {"trace", "solved"} /\ 0 < Bound =>
          path_cost + real_g[current] < Bound

EHCInv ==
    /\ TypeOK
    /\ NodesOK
    /\ OpenOK
    /\ PhaseOK
    /\ OnlyCurrentIsOpen
    /\ ParentsAreEdges
    /\ RealCostsAreExact
    /\ TraceOK
=============================================================================
