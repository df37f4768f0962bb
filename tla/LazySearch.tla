----------------------------- MODULE LazySearch -----------------------------
(***************************************************************************)
(* LazySearch (src/src/search/search_engines/lazy_search.cc): best-first   *)
(* search with an open list of edges.  A state is evaluated only when an   *)
(* edge to it is fetched, and the edges out of it are then queued with the *)
(* heuristic value of the state they start in.  The g values are those of  *)
(* the moment the edge is fetched, the bound is tested the moment it is    *)
(* queued.                                                                 *)
(***************************************************************************)
EXTENDS SearchEngine

CONSTANTS
    Queue,           \* "wastar" or "greedy": how open is ordered
    Weight           \* the w of g + w * h

ASSUME LazyAssumption ==
    /\ Queue \in {"wastar", "greedy"}
    /\ Weight \in Nat \ {0}

VARIABLES
    reopen_closed_nodes,   \* the option reopen_closed, never changed
    open,                  \* the entries of the open list
    current_predecessor,   \* current_predecessor_id
    current_operator,      \* current_operator_id
    current_g,
    current_real_g

fetch_vars == <<current, current_predecessor, current_operator, current_g,
                current_real_g>>
vars == <<h, reopen_closed_nodes, node_vars, phase, path, path_cost, open,
          fetch_vars>>

Phase == {"evaluate", "fetch", "trace", "solved", "failed"}

\* An edge, with the g its key was computed with.  A state is expanded again
\* only with a smaller g, so no entry occurs twice.
Entry == [state : State, op : Op, g : Nat]

EntryKey(e) ==
    IF Queue = "greedy" THEN h[e.state] ELSE e.g + Weight * h[e.state]

IsMinimal(e) == \A d \in open : EntryKey(e) <= EntryKey(d)

\* The constructor: the initial state is the first to be evaluated.
Init ==
    /\ h \in Heuristics
    /\ reopen_closed_nodes \in BOOLEAN
    /\ status = [s \in State |-> "NEW"]
    /\ g = [s \in State |-> -1]
    /\ real_g = [s \in State |-> -1]
    /\ parent = [s \in State |-> NoState]
    /\ creating_op = [s \in State |-> NoOp]
    /\ phase = "evaluate"
    /\ current = InitialState
    /\ current_predecessor = NoState
    /\ current_operator = NoOp
    /\ current_g = 0
    /\ current_real_g = 0
    /\ open = {}
    /\ path = <<>>
    /\ path_cost = 0

-----------------------------------------------------------------------------

IsNew == status[current] = "NEW"

Reopen ==
    /\ reopen_closed_nodes
    /\ status[current] \notin {"NEW", "DEAD_END"}
    /\ current_g < g[current]

\* step() with a state that needs no attention goes on to the next edge.
NothingNew ==
    /\ phase = "evaluate"
    /\ ~IsNew /\ ~Reopen
    /\ phase' = "fetch"
    /\ UNCHANGED <<h, reopen_closed_nodes, node_vars, path, path_cost, open,
                   fetch_vars>>

\* Mutant: dead ends are not remembered.
MarkDeadEnd_Not == UNCHANGED status

MarkDeadEnd == status' = [status EXCEPT ![current] = "DEAD_END"]

DeadEnd ==
    /\ phase = "evaluate"
    /\ IsNew
    /\ h[current] = Infty
    /\ MarkDeadEnd
    /\ phase' = "fetch"
    /\ UNCHANGED <<h, reopen_closed_nodes, g, real_g, parent, creating_op,
                   path, path_cost, open, fetch_vars>>

\* open_initial, open or reopen, and close.
CloseNode ==
    /\ phase = "evaluate"
    /\ IsNew \/ Reopen
    /\ h[current] # Infty
    /\ status' = [status EXCEPT ![current] = "CLOSED"]
    /\ IF current_predecessor = NoState
       THEN /\ g' = [g EXCEPT ![current] = 0]
            /\ real_g' = [real_g EXCEPT ![current] = 0]
            /\ UNCHANGED <<parent, creating_op>>
       ELSE SetParent(current_predecessor, current, current_operator)

CloseGoal ==
    /\ CloseNode
    /\ current \in Goal
    /\ phase' = "trace"
    /\ UNCHANGED <<h, reopen_closed_nodes, path, path_cost, open, fetch_vars>>

\* Mutants: the bound is taken to be inclusive; it cuts off one too early.
WithinBound_Inclusive(o) == current_real_g + Cost[o] <= Bound
WithinBound_TooEarly(o) == current_real_g + Cost[o] + 1 < Bound

WithinBound(o) == current_real_g + Cost[o] < Bound

\* generate_successors, in whatever order.
Successors ==
    {[state |-> current, op |-> o, g |-> current_g + AdjustedCost(o)] :
        o \in {o \in Applicable[current] : WithinBound(o)}}

Expand ==
    /\ CloseNode
    /\ current \notin Goal
    /\ open' = open \cup Successors
    /\ phase' = "fetch"
    /\ UNCHANGED <<h, reopen_closed_nodes, path, path_cost, fetch_vars>>

-----------------------------------------------------------------------------
\* fetch_next_state
OpenListEmpty ==
    /\ phase = "fetch"
    /\ open = {}
    /\ phase' = "failed"
    /\ UNCHANGED <<h, reopen_closed_nodes, node_vars, path, path_cost, open,
                   fetch_vars>>

\* The edge is followed with the g that its source has now.
FetchedG(e) == g[e.state] + AdjustedCost(e.op)

Fetch(e) ==
    /\ phase = "fetch"
    /\ e \in open /\ IsMinimal(e)
    /\ open' = open \ {e}
    /\ current_predecessor' = e.state
    /\ current_operator' = e.op
    /\ current' = Result[e.state][e.op]
    /\ current_g' = FetchedG(e)
    /\ current_real_g' = real_g[e.state] + Cost[e.op]
    /\ phase' = "evaluate"
    /\ UNCHANGED <<h, reopen_closed_nodes, node_vars, path, path_cost>>

-----------------------------------------------------------------------------
lazy_vars == <<reopen_closed_nodes, open, current_predecessor,
               current_operator, current_g, current_real_g>>

TraceStep == TraceParent /\ UNCHANGED lazy_vars
TraceEnd == TraceDone /\ UNCHANGED lazy_vars

Finished == phase \in {"solved", "failed"} /\ UNCHANGED vars

Next ==
    \/ NothingNew \/ DeadEnd \/ CloseGoal \/ Expand
    \/ OpenListEmpty \/ \E e \in open : Fetch(e)
    \/ TraceStep \/ TraceEnd
    \/ Finished

\* search() calls step() until it stops returning IN_PROGRESS.
Spec == Init /\ [][Next]_vars /\ WF_vars(Next)

-----------------------------------------------------------------------------
\* The edge that is being followed, and what it offers.
Following(s, o) ==
    /\ phase = "evaluate"
    /\ current_predecessor = s /\ current_operator = o

\* No edge is lost: each edge out of a closed node that was not cut off by the
\* bound is queued or being followed, or it leads to a dead end or to a node
\* that has been reached, with reopening by a path as good as this edge.
EdgesAreKept ==
    \A s \in State \ Goal : \A o \in Applicable[s] :
        status[s] = "CLOSED" /\ real_g[s] + Cost[o] < Bound =>
           LET t == Result[s][o] IN
           \/ \E e \in open : e.state = s /\ e.op = o
           \/ Following(s, o)
           \/ status[t] = "DEAD_END"
           \/ /\ t \in Reached
              /\ reopen_closed_nodes => g[t] <= g[s] + AdjustedCost(o)

\* With reopening, "Completely explored state space -- no solution!" is only
\* said when there is no plan cheaper than the bound.
FailedIsUnsolvable ==
    phase = "failed" /\ reopen_closed_nodes =>
        InitialState \notin Solvable \/ Bound <= Dist[InitialState]

=============================================================================
