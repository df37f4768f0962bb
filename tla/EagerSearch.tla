----------------------------- MODULE EagerSearch -----------------------------
(***************************************************************************)
(* EagerSearch (src/src/search/search_engines/eager_search.cc): best-first *)
(* search with lazy deletion from the open list, optional reopening of     *)
(* closed nodes, cutoffs by real cost and partial-order pruning that       *)
(* switches itself off.  The nodes and the trace of the plan are those of  *)
(* SearchEngine.                                                           *)
(*                                                                         *)
(* The main loop is cut at the points where its state is worth looking at: *)
(* one step removes an entry from the open list (fetch_next_node and the   *)
(* part of step() before the loop over the operators), one generates a     *)
(* single successor, one follows a single parent pointer.                  *)
(***************************************************************************)
EXTENDS SearchEngine

CONSTANTS
    Queue,           \* "astar", "wastar" or "greedy": how open is ordered
    Weight,          \* the w of g + w * h
    ReopenClosed,    \* the option reopen_closed
    Prune,           \* [State -> SUBSET Op]: what prune_operators keeps
    NumPorProbes     \* the option num_por_probes

ASSUME SearchAssumption ==
    /\ Queue \in {"astar", "wastar", "greedy"}
    /\ Weight \in Nat \ {0}
    /\ ReopenClosed \in BOOLEAN
    /\ Prune \in [State -> SUBSET Op]
    /\ \A s \in State : Prune[s] \subseteq Applicable[s]
    /\ NumPorProbes \in Nat

VARIABLES
    open,            \* the entries of the open list
    todo,            \* applicable operators step() has yet to handle
    expanded,        \* statistics.get_expanded(), up to NumPorProbes + 1
    pruning_disabled

search_vars == <<open, todo, expanded, pruning_disabled>>
vars == <<h, status, g, real_g, parent, creating_op, open, phase, current,
          todo, expanded, pruning_disabled, path, path_cost>>

Phase == {"fetch", "expand", "trace", "solved", "failed"}

\* An entry of the open list remembers the g its key was computed with.  A
\* state is inserted again only with a smaller g, so no entry occurs twice.
Entry == [state : State, g : Nat]

\* Mutant: the open list forgets g.
EntryKey_IgnoresG(e) == h[e.state]

EntryKey(e) ==
    IF Queue = "greedy" THEN h[e.state]
    ELSE IF Queue = "wastar" THEN e.g + Weight * h[e.state]
    ELSE e.g + h[e.state]

\* remove_min: the smallest key; A* breaks ties in favour of smaller h.
IsMinimal(e) ==
    \A d \in open :
        \/ EntryKey(e) < EntryKey(d)
        \/ /\ EntryKey(e) = EntryKey(d)
           /\ Queue = "astar" => h[e.state] <= h[d.state]

-----------------------------------------------------------------------------
\* initialize(): the initial state is opened unless it is a dead end.
Init ==
    /\ h \in Heuristics
    /\ LET dead == h[InitialState] = Infty IN
       /\ status = [s \in State |-> IF s = InitialState /\ ~dead
                                    THEN "OPEN" ELSE "NEW"]
       /\ g = [s \in State |-> IF s = InitialState /\ ~dead THEN 0 ELSE -1]
       /\ real_g = g
       /\ open = IF dead THEN {} ELSE {[state |-> InitialState, g |-> 0]}
    /\ parent = [s \in State |-> NoState]
    /\ creating_op = [s \in State |-> NoOp]
    /\ phase = "fetch"
    /\ current = NoState
    /\ todo = {}
    /\ expanded = 0
    /\ pruning_disabled = FALSE
    /\ path = <<>>
    /\ path_cost = 0

-----------------------------------------------------------------------------
\* fetch_next_node with an empty open list: step() returns FAILED.
OpenListEmpty ==
    /\ phase = "fetch"
    /\ open = {}
    /\ phase' = "failed"
    /\ UNCHANGED <<h, node_vars, open, current, todo, expanded,
                   pruning_disabled, path, path_cost>>

\* fetch_next_node skips an entry whose node has been closed meanwhile.
SkipClosed(e) ==
    /\ phase = "fetch"
    /\ e \in open /\ IsMinimal(e)
    /\ status[e.state] = "CLOSED"
    /\ open' = open \ {e}
    /\ UNCHANGED <<h, node_vars, phase, current, todo, expanded,
                   pruning_disabled, path, path_cost>>

\* fetch_next_node closes the node ...
CloseNode(e) ==
    /\ phase = "fetch"
    /\ e \in open /\ IsMinimal(e)
    /\ status[e.state] # "CLOSED"
    /\ open' = open \ {e}
    /\ status' = [status EXCEPT ![e.state] = "CLOSED"]
    /\ current' = e.state
    /\ expanded' = IF expanded <= NumPorProbes THEN expanded + 1 ELSE expanded

\* ... step() starts tracing the plan if it is a goal ...
FetchGoal(e) ==
    /\ CloseNode(e)
    /\ e.state \in Goal
    /\ phase' = "trace"
    /\ UNCHANGED <<h, g, real_g, parent, creating_op, todo,
                   pruning_disabled, path, path_cost>>

\* ... and otherwise generates the operators to apply.  Whether the pruning
\* has been worthwhile so far depends on counts this model leaves out.
FetchNode(e) ==
    /\ CloseNode(e)
    /\ e.state \notin Goal
    /\ phase' = "expand"
    /\ \/ pruning_disabled' = pruning_disabled
       \/ NumPorProbes < expanded' /\ pruning_disabled' = TRUE
    /\ todo' = IF pruning_disabled' THEN Applicable[e.state] ELSE Prune[e.state]
    /\ UNCHANGED <<h, g, real_g, parent, creating_op, path, path_cost>>

-----------------------------------------------------------------------------
\* Mutant: the bound is taken to be inclusive.
WithinBound_Inclusive(o) == real_g[current] + Cost[o] <= Bound

\* Mutant: the cost of the operator is added to the real_g of the successor.
WithinBound_CostTwice(o) == real_g[current] + 2 * Cost[o] < Bound

WithinBound(o) == real_g[current] + Cost[o] < Bound

\* Mutants of the test for a cheaper path: a path as cheap as the present one
\* counts, the cost of the operator is left out, closed nodes are left alone.
IsCheaperPath_NotStrict(t, o) == g[t] >= g[current] + AdjustedCost(o)
IsCheaperPath_IgnoresCost(t, o) == g[t] > g[current]
IsCheaperPath_OnlyOpen(t, o) ==
    status[t] = "OPEN" /\ g[t] > g[current] + AdjustedCost(o)

IsCheaperPath(t, o) == g[t] > g[current] + AdjustedCost(o)

\* One iteration of the loop over applicable_ops is about operator o.
Generating(o) ==
    /\ phase = "expand"
    /\ o \in todo
    /\ todo' = todo \ {o}
    /\ UNCHANGED <<h, phase, current, expanded, pruning_disabled, path,
                   path_cost>>

InsertEntry(t, o) ==
    open' = open \cup {[state |-> t, g |-> g[current] + AdjustedCost(o)]}

\* The iterations that end in "continue", or find nothing new.
Nothing(o) ==
    /\ Generating(o)
    /\ LET t == Result[current][o] IN
       WithinBound(o) =>
          \/ status[t] = "DEAD_END"
          \/ status[t] \in {"OPEN", "CLOSED"} /\ ~IsCheaperPath(t, o)
    /\ UNCHANGED <<node_vars, open>>

NewDeadEnd(o) ==
    /\ Generating(o)
    /\ WithinBound(o)
    /\ LET t == Result[current][o] IN
       /\ status[t] = "NEW"
       /\ h[t] = Infty
       /\ status' = [status EXCEPT ![t] = "DEAD_END"]
    /\ UNCHANGED <<g, real_g, parent, creating_op, open>>

OpenNew(o) ==
    /\ Generating(o)
    /\ WithinBound(o)
    /\ LET t == Result[current][o] IN
       /\ status[t] = "NEW"
       /\ h[t] # Infty
       /\ status' = [status EXCEPT ![t] = "OPEN"]
       /\ SetParent(current, t, o)
       /\ InsertEntry(t, o)

ReopenNode(o) ==
    /\ Generating(o)
    /\ WithinBound(o)
    /\ ReopenClosed
    /\ LET t == Result[current][o] IN
       /\ status[t] \in {"OPEN", "CLOSED"}
       /\ IsCheaperPath(t, o)
       /\ status' = [status EXCEPT ![t] = "OPEN"]
       /\ SetParent(current, t, o)
       /\ InsertEntry(t, o)

UpdateParent(o) ==
    /\ Generating(o)
    /\ WithinBound(o)
    /\ ~ReopenClosed
    /\ LET t == Result[current][o] IN
       /\ status[t] \in {"OPEN", "CLOSED"}
       /\ IsCheaperPath(t, o)
       /\ SetParent(current, t, o)
    /\ UNCHANGED <<status, open>>

\* step() returns IN_PROGRESS.
ExpansionDone ==
    /\ phase = "expand"
    /\ todo = {}
    /\ phase' = "fetch"
    /\ UNCHANGED <<h, node_vars, open, current, todo, expanded,
                   pruning_disabled, path, path_cost>>

-----------------------------------------------------------------------------
\* check_goal_and_set_plan, the rest of the step that fetches a goal.
TraceStep == TraceParent /\ UNCHANGED search_vars
TraceEnd == TraceDone /\ UNCHANGED search_vars

Finished == phase \in {"solved", "failed"} /\ UNCHANGED vars

Fetch == OpenListEmpty
         \/ \E e \in open : SkipClosed(e) \/ FetchGoal(e) \/ FetchNode(e)
Expand == ExpansionDone
          \/ \E o \in todo : \/ Nothing(o) \/ NewDeadEnd(o) \/ OpenNew(o)
                             \/ ReopenNode(o) \/ UpdateParent(o)
Trace == TraceStep \/ TraceEnd

Next == Fetch \/ Expand \/ Trace \/ Finished

\* search() calls step() until it stops returning IN_PROGRESS.
Spec == Init /\ [][Next]_vars /\ WF_vars(Next)

-----------------------------------------------------------------------------
(***************************************************************************)
(* Properties                                                              *)
(***************************************************************************)

\* The fields of the nodes and of the engine have the types of the code.
TypeOK ==
    /\ h \in Heuristics
    /\ status \in [State -> Status]
    /\ g \in [State -> Int]
    /\ real_g \in [State -> Int]
    /\ parent \in [State -> State \cup {NoState}]
    /\ creating_op \in [State -> Op \cup {NoOp}]
    /\ open \subseteq Entry
    /\ phase \in Phase
    /\ current \in State \cup {NoState}
    /\ todo \subseteq Op
    /\ expanded \in Nat
    /\ pruning_disabled \in BOOLEAN
    /\ path \in Seq(Op)
    /\ path_cost \in Nat

\* Lazy deletion loses no node: whatever the open list holds has been reached
\* and is not a dead end (the assertions of SearchNode::close and
\* fetch_next_node), and an open node always has an entry left that will
\* close it, one with its present g if nodes are reopened.
OpenNodesAreQueued ==
    /\ \A e \in open : e.state \in Reached /\ g[e.state] <= e.g
    /\ \A s \in State : status[s] = "OPEN" =>
          \E e \in open : e.state = s /\ (ReopenClosed => e.g = g[s])

\* With reopening, the successors of a closed node never miss the path
\* through it: they are dead ends, were cut off by the bound, or have a g no
\* larger than that path gives them.
ClosedNodesAreExpanded ==
    ReopenClosed =>
        \A s \in State \ Goal : \A o \in Prune[s] :
            (/\ status[s] = "CLOSED"
             /\ ~(phase = "expand" /\ s = current /\ o \in todo)
             /\ real_g[s] + Cost[o] < Bound)
            => LET t == Result[s][o] IN
               \/ status[t] = "DEAD_END"
               \/ t \in Reached /\ g[t] <= g[s] + AdjustedCost(o)

\* A* finds a cheapest plan: the cost of the plan traced back (which may be
\* below the g of the goal) is the distance of the initial state.
SolvedIsOptimal ==
    phase = "solved" =>
        InitialState \in Solvable /\ path_cost = Dist[InitialState]

\* "Completely explored state space -- no solution!" is only said when there
\* is no plan cheaper than the bound.
FailedIsUnsolvable ==
    phase = "failed" =>
        InitialState \notin Solvable \/ Bound <= Dist[InitialState]

\* The search and the trace of its plan end.
Terminates == <>(phase \in {"solved", "failed"})

-----------------------------------------------------------------------------
(***************************************************************************)
(* The inductive invariant behind the proofs of EagerSearch_proofs.        *)
(***************************************************************************)

PruningKeepsAPlan ==
    \A s \in Solvable \ Goal : \E o \in Prune[s] :
        /\ Result[s][o] \in Solvable
        /\ Dist[s] = Cost[o] + Dist[Result[s][o]]
        /\ Rank[Result[s][o]] < Rank[s]

NodesOK ==
    /\ \A s \in Reached : g[s] \in Nat /\ real_g[s] \in Nat
    /\ \A s \in State : status[s] = "DEAD_END" => h[s] = Infty
    /\ CostType = "NORMAL" => \A s \in Reached : real_g[s] = g[s]
    /\ 0 < Bound => \A s \in Reached : real_g[s] < Bound

InitialStateOK ==
    \/ InitialState \in Reached /\ g[InitialState] = 0
    \/ /\ h[InitialState] = Infty
       /\ Reached = {}
       /\ phase \in {"fetch", "failed"}

\* No goal is ever expanded.
ExpansionOK ==
    /\ phase = "expand" =>
          current \in State /\ status[current] = "CLOSED" /\ current \notin Goal
    /\ phase # "expand" => todo = {}
    /\ phase = "failed" => open = {}
    /\ todo # {} => todo \subseteq Applicable[current]
    /\ phase \in {"fetch", "expand", "failed"} =>
          \A s \in Goal : status[s] # "CLOSED"

\* The path collected so far is a plan for the node the trace has reached,
\* so its cost is at least the distance of that node.
TraceOK ==
    /\ phase \in {"trace", "solved"} =>
          /\ current \in Reached
          /\ current \in Solvable
          /\ Dist[current] <= path_cost
          /\ CostType = "NORMAL" /\ 0 < Bound => path_cost + g[current] < Bound
    /\ phase = "solved" => creating_op[current] = NoOp
    /\ phase \in {"fetch", "expand", "failed"} => path_cost = 0

SearchInv ==
    /\ TypeOK
    /\ NodesOK
    /\ InitialStateOK
    /\ OpenNodesAreQueued
    /\ ParentsAreEdges
    /\ ClosedNodesAreExpanded
    /\ ExpansionOK
    /\ TraceOK

\* With reopening and an admissible heuristic the path collected plus the g
\* of the node the trace has reached never exceed the distance of the
\* initial state.
TraceOptimal ==
    phase \in {"trace", "solved"} /\ InitialState \in Solvable
        /\ Dist[InitialState] < Bound
        => path_cost + g[current] <= Dist[InitialState]
=============================================================================
