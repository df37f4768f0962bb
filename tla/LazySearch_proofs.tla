------------------------- MODULE LazySearch_proofs -------------------------
(***************************************************************************)
(* Proofs about LazySearch for every task, heuristic and option.  The      *)
(* invariant LazyInv says of each edge where it is on its way through the  *)
(* open list; that none is lost (EdgesAreKept) is one of its conjuncts.    *)
(***************************************************************************)
EXTENDS LazySearch, TLAPS, SequenceTheorems, WellFoundedInduction

TypeOK ==
    /\ h \in Heuristics
    /\ reopen_closed_nodes \in BOOLEAN
    /\ status \in [State -> {"NEW", "CLOSED", "DEAD_END"}]
    /\ g \in [State -> Int]
    /\ real_g \in [State -> Int]
    /\ parent \in [State -> State \cup {NoState}]
    /\ creating_op \in [State -> Op \cup {NoOp}]
    /\ phase \in Phase
    /\ current \in State
    /\ open \subseteq Entry
    /\ path_cost \in Nat

\* With NORMAL costs a node never has a g at or above the bound.
BelowBound(n) == CostType = "NORMAL" /\ 0 < Bound => n < Bound

NodesOK ==
    /\ \A s \in Reached :
          /\ g[s] \in Nat /\ real_g[s] \in Nat
          /\ CostType = "NORMAL" => real_g[s] = g[s]
          /\ BelowBound(g[s])
    /\ \A s \in State : status[s] = "DEAD_END" => h[s] = Infty
    /\ \A s \in State : status[s] = "NEW" => creating_op[s] = NoOp

\* An entry has passed the test of the bound, and the g of the node it starts
\* in has only become smaller since.
EntriesOK ==
    \A e \in open : /\ e.state \in Reached \ Goal
                    /\ e.op \in Applicable[e.state]
                    /\ CostType = "NORMAL" => g[e.state] + Cost[e.op] < Bound

Starting == phase = "evaluate" /\ current_predecessor = NoState

StartOK ==
    IF Starting
    THEN /\ current = InitialState /\ current_operator = NoOp
         /\ current_g = 0 /\ current_real_g = 0
         /\ open = {}
         /\ \A s \in State : status[s] = "NEW"
    ELSE /\ status[InitialState] # "NEW"
         /\ InitialState \in Reached => g[InitialState] = 0

FollowingOK ==
    phase = "evaluate" /\ current_predecessor # NoState =>
        /\ current_predecessor \in Reached \ Goal
        /\ current_operator \in Applicable[current_predecessor]
        /\ current = Result[current_predecessor][current_operator]
        /\ current_g = g[current_predecessor] + AdjustedCost(current_operator)
        /\ current_real_g = real_g[current_predecessor] + Cost[current_operator]
        /\ CostType = "NORMAL" => current_g < Bound

PhaseOK ==
    /\ phase \in {"evaluate", "fetch", "failed"} => Reached \cap Goal = {}
    /\ phase = "failed" => open = {}

TraceOK ==
    /\ phase \in {"trace", "solved"} =>
          current \in Reached /\ BelowBound(path_cost + g[current])
    /\ phase \in {"evaluate", "fetch", "failed"} => path_cost = 0

LazyInv ==
    /\ TypeOK /\ NodesOK /\ EntriesOK /\ StartOK /\ FollowingOK /\ PhaseOK
    /\ ParentsAreEdges /\ TraceOK /\ EdgesAreKept

-----------------------------------------------------------------------------
LEMMA AdjustedCostNat == \A o \in Op : AdjustedCost(o) \in Nat
  BY TaskAssumption DEF AdjustedCost

LEMMA AdjustedCostNormal ==
    CostType = "NORMAL" => \A o \in Op : AdjustedCost(o) = Cost[o]
  BY TaskAssumption DEF AdjustedCost

LEMMA ReachedAreClosed ==
  ASSUME TypeOK
  PROVE  \A s \in State : s \in Reached <=> status[s] = "CLOSED"
BY DEF TypeOK, Reached

\* What is known of the state that is evaluated.
LEMMA EvaluationFacts ==
  ASSUME LazyInv, phase = "evaluate"
  PROVE  /\ current \in State /\ current_g \in Nat /\ current_real_g \in Nat
         /\ CostType = "NORMAL" => current_real_g = current_g
         /\ BelowBound(current_g)
         /\ current_predecessor # NoState =>
               /\ current_predecessor \in State /\ current_operator \in Op
               /\ g[current_predecessor] <= current_g
<1>1. CASE current_predecessor = NoState
  BY <1>1 DEF LazyInv, TypeOK, StartOK, Starting, BelowBound
<1>2. CASE current_predecessor # NoState
  <2> DEFINE s == current_predecessor
             o == current_operator
  <2>1. /\ s \in Reached /\ s \in State /\ o \in Applicable[s]
        /\ current_g = g[s] + AdjustedCost(o)
        /\ current_real_g = real_g[s] + Cost[o]
        /\ CostType = "NORMAL" => current_g < Bound
    BY <1>2 DEF LazyInv, FollowingOK, Reached
  <2>2. o \in Op /\ AdjustedCost(o) \in Nat /\ Cost[o] \in Nat
    BY <2>1, TaskAssumption, AdjustedCostNat
  <2>3. /\ g[s] \in Nat /\ real_g[s] \in Nat
        /\ CostType = "NORMAL" => real_g[s] = g[s] /\ AdjustedCost(o) = Cost[o]
    BY <2>1, <2>2, AdjustedCostNormal DEF LazyInv, NodesOK
  <2>4. current \in State
    BY DEF LazyInv, TypeOK
  <2> QED
    BY <2>1, <2>2, <2>3, <2>4 DEF BelowBound
<1> QED
  BY <1>1, <1>2

\* What closing the node of the current state changes.
LEMMA ClosingFacts ==
  ASSUME LazyInv, CloseNode
  PROVE  /\ current \in State /\ current \notin {s \in State : status[s] = "DEAD_END"}
         /\ status' = [status EXCEPT ![current] = "CLOSED"]
         /\ Reached' = Reached \cup {current}
         /\ g'[current] = current_g /\ real_g'[current] = current_real_g
         /\ g' \in [State -> Int] /\ real_g' \in [State -> Int]
         /\ parent' \in [State -> State \cup {NoState}]
         /\ creating_op' \in [State -> Op \cup {NoOp}]
         /\ \A s \in State \ {current} :
               /\ g'[s] = g[s] /\ real_g'[s] = real_g[s]
               /\ parent'[s] = parent[s] /\ creating_op'[s] = creating_op[s]
         /\ current \in Reached => current_g < g[current]
         /\ IF current_predecessor = NoState
            THEN creating_op'[current] = NoOp
            ELSE /\ parent'[current] = current_predecessor
                 /\ creating_op'[current] = current_operator
                 /\ current_predecessor # current
<1>0. /\ TypeOK /\ NodesOK /\ StartOK /\ FollowingOK /\ phase = "evaluate"
  BY DEF LazyInv, CloseNode
<1>1. /\ current \in State /\ current_g \in Nat /\ current_real_g \in Nat
      /\ status' = [status EXCEPT ![current] = "CLOSED"]
      /\ status[current] = "NEW" \/ (status[current] = "CLOSED" /\ current_g < g[current])
  BY <1>0, EvaluationFacts DEF CloseNode, IsNew, Reopen, TypeOK
<1>2. Reached' = Reached \cup {current}
  BY <1>0, <1>1 DEF Reached, TypeOK
<1>3. current \in Reached => current_g < g[current]
  BY <1>1 DEF Reached
<1>4. CASE current_predecessor = NoState
  <2>1. /\ g' = [g EXCEPT ![current] = 0] /\ real_g' = [real_g EXCEPT ![current] = 0]
        /\ parent' = parent /\ creating_op' = creating_op
    BY <1>4 DEF CloseNode
  <2>2. current_g = 0 /\ current_real_g = 0 /\ status[current] = "NEW"
    BY <1>0, <1>1, <1>4 DEF StartOK, Starting
  <2> QED
    BY <1>0, <1>1, <1>2, <1>3, <1>4, <2>1, <2>2 DEF TypeOK, NodesOK
<1>5. CASE current_predecessor # NoState
  <2>1. /\ current_predecessor \in State /\ current_predecessor \in Reached
        /\ current_operator \in Op
        /\ current_g = g[current_predecessor] + AdjustedCost(current_operator)
        /\ current_real_g = real_g[current_predecessor] + Cost[current_operator]
        /\ g[current_predecessor] <= current_g
        /\ g[current_predecessor] \in Nat
    BY <1>0, <1>5, EvaluationFacts DEF FollowingOK, NodesOK
  <2>2. /\ g' = [g EXCEPT ![current] = current_g]
        /\ real_g' = [real_g EXCEPT ![current] = current_real_g]
        /\ parent' = [parent EXCEPT ![current] = current_predecessor]
        /\ creating_op' = [creating_op EXCEPT ![current] = current_operator]
    BY <1>5, <2>1 DEF CloseNode, SetParent
  <2>3. current_predecessor # current
    BY <1>1, <1>3, <2>1
  <2> QED
    BY <1>0, <1>1, <1>2, <1>3, <1>5, <2>1, <2>2, <2>3 DEF TypeOK
<1> QED
  BY <1>4, <1>5

LEMMA LazyInvInit == Init => LazyInv
<1> SUFFICES ASSUME Init PROVE LazyInv
  OBVIOUS
<1>1. Reached = {} /\ \A s \in State : status[s] = "NEW" /\ creating_op[s] = NoOp
  BY DEF Init, Reached
<1>2. TypeOK
  BY TaskAssumption DEF Init, TypeOK, Phase
<1>3. NodesOK /\ EntriesOK /\ PhaseOK /\ ParentsAreEdges
  BY <1>1 DEF NodesOK, EntriesOK, PhaseOK, ParentsAreEdges, Init
<1>4. StartOK /\ FollowingOK /\ TraceOK
  BY <1>1 DEF StartOK, Starting, FollowingOK, TraceOK, Init
<1>5. EdgesAreKept
  BY <1>1 DEF EdgesAreKept
<1> QED
  BY <1>2, <1>3, <1>4, <1>5 DEF LazyInv

-----------------------------------------------------------------------------
(***************************************************************************)
(* Closing a node                                                          *)
(***************************************************************************)
LEMMA ClosingNodes ==
  ASSUME LazyInv, CloseNode, h' = h
  PROVE  NodesOK'
<1>1. /\ current \in State /\ Reached' = Reached \cup {current}
      /\ status' = [status EXCEPT ![current] = "CLOSED"]
      /\ g'[current] = current_g /\ real_g'[current] = current_real_g
      /\ \A s \in State \ {current} :
            g'[s] = g[s] /\ real_g'[s] = real_g[s] /\ creating_op'[s] = creating_op[s]
  BY ClosingFacts
<1>2. /\ current_g \in Nat /\ current_real_g \in Nat /\ BelowBound(current_g)
      /\ CostType = "NORMAL" => current_real_g = current_g
  BY EvaluationFacts DEF CloseNode
<1>3. NodesOK /\ TypeOK
  BY DEF LazyInv
<1>4. \A s \in Reached' :
         /\ g'[s] \in Nat /\ real_g'[s] \in Nat
         /\ CostType = "NORMAL" => real_g'[s] = g'[s]
         /\ BelowBound(g'[s])
  <2> SUFFICES ASSUME NEW s \in Reached'
               PROVE  /\ g'[s] \in Nat /\ real_g'[s] \in Nat
                      /\ CostType = "NORMAL" => real_g'[s] = g'[s]
                      /\ BelowBound(g'[s])
    OBVIOUS
  <2>1. CASE s = current
    BY <1>1, <1>2, <2>1
  <2>2. CASE s # current
    <3>1. s \in Reached /\ s \in State
      BY <1>1, <2>2 DEF Reached
    <3> QED
      BY <1>1, <1>3, <2>2, <3>1 DEF NodesOK
  <2> QED
    BY <2>1, <2>2
<1>5. \A s \in State : /\ status'[s] = "DEAD_END" => h'[s] = Infty
                       /\ status'[s] = "NEW" => creating_op'[s] = NoOp
  BY <1>1, <1>3 DEF NodesOK, TypeOK
<1> QED
  BY <1>4, <1>5 DEF NodesOK, BelowBound

LEMMA ClosingParents ==
  ASSUME LazyInv, CloseNode
  PROVE  ParentsAreEdges'
<1> SUFFICES ASSUME NEW s \in Reached'
             PROVE  IF creating_op'[s] = NoOp
                    THEN s = InitialState /\ g'[s] = 0
                    ELSE /\ parent'[s] \in Reached'
                         /\ creating_op'[s] \in Applicable[parent'[s]]
                         /\ Result[parent'[s]][creating_op'[s]] = s
                         /\ g'[parent'[s]] + AdjustedCost(creating_op'[s]) <= g'[s]
  BY DEF ParentsAreEdges
<1>1. /\ current \in State /\ Reached' = Reached \cup {current}
      /\ g'[current] = current_g
      /\ current \in Reached => current_g < g[current]
      /\ \A r \in State \ {current} :
            /\ g'[r] = g[r]
            /\ parent'[r] = parent[r] /\ creating_op'[r] = creating_op[r]
      /\ IF current_predecessor = NoState
         THEN creating_op'[current] = NoOp
         ELSE /\ parent'[current] = current_predecessor
              /\ creating_op'[current] = current_operator
              /\ current_predecessor # current
  BY ClosingFacts
<1>2. /\ NodesOK /\ StartOK /\ FollowingOK /\ ParentsAreEdges /\ phase = "evaluate"
      /\ current_g \in Nat
      /\ current_predecessor # NoState => current_operator \in Op
  BY EvaluationFacts DEF LazyInv, CloseNode
<1>3. CASE s = current /\ current_predecessor = NoState
  BY <1>1, <1>2, <1>3 DEF StartOK, Starting
<1>4. CASE s = current /\ current_predecessor # NoState
  <2>1. /\ current_predecessor \in Reached /\ current_predecessor \in State
        /\ current_operator \in Applicable[current_predecessor]
        /\ current = Result[current_predecessor][current_operator]
        /\ current_g = g[current_predecessor] + AdjustedCost(current_operator)
        /\ current_operator # NoOp
    BY <1>2, <1>4, EngineAssumption DEF FollowingOK, Reached
  <2>2. /\ parent'[s] = current_predecessor /\ creating_op'[s] = current_operator
        /\ g'[current_predecessor] = g[current_predecessor]
    BY <1>1, <1>4, <2>1
  <2> QED
    BY <1>1, <1>2, <1>4, <2>1, <2>2
<1>5. CASE s # current
  <2>1. s \in Reached /\ s \in State
    BY <1>1, <1>5 DEF Reached
  <2>2. /\ g'[s] = g[s] /\ parent'[s] = parent[s] /\ creating_op'[s] = creating_op[s]
    BY <1>1, <1>5, <2>1
  <2>3. CASE creating_op[s] = NoOp
    BY <1>2, <2>1, <2>2, <2>3 DEF ParentsAreEdges
  <2>4. CASE creating_op[s] # NoOp
    <3> DEFINE p == parent[s]
               o == creating_op[s]
    <3>1. /\ p \in Reached /\ p \in State /\ o \in Applicable[p] /\ Result[p][o] = s
          /\ g[p] + AdjustedCost(o) <= g[s]
      BY <1>2, <2>1, <2>4 DEF ParentsAreEdges, Reached
    <3>2. o \in Op /\ AdjustedCost(o) \in Nat /\ g[p] \in Nat /\ g[s] \in Nat
      BY <1>2, <2>1, <3>1, TaskAssumption, AdjustedCostNat DEF NodesOK
    <3>3. g'[p] \in Nat /\ g'[p] <= g[p]
      BY <1>1, <1>2, <3>1, <3>2
    <3>4. g'[p] + AdjustedCost(o) <= g[s]
      BY <3>1, <3>2, <3>3
    <3> QED
      BY <1>1, <2>2, <2>4, <3>1, <3>4
  <2> QED
    BY <2>3, <2>4
<1> QED
  BY <1>3, <1>4, <1>5

\* Entries and edges that were dealt with stay so: nodes only get better.
LEMMA ClosingEntries ==
  ASSUME LazyInv, CloseNode, NEW e \in open
  PROVE  /\ e.state \in Reached' \ Goal
         /\ e.op \in Applicable[e.state]
         /\ CostType = "NORMAL" => g'[e.state] + Cost[e.op] < Bound
<1>1. /\ e.state \in Reached \ Goal /\ e.state \in State
      /\ e.op \in Applicable[e.state] /\ e.op \in Op
      /\ CostType = "NORMAL" => g[e.state] + Cost[e.op] < Bound
  BY TaskAssumption DEF LazyInv, EntriesOK, Reached
<1>2. /\ Reached' = Reached \cup {current}
      /\ g'[e.state] = g[e.state] \/ (e.state = current /\ g'[e.state] < g[e.state])
      /\ g'[current] = current_g
  BY <1>1, ClosingFacts
<1>3. /\ g[e.state] \in Nat /\ current_g \in Nat /\ Cost[e.op] \in Nat /\ Bound \in Nat
  BY <1>1, EvaluationFacts, TaskAssumption DEF LazyInv, NodesOK, CloseNode
<1>4. g'[e.state] \in Nat /\ g'[e.state] <= g[e.state]
  BY <1>2, <1>3
<1> QED
  BY <1>1, <1>2, <1>3, <1>4

LEMMA ClosingEdges ==
  ASSUME LazyInv, CloseNode, NEW s \in State \ Goal, s # current,
         NEW o \in Applicable[s], status'[s] = "CLOSED", real_g'[s] + Cost[o] < Bound,
         reopen_closed_nodes' = reopen_closed_nodes
  PROVE  LET t == Result[s][o] IN
         \/ \E e \in open : e.state = s /\ e.op = o
         \/ status'[t] = "DEAD_END"
         \/ /\ t \in Reached'
            /\ reopen_closed_nodes' => g'[t] <= g'[s] + AdjustedCost(o)
<1> DEFINE t == Result[s][o]
<1>1. /\ current \in State /\ Reached' = Reached \cup {current}
      /\ status' = [status EXCEPT ![current] = "CLOSED"]
      /\ g'[current] = current_g
      /\ current \in Reached => current_g < g[current]
      /\ current \notin {r \in State : status[r] = "DEAD_END"}
      /\ \A r \in State \ {current} : g'[r] = g[r] /\ real_g'[r] = real_g[r]
  BY ClosingFacts
<1>2. /\ TypeOK /\ NodesOK /\ FollowingOK /\ EdgesAreKept /\ phase = "evaluate"
  BY DEF LazyInv, CloseNode
<1>3. o \in Op /\ t \in State /\ AdjustedCost(o) \in Nat
  BY TaskAssumption, AdjustedCostNat
<1>4. /\ status[s] = "CLOSED" /\ real_g[s] + Cost[o] < Bound
      /\ g'[s] = g[s]
  BY <1>1, <1>2 DEF TypeOK
<1>5. /\ s \in Reached /\ g[s] \in Nat /\ current_g \in Nat
  BY <1>2, <1>4, EvaluationFacts DEF Reached, NodesOK
<1>6. \/ \E e \in open : e.state = s /\ e.op = o
      \/ Following(s, o)
      \/ status[t] = "DEAD_END"
      \/ /\ t \in Reached
         /\ reopen_closed_nodes => g[t] <= g[s] + AdjustedCost(o)
  BY <1>2, <1>4 DEF EdgesAreKept
<1>7. CASE Following(s, o)
  <2>1. t = current /\ current_g = g[s] + AdjustedCost(o)
    BY <1>2, <1>7, EngineAssumption DEF Following, FollowingOK
  <2> QED
    BY <1>1, <1>3, <1>4, <1>5, <2>1
<1>8. CASE status[t] = "DEAD_END"
  BY <1>1, <1>2, <1>3, <1>8 DEF TypeOK
<1>9. CASE /\ t \in Reached
           /\ reopen_closed_nodes => g[t] <= g[s] + AdjustedCost(o)
  <2>1. g[t] \in Nat
    BY <1>2, <1>9 DEF NodesOK
  <2>2. g'[t] \in Nat /\ g'[t] <= g[t]
    BY <1>1, <1>3, <1>5, <1>9, <2>1
  <2> QED
    BY <1>1, <1>3, <1>4, <1>5, <1>9, <2>1, <2>2
<1> QED
  BY <1>6, <1>7, <1>8, <1>9

LEMMA ClosingStart ==
  ASSUME LazyInv, CloseNode
  PROVE  /\ status'[InitialState] # "NEW"
         /\ InitialState \in Reached' => g'[InitialState] = 0
<1>1. /\ current \in State /\ Reached' = Reached \cup {current}
      /\ status' = [status EXCEPT ![current] = "CLOSED"]
      /\ g'[current] = current_g
      /\ current \in Reached => current_g < g[current]
      /\ current \notin {r \in State : status[r] = "DEAD_END"}
      /\ \A r \in State \ {current} : g'[r] = g[r]
  BY ClosingFacts
<1>2. /\ TypeOK /\ StartOK /\ phase = "evaluate" /\ current_g \in Nat
  BY EvaluationFacts DEF LazyInv, CloseNode
<1>3. CASE current_predecessor = NoState
  BY <1>1, <1>2, <1>3 DEF StartOK, Starting, TypeOK
<1>4. CASE current_predecessor # NoState
  <2>1. status[InitialState] # "NEW" /\ (InitialState \in Reached => g[InitialState] = 0)
    BY <1>2, <1>4 DEF StartOK, Starting
  <2>2. InitialState \in State
    BY TaskAssumption
  <2>3. InitialState # current
    <3> SUFFICES ASSUME InitialState = current PROVE FALSE
      OBVIOUS
    <3>1. current \in Reached
      BY <1>1, <1>2, <2>1, <2>2 DEF TypeOK, Reached
    <3> QED
      BY <1>1, <1>2, <2>1, <3>1
  <2> QED
    BY <1>1, <1>2, <2>1, <2>2, <2>3 DEF TypeOK, Reached
<1> QED
  BY <1>3, <1>4

LEMMA ClosingTypes ==
  ASSUME LazyInv, CloseNode, h' = h, reopen_closed_nodes' = reopen_closed_nodes,
         phase' \in Phase, current' = current, open' \subseteq Entry, path_cost' = path_cost
  PROVE  TypeOK'
<1>1. status' = [status EXCEPT ![current] = "CLOSED"] /\ current \in State
  BY ClosingFacts
<1>2. status' \in [State -> {"NEW", "CLOSED", "DEAD_END"}]
  BY <1>1 DEF LazyInv, TypeOK
<1>3. /\ g' \in [State -> Int] /\ real_g' \in [State -> Int]
      /\ parent' \in [State -> State \cup {NoState}]
      /\ creating_op' \in [State -> Op \cup {NoOp}]
  BY ClosingFacts
<1> QED
  BY <1>2, <1>3 DEF LazyInv, TypeOK

LEMMA ExpandKeeps ==
  ASSUME LazyInv, Expand
  PROVE  LazyInv'
<1>1. /\ CloseNode /\ current \notin Goal /\ open' = open \cup Successors
      /\ phase' = "fetch" /\ h' = h /\ reopen_closed_nodes' = reopen_closed_nodes
      /\ path_cost' = path_cost /\ current' = current /\ phase = "evaluate"
  BY DEF Expand, fetch_vars, CloseNode
<1>2. /\ current \in State /\ current_g \in Nat /\ current_real_g \in Nat
      /\ CostType = "NORMAL" => current_real_g = current_g
  BY <1>1, EvaluationFacts
<1>3. /\ Reached' = Reached \cup {current}
      /\ g'[current] = current_g /\ real_g'[current] = current_real_g
  BY <1>1, ClosingFacts
<1>4. ASSUME NEW e \in Successors
      PROVE  /\ e \in Entry /\ e.state = current /\ e.op \in Applicable[current]
             /\ e.op \in Op /\ current_real_g + Cost[e.op] < Bound
  <2>1. PICK o \in Applicable[current] :
           /\ e = [state |-> current, op |-> o, g |-> current_g + AdjustedCost(o)]
           /\ current_real_g + Cost[o] < Bound
    BY DEF Successors, WithinBound
  <2>2. o \in Op /\ AdjustedCost(o) \in Nat
    BY <1>2, TaskAssumption, AdjustedCostNat
  <2> QED
    BY <1>2, <2>1, <2>2 DEF Entry
<1>5. TypeOK'
  <2>1. open' \subseteq Entry
    BY <1>1, <1>4 DEF LazyInv, TypeOK
  <2> QED
    BY <1>1, <2>1, ClosingTypes DEF Phase
<1>6. EntriesOK'
  <2> SUFFICES ASSUME NEW e \in open'
               PROVE  /\ e.state \in Reached' \ Goal
                      /\ e.op \in Applicable[e.state]
                      /\ CostType = "NORMAL" => g'[e.state] + Cost[e.op] < Bound
    BY DEF EntriesOK
  <2>1. CASE e \in open
    BY <1>1, <2>1, ClosingEntries
  <2>2. CASE e \in Successors
    BY <1>1, <1>2, <1>3, <1>4, <2>2
  <2> QED
    BY <1>1, <2>1, <2>2
<1>7. StartOK' /\ FollowingOK' /\ PhaseOK' /\ TraceOK'
  <2>1. StartOK'
    BY <1>1, ClosingStart DEF StartOK, Starting
  <2>2. FollowingOK'
    BY <1>1 DEF FollowingOK
  <2>3. PhaseOK' /\ TraceOK'
    BY <1>1, <1>3 DEF LazyInv, PhaseOK, TraceOK
  <2> QED
    BY <2>1, <2>2, <2>3
<1>8. EdgesAreKept'
  <2> SUFFICES ASSUME NEW s \in State \ Goal, NEW o \in Applicable[s],
                      status'[s] = "CLOSED", real_g'[s] + Cost[o] < Bound
               PROVE  LET t == Result[s][o] IN
                      \/ \E e \in open' : e.state = s /\ e.op = o
                      \/ status'[t] = "DEAD_END"
                      \/ /\ t \in Reached'
                         /\ reopen_closed_nodes' => g'[t] <= g'[s] + AdjustedCost(o)
    BY DEF EdgesAreKept
  <2>1. CASE s = current
    <3> DEFINE e == [state |-> current, op |-> o, g |-> current_g + AdjustedCost(o)]
    <3>1. e \in Successors
      BY <1>3, <2>1 DEF Successors, WithinBound
    <3>2. e \in open' /\ e.state = s /\ e.op = o
      BY <1>1, <2>1, <3>1
    <3> QED
      BY <3>2
  <2>2. CASE s # current
    BY <1>1, <2>2, ClosingEdges
  <2> QED
    BY <2>1, <2>2
<1>9. NodesOK' /\ ParentsAreEdges'
  BY <1>1, ClosingNodes, ClosingParents
<1> QED
  BY <1>5, <1>6, <1>7, <1>8, <1>9 DEF LazyInv

LEMMA CloseGoalKeeps ==
  ASSUME LazyInv, CloseGoal
  PROVE  LazyInv'
<1>1. /\ CloseNode /\ current \in Goal /\ open' = open
      /\ phase' = "trace" /\ h' = h /\ reopen_closed_nodes' = reopen_closed_nodes
      /\ path_cost' = path_cost /\ current' = current /\ phase = "evaluate"
  BY DEF CloseGoal, fetch_vars, CloseNode
<1>2. /\ current \in State /\ current_g \in Nat /\ BelowBound(current_g)
  BY <1>1, EvaluationFacts
<1>3. /\ Reached' = Reached \cup {current} /\ g'[current] = current_g
  BY <1>1, ClosingFacts
<1>4. TypeOK'
  <2>1. open' \subseteq Entry
    BY <1>1 DEF LazyInv, TypeOK
  <2> QED
    BY <1>1, <2>1, ClosingTypes DEF Phase
<1>5. EntriesOK'
  BY <1>1, ClosingEntries DEF EntriesOK
<1>6. StartOK' /\ FollowingOK' /\ PhaseOK'
  BY <1>1, ClosingStart DEF StartOK, Starting, FollowingOK, PhaseOK
<1>7. TraceOK'
  <2>1. path_cost = 0
    BY <1>1 DEF LazyInv, TraceOK
  <2>2. path_cost' + g'[current'] = current_g
    BY <1>1, <1>2, <1>3, <2>1
  <2> QED
    BY <1>1, <1>2, <1>3, <2>2 DEF TraceOK, BelowBound
<1>8. EdgesAreKept'
  <2> SUFFICES ASSUME NEW s \in State \ Goal, NEW o \in Applicable[s],
                      status'[s] = "CLOSED", real_g'[s] + Cost[o] < Bound
               PROVE  LET t == Result[s][o] IN
                      \/ \E e \in open' : e.state = s /\ e.op = o
                      \/ status'[t] = "DEAD_END"
                      \/ /\ t \in Reached'
                         /\ reopen_closed_nodes' => g'[t] <= g'[s] + AdjustedCost(o)
    BY DEF EdgesAreKept
  <2> QED
    BY <1>1, ClosingEdges
<1>9. NodesOK' /\ ParentsAreEdges'
  BY <1>1, ClosingNodes, ClosingParents
<1> QED
  BY <1>4, <1>5, <1>6, <1>7, <1>8, <1>9 DEF LazyInv

-----------------------------------------------------------------------------
(***************************************************************************)
(* The other steps                                                         *)
(***************************************************************************)
\* Steps that change no node.
LEMMA SameNodes ==
  ASSUME LazyInv, UNCHANGED <<h, node_vars>>
  PROVE  NodesOK' /\ ParentsAreEdges' /\ Reached' = Reached
<1>1. Reached' = Reached
  BY DEF Reached, node_vars
<1>2. NodesOK'
  BY <1>1 DEF LazyInv, NodesOK, node_vars
<1>3. ParentsAreEdges'
  BY <1>1 DEF LazyInv, ParentsAreEdges, node_vars
<1> QED
  BY <1>1, <1>2, <1>3

LEMMA NothingNewKeeps ==
  ASSUME LazyInv, NothingNew
  PROVE  LazyInv'
<1>1. /\ phase = "evaluate" /\ phase' = "fetch" /\ ~IsNew /\ ~Reopen
      /\ UNCHANGED <<h, reopen_closed_nodes, node_vars, path_cost, open, fetch_vars>>
  BY DEF NothingNew
<1>2. Reached' = Reached /\ NodesOK' /\ ParentsAreEdges'
  BY <1>1, SameNodes
<1>3. TypeOK' /\ EntriesOK' /\ FollowingOK' /\ PhaseOK' /\ TraceOK'
  BY <1>1, <1>2 DEF LazyInv, TypeOK, Phase, EntriesOK, FollowingOK, PhaseOK, TraceOK,
     node_vars, fetch_vars
<1>4. StartOK'
  <2>1. ~Starting
    BY <1>1 DEF LazyInv, StartOK, Starting, IsNew, TypeOK
  <2> QED
    BY <1>1, <1>2, <2>1 DEF LazyInv, StartOK, Starting, node_vars
<1>5. EdgesAreKept'
  <2> SUFFICES ASSUME NEW s \in State \ Goal, NEW o \in Applicable[s],
                      status[s] = "CLOSED", real_g[s] + Cost[o] < Bound
               PROVE  LET t == Result[s][o] IN
                      \/ \E e \in open : e.state = s /\ e.op = o
                      \/ status[t] = "DEAD_END"
                      \/ /\ t \in Reached
                         /\ reopen_closed_nodes => g[t] <= g[s] + AdjustedCost(o)
    BY <1>1, <1>2 DEF EdgesAreKept, node_vars
  <2>1. CASE Following(s, o)
    <3>1. Result[s][o] = current /\ current_g = g[s] + AdjustedCost(o) /\ current \in State
      BY <2>1, EngineAssumption DEF LazyInv, FollowingOK, Following, TypeOK
    <3>2. \/ status[current] = "DEAD_END"
          \/ current \in Reached /\ (reopen_closed_nodes => ~(current_g < g[current]))
      BY <1>1, <3>1 DEF IsNew, Reopen, LazyInv, TypeOK, Reached
    <3>3. current \in Reached => g[current] \in Nat /\ current_g \in Nat
      BY <1>1, EvaluationFacts DEF LazyInv, NodesOK
    <3> QED
      BY <3>1, <3>2, <3>3
  <2>2. CASE ~Following(s, o)
    BY <2>2 DEF LazyInv, EdgesAreKept
  <2> QED
    BY <2>1, <2>2
<1> QED
  BY <1>2, <1>3, <1>4, <1>5 DEF LazyInv

LEMMA DeadEndKeeps ==
  ASSUME LazyInv, DeadEnd
  PROVE  LazyInv'
<1>1. /\ phase = "evaluate" /\ phase' = "fetch" /\ status[current] = "NEW"
      /\ h[current] = Infty /\ status' = [status EXCEPT ![current] = "DEAD_END"]
      /\ UNCHANGED <<h, reopen_closed_nodes, g, real_g, parent, creating_op, path_cost,
                     open, fetch_vars>>
  BY DEF DeadEnd, IsNew, MarkDeadEnd
<1>2. current \in State /\ TypeOK
  BY DEF LazyInv, TypeOK
<1>3. Reached' = Reached /\ current \notin Reached
  BY <1>1, <1>2 DEF Reached, TypeOK
<1>4. NodesOK' /\ ParentsAreEdges'
  <2>1. NodesOK'
    BY <1>1, <1>2, <1>3 DEF LazyInv, NodesOK, TypeOK
  <2>2. ParentsAreEdges'
    BY <1>1, <1>3 DEF LazyInv, ParentsAreEdges
  <2> QED
    BY <2>1, <2>2
<1>5. TypeOK' /\ EntriesOK' /\ FollowingOK' /\ PhaseOK' /\ TraceOK'
  <2>1. TypeOK'
    BY <1>1, <1>2 DEF TypeOK, Phase, fetch_vars
  <2>2. EntriesOK' /\ FollowingOK' /\ PhaseOK' /\ TraceOK'
    BY <1>1, <1>3 DEF LazyInv, EntriesOK, FollowingOK, PhaseOK, TraceOK
  <2> QED
    BY <2>1, <2>2
<1>6. StartOK'
  <2>1. status'[InitialState] # "NEW"
    BY <1>1, <1>2, TaskAssumption DEF LazyInv, StartOK, Starting, TypeOK
  <2>2. InitialState \in Reached => g[InitialState] = 0
    BY DEF LazyInv, StartOK, Starting, Reached
  <2> QED
    BY <1>1, <1>3, <2>1, <2>2 DEF StartOK, Starting
<1>7. EdgesAreKept'
  <2> SUFFICES ASSUME NEW s \in State \ Goal, NEW o \in Applicable[s],
                      status'[s] = "CLOSED", real_g[s] + Cost[o] < Bound
               PROVE  LET t == Result[s][o] IN
                      \/ \E e \in open : e.state = s /\ e.op = o
                      \/ status'[t] = "DEAD_END"
                      \/ /\ t \in Reached
                         /\ reopen_closed_nodes => g[t] <= g[s] + AdjustedCost(o)
    BY <1>1, <1>3 DEF EdgesAreKept
  <2>1. status[s] = "CLOSED" /\ Result[s][o] \in State
    BY <1>1, <1>2, TaskAssumption DEF TypeOK
  <2>2. CASE Following(s, o)
    <3>1. Result[s][o] = current
      BY <2>2, EngineAssumption DEF LazyInv, FollowingOK, Following
    <3> QED
      BY <1>1, <1>2, <3>1 DEF TypeOK
  <2>3. CASE ~Following(s, o)
    BY <1>1, <1>2, <2>1, <2>3 DEF LazyInv, EdgesAreKept, TypeOK
  <2> QED
    BY <2>2, <2>3
<1> QED
  BY <1>4, <1>5, <1>6, <1>7 DEF LazyInv

LEMMA FetchKeeps ==
  ASSUME LazyInv, NEW e \in open, Fetch(e)
  PROVE  LazyInv'
<1>1. /\ phase = "fetch" /\ phase' = "evaluate" /\ open' = open \ {e}
      /\ current_predecessor' = e.state /\ current_operator' = e.op
      /\ current' = Result[e.state][e.op]
      /\ current_g' = g[e.state] + AdjustedCost(e.op)
      /\ current_real_g' = real_g[e.state] + Cost[e.op]
      /\ UNCHANGED <<h, reopen_closed_nodes, node_vars, path_cost>>
  BY DEF Fetch, FetchedG
<1>2. Reached' = Reached /\ NodesOK' /\ ParentsAreEdges'
  BY <1>1, SameNodes
<1>3. /\ e.state \in Reached \ Goal /\ e.state \in State /\ e.op \in Applicable[e.state]
      /\ e.op \in Op
      /\ CostType = "NORMAL" => g[e.state] + Cost[e.op] < Bound
  BY TaskAssumption DEF LazyInv, EntriesOK, Reached
<1>4. TypeOK'
  <2>1. current' \in State
    BY <1>1, <1>3, TaskAssumption
  <2> QED
    BY <1>1, <2>1 DEF LazyInv, TypeOK, Phase, node_vars
<1>5. EntriesOK' /\ PhaseOK' /\ TraceOK'
  BY <1>1, <1>2 DEF LazyInv, EntriesOK, PhaseOK, TraceOK, node_vars
<1>6. StartOK'
  BY <1>1, <1>2, <1>3, EngineAssumption DEF LazyInv, StartOK, Starting, node_vars
<1>7. FollowingOK'
  <2>1. /\ e.state \in Reached' \ Goal /\ g' = g /\ real_g' = real_g
        /\ g[e.state] \in Nat /\ Cost[e.op] \in Nat
    BY <1>1, <1>2, <1>3, TaskAssumption DEF node_vars, LazyInv, NodesOK
  <2>2. ASSUME CostType = "NORMAL" PROVE current_g' < Bound
    <3>1. e.op \in Op /\ g[e.state] + Cost[e.op] < Bound
      BY <1>3, <2>2
    <3>2. AdjustedCost(e.op) = Cost[e.op]
      BY <2>2, <3>1, AdjustedCostNormal, Zenon
    <3>3. current_g' = g[e.state] + Cost[e.op]
      BY <1>1, <3>2, Zenon
    <3> QED
      BY <3>1, <3>3
  <2>3. current_g' = g[current_predecessor'] + AdjustedCost(current_operator')
    BY <1>1
  <2> QED
    BY <1>1, <1>3, <2>1, <2>2, <2>3 DEF FollowingOK, AdjustedCost
<1>8. EdgesAreKept'
  <2> SUFFICES ASSUME NEW s \in State \ Goal, NEW o \in Applicable[s],
                      status[s] = "CLOSED", real_g[s] + Cost[o] < Bound
               PROVE  LET t == Result[s][o] IN
                      \/ \E d \in open' : d.state = s /\ d.op = o
                      \/ Following(s, o)'
                      \/ status[t] = "DEAD_END"
                      \/ /\ t \in Reached
                         /\ reopen_closed_nodes => g[t] <= g[s] + AdjustedCost(o)
    BY <1>1, <1>2 DEF EdgesAreKept, node_vars
  <2>1. ~Following(s, o)
    BY <1>1 DEF Following
  <2>2. e.state = s /\ e.op = o => Following(s, o)'
    BY <1>1 DEF Following
  <2>3. \A d \in open : d.state = s /\ d.op = o => d \in open' \/ (e.state = s /\ e.op = o)
    BY <1>1
  <2> QED
    BY <2>1, <2>2, <2>3 DEF LazyInv, EdgesAreKept
<1> QED
  BY <1>2, <1>4, <1>5, <1>6, <1>7, <1>8 DEF LazyInv

LEMMA TraceStepKeeps ==
  ASSUME LazyInv, TraceStep
  PROVE  LazyInv'
<1> DEFINE o == creating_op[current]
           p == parent[current]
<1>1. /\ phase = "trace" /\ phase' = "trace" /\ o # NoOp
      /\ path_cost' = path_cost + Cost[o] /\ current' = p
      /\ UNCHANGED <<h, node_vars, lazy_vars>>
  BY DEF TraceStep, TraceParent
<1>2. Reached' = Reached /\ NodesOK' /\ ParentsAreEdges'
  BY <1>1, SameNodes
<1>3. current \in Reached /\ current \in State /\ BelowBound(path_cost + g[current])
  BY <1>1 DEF LazyInv, TraceOK, TypeOK
<1>4. /\ p \in Reached /\ p \in State /\ o \in Applicable[p] /\ o \in Op
      /\ g[p] + AdjustedCost(o) <= g[current]
  BY <1>1, <1>3, TaskAssumption DEF LazyInv, ParentsAreEdges, Reached
<1>5. /\ Cost[o] \in Nat /\ AdjustedCost(o) \in Nat /\ path_cost \in Nat
      /\ g[p] \in Nat /\ g[current] \in Nat /\ Bound \in Nat
      /\ CostType = "NORMAL" => AdjustedCost(o) = Cost[o]
  BY <1>3, <1>4, TaskAssumption, AdjustedCostNat, AdjustedCostNormal
  DEF LazyInv, NodesOK, TypeOK
<1>6. TypeOK'
  BY <1>1, <1>4, <1>5 DEF LazyInv, TypeOK, node_vars, lazy_vars
<1>7. TraceOK'
  <2>1. BelowBound(path_cost' + g[p])
    BY <1>1, <1>3, <1>4, <1>5 DEF BelowBound
  <2> QED
    BY <1>1, <1>2, <1>4, <2>1 DEF TraceOK, node_vars, BelowBound
<1>8. EntriesOK' /\ StartOK' /\ FollowingOK' /\ PhaseOK'
  BY <1>1, <1>2 DEF LazyInv, EntriesOK, StartOK, Starting, FollowingOK, PhaseOK,
     node_vars, lazy_vars
<1>9. EdgesAreKept'
  BY <1>1, <1>2 DEF LazyInv, EdgesAreKept, Following, node_vars, lazy_vars
<1> QED
  BY <1>2, <1>6, <1>7, <1>8, <1>9 DEF LazyInv

LEMMA OthersKeep ==
  ASSUME LazyInv, OpenListEmpty \/ TraceEnd \/ UNCHANGED vars
  PROVE  LazyInv'
<1>1. /\ UNCHANGED <<h, node_vars, reopen_closed_nodes, open, current, path_cost>>
      /\ UNCHANGED <<current_predecessor, current_operator, current_g, current_real_g>>
      /\ \/ phase = "fetch" /\ phase' = "failed" /\ open = {}
         \/ phase = "trace" /\ phase' = "solved"
         \/ phase' = phase
  BY DEF OpenListEmpty, TraceEnd, TraceDone, vars, fetch_vars, lazy_vars
<1>2. Reached' = Reached /\ NodesOK' /\ ParentsAreEdges'
  BY <1>1, SameNodes
<1>3. TypeOK' /\ EntriesOK'
  BY <1>1, <1>2 DEF LazyInv, TypeOK, Phase, EntriesOK, node_vars
<1>4. StartOK' /\ FollowingOK'
  BY <1>1, <1>2 DEF LazyInv, StartOK, Starting, FollowingOK, node_vars
<1>5. PhaseOK' /\ TraceOK'
  BY <1>1, <1>2 DEF LazyInv, PhaseOK, TraceOK, node_vars
<1>6. EdgesAreKept'
  BY <1>1, <1>2 DEF LazyInv, EdgesAreKept, Following, node_vars
<1> QED
  BY <1>2, <1>3, <1>4, <1>5, <1>6 DEF LazyInv

LEMMA LazyInvNext == LazyInv /\ [Next]_vars => LazyInv'
  BY ExpandKeeps, CloseGoalKeeps, NothingNewKeeps, DeadEndKeeps, FetchKeeps,
     TraceStepKeeps, OthersKeep DEF Next, Finished

\* LazyInv holds in every reachable state of the search.
THEOREM SearchInvariant == Spec => []LazyInv
  BY LazyInvInit, LazyInvNext, PTL DEF Spec

\* No edge is lost between the moment it is queued and the moment it is
\* followed, with or without reopening.
THEOREM NoEdgeIsLost == Spec => []EdgesAreKept
<1>1. LazyInv => EdgesAreKept
  BY DEF LazyInv
<1> QED
  BY <1>1, SearchInvariant, PTL

\* Under cost_type = NORMAL a plan costs less than the bound, although the
\* test is made when an edge is queued and the edge followed later.
THEOREM BoundRespected ==
  ASSUME CostType = "NORMAL", 0 < Bound
  PROVE  Spec => []PlanWithinBound
<1>1. LazyInv => PlanWithinBound
  <2> SUFFICES ASSUME LazyInv, phase = "solved" PROVE path_cost < Bound
    BY DEF PlanWithinBound
  <2>1. current \in Reached /\ path_cost + g[current] < Bound
    BY DEF LazyInv, TraceOK, BelowBound
  <2>2. g[current] \in Nat /\ path_cost \in Nat /\ Bound \in Nat
    BY <2>1, TaskAssumption DEF LazyInv, NodesOK, TypeOK
  <2> QED
    BY <2>1, <2>2
<1> QED
  BY <1>1, SearchInvariant, PTL

-----------------------------------------------------------------------------
\* A set of states has a member of least rank: ranks are natural numbers.
LEMMA LeastRank ==
  ASSUME NEW S \in SUBSET State, S # {}
  PROVE  \E s \in S : \A r \in S : Rank[s] <= Rank[r]
<1> DEFINE Ranks == {Rank[s] : s \in S}
<1>1. Ranks \subseteq Nat /\ Ranks # {}
  BY DistanceAssumption
<1>2. PICK m \in Ranks : \A k \in Ranks : ~(<<k, m>> \in OpToRel(<, Nat))
  BY <1>1, WFMin, NatLessThanWellFounded
<1>3. ASSUME NEW k \in Ranks PROVE m <= k
  <2>1. k \in Nat /\ m \in Nat
    BY <1>1
  <2>2. <<k, m>> \notin OpToRel(<, Nat)
    BY <1>2
  <2>3. ~(k < m)
    BY <2>1, <2>2, Zenon DEF OpToRel
  <2> QED
    BY <2>1, <2>3
<1>4. PICK s \in S : m = Rank[s]
  OBVIOUS
<1> QED
  BY <1>3, <1>4

\* When the open list has run empty, the reached states from which a plan
\* within the bound remains would contain one of least rank; its successor on
\* a cheapest plan is reached as well, and ranks lower.
LEMMA NothingLeft ==
  ASSUME LazyInv, CostType = "NORMAL", Safe, reopen_closed_nodes, phase = "failed",
         InitialState \in Solvable, Dist[InitialState] < Bound
  PROVE  FALSE
<1> DEFINE OnPath == {s \in Reached \cap Solvable :
                         g[s] + Dist[s] <= Dist[InitialState]}
<1>0. /\ TypeOK /\ NodesOK /\ StartOK /\ PhaseOK /\ EdgesAreKept
      /\ open = {} /\ Reached \cap Goal = {}
  BY DEF LazyInv, PhaseOK
<1>1. \A s \in State : Dist[s] \in Nat /\ Rank[s] \in Nat
  BY DistanceAssumption
<1>2. \A s \in Solvable : s \in State /\ status[s] # "DEAD_END"
  BY <1>0, DistanceAssumption DEF NodesOK, Safe, TypeOK
<1>3. InitialState \in OnPath
  <2>1. InitialState \in Reached /\ g[InitialState] = 0
    BY <1>0, <1>2, TaskAssumption DEF StartOK, Starting, TypeOK, Reached
  <2> QED
    BY <1>1, <2>1, TaskAssumption
<1>4. PICK n \in OnPath : \A s \in OnPath : Rank[n] <= Rank[s]
  <2>1. OnPath \in SUBSET State /\ OnPath # {}
    BY <1>3 DEF Reached
  <2> QED
    BY <2>1, LeastRank
<1>5. /\ n \in State /\ n \in Solvable \ Goal /\ n \in Reached
      /\ g[n] \in Nat /\ real_g[n] = g[n] /\ status[n] = "CLOSED"
      /\ g[n] + Dist[n] <= Dist[InitialState]
  BY <1>0, <1>4 DEF NodesOK, Reached, TypeOK
<1>6. PICK o \in Applicable[n] : /\ Result[n][o] \in Solvable
                                 /\ Dist[n] = Cost[o] + Dist[Result[n][o]]
                                 /\ Rank[Result[n][o]] < Rank[n]
  BY <1>5, DistanceAssumption
<1> DEFINE t == Result[n][o]
<1>7. o \in Op /\ t \in State /\ Cost[o] \in Nat /\ AdjustedCost(o) = Cost[o]
  BY <1>5, <1>6, TaskAssumption, AdjustedCostNormal
<1>8. real_g[n] + Cost[o] < Bound
  BY <1>1, <1>5, <1>6, <1>7, TaskAssumption
<1>9. t \in Reached /\ g[t] <= g[n] + Cost[o]
  <2>1. ~Following(n, o) /\ status[t] # "DEAD_END" /\ n \in State \ Goal
    BY <1>2, <1>5, <1>6 DEF Following
  <2> QED
    BY <1>0, <1>5, <1>7, <1>8, <2>1 DEF EdgesAreKept
<1>10. t \in OnPath
  <2>1. g[t] \in Nat
    BY <1>0, <1>9 DEF NodesOK
  <2> QED
    BY <1>1, <1>5, <1>6, <1>7, <1>9, <2>1, TaskAssumption
<1> QED
  BY <1>1, <1>4, <1>5, <1>6, <1>7, <1>10

\* "Completely explored state space -- no solution!" is true: with reopening
\* and safe heuristics the search only fails if there is no plan cheaper than
\* the bound.
THEOREM FailureIsCorrect ==
  ASSUME CostType = "NORMAL", Safe
  PROVE  Spec => []FailedIsUnsolvable
<1>1. LazyInv => FailedIsUnsolvable
  <2> SUFFICES ASSUME LazyInv, phase = "failed", reopen_closed_nodes,
                      InitialState \in Solvable, ~(Bound <= Dist[InitialState])
               PROVE  FALSE
    BY DEF FailedIsUnsolvable
  <2>1. Dist[InitialState] < Bound
    BY TaskAssumption, DistanceAssumption
  <2> QED
    BY <2>1, NothingLeft
<1> QED
  BY <1>1, SearchInvariant, PTL

-----------------------------------------------------------------------------
\* A step of the search labels the source, relaxes one edge or leaves all
\* labels alone.
LEMMA RelaxesAnEdge ==
  ASSUME LazyInv, [Next]_vars
  PROVE  [Labels!Next]_LabelOf
<1>0. TypeOK /\ NodesOK
  BY DEF LazyInv
<1>1. ASSUME Reached' = Reached, g' = g PROVE LabelOf' = LabelOf
  BY <1>1 DEF LabelOf
<1>2. ASSUME UNCHANGED status PROVE Reached' = Reached
  BY <1>2 DEF Reached
<1>3. ASSUME DeadEnd PROVE LabelOf' = LabelOf
  <2>1. /\ status[current] = "NEW" /\ current \in State
        /\ status' = [status EXCEPT ![current] = "DEAD_END"] /\ g' = g
    BY <1>0, <1>3 DEF DeadEnd, IsNew, MarkDeadEnd, TypeOK
  <2>2. Reached' = Reached
    BY <1>0, <2>1 DEF Reached, TypeOK
  <2> QED
    BY <1>1, <2>1, <2>2
<1>4. ASSUME CloseNode PROVE Labels!Next
  <2>1. /\ current \in State /\ Reached' = Reached \cup {current}
        /\ g'[current] = current_g
        /\ \A s \in State \ {current} : g'[s] = g[s]
        /\ current \in Reached => current_g < g[current]
    BY <1>4, ClosingFacts
  <2>2. CASE current_predecessor = NoState
    <3>1. /\ current = InitialState /\ current_g = 0
          /\ \A s \in State : status[s] = "NEW"
      BY <1>4, <2>2 DEF LazyInv, StartOK, Starting, CloseNode
    <3>2. Reached = {} /\ Reached' = {InitialState}
      BY <2>1, <3>1 DEF Reached
    <3>3. LabelOf = Labels!NoLabels /\ LabelOf' = Labels!SourceLabelled
      BY <2>1, <3>1, <3>2
      DEF LabelOf, Labels!NoLabels, Labels!SourceLabelled, Labels!Unlabelled
    <3> QED
      BY <3>3 DEF Labels!Next, Labels!LabelSource
  <2>3. CASE current_predecessor # NoState
    <3> DEFINE s == current_predecessor
               o == current_operator
               e == <<s, current, AdjustedCost(o)>>
    <3>1. /\ s \in Reached /\ s \in State /\ o \in Applicable[s] /\ o \in Op
          /\ current = Result[s][o] /\ current_g = g[s] + AdjustedCost(o)
          /\ g[s] \in Nat /\ AdjustedCost(o) \in Nat
      BY <1>0, <1>4, <2>3, TaskAssumption, AdjustedCostNat
      DEF LazyInv, FollowingOK, CloseNode, Reached, NodesOK
    <3>2. e \in TaskEdges
      <4>1. e \in State \X State \X {AdjustedCost(p) : p \in Op}
        BY <2>1, <3>1
      <4>2. e[1] = s /\ e[2] = current /\ e[3] = AdjustedCost(o)
        OBVIOUS
      <4> HIDE DEF e
      <4> QED
        BY <3>1, <4>1, <4>2 DEF TaskEdges
    <3>3. LabelOf[s] = g[s] /\ LabelOf[s] # -1
      BY <3>1 DEF LabelOf
    <3>4. LabelOf[current] = -1 \/ LabelOf[current] > LabelOf[s] + AdjustedCost(o)
      BY <1>0, <2>1, <3>1, <3>3 DEF LabelOf, NodesOK
    <3>5. LabelOf' = [LabelOf EXCEPT ![current] = LabelOf[s] + AdjustedCost(o)]
      BY <2>1, <3>1, <3>3 DEF LabelOf
    <3>6. Labels!Relax(e)
      BY <3>3, <3>4, <3>5 DEF Labels!Relax, Labels!Unlabelled
    <3> QED
      BY <3>2, <3>6 DEF Labels!Next
  <2> QED
    BY <2>2, <2>3
<1> QED
  BY <1>1, <1>2, <1>3, <1>4
  DEF Next, vars, node_vars, NothingNew, CloseGoal, Expand, OpenListEmpty, Fetch,
      TraceParent, TraceStep, TraceDone, TraceEnd, Finished

\* Lazy search, whatever the order of its open list and with or without
\* reopening, is a label correcting algorithm: it refines LabelCorrecting with
\* the g values as labels.
THEOREM Refinement == Spec => ImplementsLabelCorrecting
<1>1. Init => Labels!Init
  BY DEF Init, Labels!Init, Labels!NoLabels, Labels!Unlabelled, LabelOf, Reached
<1>2. LazyInv /\ [Next]_vars => [Labels!Next]_LabelOf
  BY RelaxesAnEdge
<1> QED
  BY <1>1, <1>2, SearchInvariant, PTL
  DEF Spec, ImplementsLabelCorrecting, Labels!Spec
=============================================================================
