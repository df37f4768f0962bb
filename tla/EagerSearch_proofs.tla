------------------------- MODULE EagerSearch_proofs -------------------------
(***************************************************************************)
(* Proofs about EagerSearch for every task, heuristic and option.  The     *)
(* invariant SearchInv is inductive; the lemmas below establish its parts  *)
(* one by one, and the theorems at the end draw the conclusions.           *)
(***************************************************************************)
EXTENDS EagerSearch, TLAPS, SequenceTheorems, WellFoundedInduction

\* The variables have their types: the case in point is an entry of the open
\* list, whose key is computed from a g that is never NEW's -1.
LEMMA TypeInit == Init => TypeOK
  <1> SUFFICES ASSUME Init PROVE TypeOK
    OBVIOUS
  <1>1. /\ status \in [State -> Status]
        /\ g \in [State -> Int]
        /\ real_g \in [State -> Int]
    BY DEF Init, Status
  <1>2. open \subseteq Entry
    BY TaskAssumption DEF Init, Entry
  <1>3. path \in Seq(Op)
    BY DEF Init
  <1> QED
    BY <1>1, <1>2, <1>3 DEF Init, TypeOK, Phase

LEMMA AdjustedCostNat == \A o \in Op : AdjustedCost(o) \in Nat
  BY TaskAssumption DEF AdjustedCost

LEMMA AdjustedCostNormal ==
    CostType = "NORMAL" => \A o \in Op : AdjustedCost(o) = Cost[o]
  BY TaskAssumption DEF AdjustedCost

\* The three ways an iteration of the loop over the operators gives a node a
\* new parent have this in common.
Improves(o, t) ==
    /\ phase = "expand" /\ o \in todo /\ t = Result[current][o]
    /\ todo' = todo \ {o}
    /\ real_g[current] + Cost[o] < Bound
    /\ \/ status[t] = "NEW" /\ h[t] # Infty /\ status' = [status EXCEPT ![t] = "OPEN"]
       \/ /\ status[t] \in {"OPEN", "CLOSED"}
          /\ g[t] > g[current] + AdjustedCost(o)
          /\ \/ ReopenClosed /\ status' = [status EXCEPT ![t] = "OPEN"]
             \/ ~ReopenClosed /\ status' = status
    /\ SetParent(current, t, o)
    /\ \/ open' = open \cup {[state |-> t, g |-> g[current] + AdjustedCost(o)]}
       \/ status' = status /\ ~ReopenClosed /\ open' = open
    /\ UNCHANGED <<h, phase, current, expanded, pruning_disabled, path, path_cost>>

LEMMA ImprovesCases ==
    ASSUME NEW o, OpenNew(o) \/ ReopenNode(o) \/ UpdateParent(o)
    PROVE  Improves(o, Result[current][o])
  BY DEF OpenNew, ReopenNode, UpdateParent, Improves, Generating, WithinBound,
         IsCheaperPath, InsertEntry

\* What is known of the node that is expanded and of the one it leads to.
LEMMA ExpansionFacts ==
    ASSUME SearchInv, NEW o \in todo, phase = "expand"
    PROVE  /\ current \in State /\ current \in Reached /\ current \notin Goal
           /\ status[current] = "CLOSED"
           /\ o \in Op /\ o \in Applicable[current]
           /\ Result[current][o] \in State
           /\ g[current] \in Nat /\ real_g[current] \in Nat
           /\ Cost[o] \in Nat /\ AdjustedCost(o) \in Nat
  <1>1. current \in State /\ status[current] = "CLOSED" /\ current \notin Goal
    BY DEF SearchInv, ExpansionOK
  <1>2. o \in Applicable[current] /\ o \in Op
    BY <1>1, TaskAssumption DEF SearchInv, ExpansionOK
  <1>4. Result[current][o] \in State
    BY <1>1, <1>2, TaskAssumption
  <1>5. current \in Reached
    BY <1>1 DEF Reached
  <1>6. g[current] \in Nat /\ real_g[current] \in Nat
    BY <1>5 DEF SearchInv, NodesOK
  <1> QED
    BY <1>1, <1>2, <1>4, <1>5, <1>6, TaskAssumption, AdjustedCostNat

LEMMA TypeNext == SearchInv /\ [Next]_vars => TypeOK'
  <1> SUFFICES ASSUME SearchInv, [Next]_vars PROVE TypeOK'
    OBVIOUS
  <1> USE TaskAssumption, SearchAssumption, EngineAssumption
  <1>0. TypeOK
    BY DEF SearchInv
  <1>1. CASE UNCHANGED vars
    BY <1>0, <1>1 DEF TypeOK, vars
  <1>2. CASE OpenListEmpty
    BY <1>0, <1>2 DEF TypeOK, OpenListEmpty, node_vars, Phase
  <1>3. ASSUME NEW e \in open, SkipClosed(e) PROVE TypeOK'
    BY <1>0, <1>3 DEF TypeOK, SkipClosed, node_vars
  <1>4. ASSUME NEW e \in open, CloseNode(e),
               UNCHANGED <<h, g, real_g, parent, creating_op, path, path_cost>>,
               phase' \in Phase, todo' \subseteq Op, pruning_disabled' \in BOOLEAN
        PROVE  TypeOK'
    <2>1. e.state \in State
      BY <1>0 DEF TypeOK, Entry
    <2>2. status' \in [State -> Status]
      BY <1>0, <1>4, <2>1 DEF TypeOK, CloseNode, Status
    <2>3. open' \subseteq Entry /\ current' \in State \cup {NoState}
      BY <1>0, <1>4, <2>1 DEF TypeOK, CloseNode
    <2>4. expanded' \in Nat
      BY <1>0, <1>4, SearchAssumption DEF TypeOK, CloseNode
    <2> QED
      BY <1>0, <1>4, <2>2, <2>3, <2>4 DEF TypeOK
  <1>5. ASSUME NEW e \in open, FetchGoal(e) PROVE TypeOK'
    BY <1>0, <1>4, <1>5 DEF FetchGoal, TypeOK, Phase
  <1>6. ASSUME NEW e \in open, FetchNode(e) PROVE TypeOK'
    <2>1. e.state \in State
      BY <1>0 DEF TypeOK, Entry
    <2>2. todo' \subseteq Op
      BY <1>6, <2>1 DEF FetchNode
    <2> QED
      BY <1>0, <1>4, <1>6, <2>2 DEF FetchNode, TypeOK, Phase
  <1>7. CASE ExpansionDone
    BY <1>0, <1>7 DEF TypeOK, ExpansionDone, node_vars, Phase
  <1>8. ASSUME NEW o \in todo, Nothing(o) PROVE TypeOK'
    BY <1>0, <1>8 DEF TypeOK, Nothing, Generating, node_vars
  <1>9. ASSUME NEW o \in todo, NewDeadEnd(o) PROVE TypeOK'
    <2>1. Result[current][o] \in State
      BY <1>9, ExpansionFacts DEF NewDeadEnd, Generating
    <2> QED
      BY <1>0, <1>9, <2>1 DEF TypeOK, NewDeadEnd, Generating, Status
  <1>10. ASSUME NEW o \in todo, NEW t, Improves(o, t) PROVE TypeOK'
    <2>1. /\ current \in State /\ t \in State /\ o \in Op
          /\ g[current] + AdjustedCost(o) \in Nat
          /\ real_g[current] + Cost[o] \in Nat
      BY <1>10, ExpansionFacts DEF Improves
    <2>2. [state |-> t, g |-> g[current] + AdjustedCost(o)] \in Entry
      BY <2>1 DEF Entry
    <2>3. open' \subseteq Entry
      BY <1>0, <1>10, <2>2 DEF TypeOK, Improves
    <2>4. status' \in [State -> Status]
      <3>1. status' = status \/ status' = [status EXCEPT ![t] = "OPEN"]
        BY <1>10 DEF Improves
      <3> QED
        BY <1>0, <3>1 DEF TypeOK, Status
    <2>5. /\ g' \in [State -> Int] /\ real_g' \in [State -> Int]
          /\ parent' \in [State -> State \cup {NoState}]
          /\ creating_op' \in [State -> Op \cup {NoOp}]
      <3>1. SetParent(current, t, o)
        BY <1>10 DEF Improves
      <3>2. parent' \in [State -> State \cup {NoState}]
        BY <1>0, <3>1, <2>1 DEF TypeOK, SetParent
      <3>3. creating_op' \in [State -> Op \cup {NoOp}]
        BY <1>0, <3>1, <2>1 DEF TypeOK, SetParent
      <3>4. g' \in [State -> Int]
        BY <1>0, <3>1, <2>1 DEF TypeOK, SetParent
      <3>5. real_g' \in [State -> Int]
        BY <1>0, <3>1, <2>1 DEF TypeOK, SetParent
      <3> QED
        BY <3>2, <3>3, <3>4, <3>5
    <2>6. todo' \subseteq Op
      BY <1>0, <1>10 DEF TypeOK, Improves
    <2>7. UNCHANGED <<h, phase, current, expanded, pruning_disabled, path, path_cost>>
      BY <1>10 DEF Improves
    <2> QED
      BY <1>0, <2>3, <2>4, <2>5, <2>6, <2>7 DEF TypeOK
  <1>11. CASE TraceStep
    <2>1. current \in State
      BY <1>11 DEF TraceParent, TraceStep, search_vars, SearchInv, TraceOK, Reached
    <2>2. creating_op[current] \in Op
      BY <1>0, <1>11, <2>1 DEF TypeOK, TraceParent, TraceStep, search_vars
    <2>3. path' \in Seq(Op)
      <3>1. path \in Seq(Op) /\ path' = <<creating_op[current]>> \o path
        BY <1>0, <1>11 DEF TypeOK, TraceParent, TraceStep, search_vars
      <3>2. <<creating_op[current]>> \in Seq(Op)
        BY <2>2
      <3> QED
        BY <3>1, <3>2, ConcatProperties
    <2>4. path_cost' \in Nat
      <3>1. Cost[creating_op[current]] \in Nat
        BY <2>2
      <3>2. path_cost \in Nat /\ path_cost' = path_cost + Cost[creating_op[current]]
        BY <1>0, <1>11 DEF TypeOK, TraceParent, TraceStep, search_vars
      <3> QED
        BY <3>1, <3>2
    <2>5. current' \in State \cup {NoState}
      BY <1>0, <1>11, <2>1 DEF TypeOK, TraceParent, TraceStep, search_vars
    <2>6. UNCHANGED <<h, status, g, real_g, parent, creating_op, open, phase,
                      todo, expanded, pruning_disabled>>
      BY <1>11 DEF TraceParent, TraceStep, search_vars, node_vars
    <2> QED
      BY <1>0, <2>3, <2>4, <2>5, <2>6 DEF TypeOK
  <1>12. CASE TraceEnd
    BY <1>0, <1>12 DEF TypeOK, TraceDone, TraceEnd, search_vars, node_vars, Phase
  <1> QED
    BY <1>1, <1>2, <1>3, <1>5, <1>6, <1>7, <1>8, <1>9, <1>10, <1>11, <1>12,
       ImprovesCases
    DEF Next, Fetch, Expand, Trace, Finished

-----------------------------------------------------------------------------
\* The effect of a new parent on the nodes, state by state.  Neither the
\* expanded node nor the initial state is ever given a new parent.
LEMMA ImprovesFacts ==
    ASSUME SearchInv, NEW o \in todo, NEW t, Improves(o, t)
    PROVE  /\ t \in State /\ t # current /\ t # InitialState
           /\ Reached' = Reached \cup {t}
           /\ \A s \in State \ {t} :
                 /\ status'[s] = status[s] /\ g'[s] = g[s]
                 /\ real_g'[s] = real_g[s] /\ parent'[s] = parent[s]
                 /\ creating_op'[s] = creating_op[s]
           /\ status'[t] \in {"OPEN", "CLOSED"}
           /\ ReopenClosed \/ t \notin Reached => status'[t] = "OPEN"
           /\ ~ReopenClosed /\ t \in Reached => status'[t] = status[t]
           /\ t \notin Reached => status[t] = "NEW"
           /\ g'[t] = g[current] + AdjustedCost(o)
           /\ real_g'[t] = real_g[current] + Cost[o]
           /\ parent'[t] = current /\ creating_op'[t] = o
           /\ t \in Reached => g'[t] < g[t]
           /\ \/ open' = open \cup {[state |-> t, g |-> g'[t]]}
              \/ /\ open' = open /\ ~ReopenClosed
                 /\ t \in Reached /\ status'[t] = status[t]
           /\ h' = h /\ phase' = phase /\ current' = current
           /\ todo' = todo \ {o} /\ path_cost' = path_cost
  <1>0. TypeOK
    BY DEF SearchInv
  <1>1. /\ current \in State /\ current \in Reached /\ status[current] = "CLOSED"
        /\ o \in Op /\ t \in State
        /\ g[current] \in Nat /\ AdjustedCost(o) \in Nat
    BY ExpansionFacts DEF Improves
  <1>2. InitialState \in State /\ InitialState \in Reached /\ g[InitialState] = 0
    BY <1>1, TaskAssumption DEF SearchInv, InitialStateOK
  <1>3. \/ /\ t \notin Reached /\ status[t] = "NEW"
           /\ status' = [status EXCEPT ![t] = "OPEN"]
        \/ /\ t \in Reached /\ g[t] > g[current] + AdjustedCost(o)
           /\ \/ ReopenClosed /\ status' = [status EXCEPT ![t] = "OPEN"]
              \/ ~ReopenClosed /\ status' = status
    BY <1>1 DEF Improves, Reached
  <1>4. t \in Reached => g[t] \in Int
    BY <1>0, <1>1 DEF TypeOK
  <1>5. t # current /\ t # InitialState
    BY <1>1, <1>2, <1>3, <1>4 DEF Reached
  <1>6. status \in [State -> Status]
    BY <1>0 DEF TypeOK
  <1>7. /\ \A s \in State \ {t} : status'[s] = status[s]
        /\ status'[t] \in {"OPEN", "CLOSED"}
        /\ ReopenClosed \/ t \notin Reached => status'[t] = "OPEN"
        /\ ~ReopenClosed /\ t \in Reached => status'[t] = status[t]
    BY <1>1, <1>3, <1>6 DEF Reached
  <1>8. Reached' = Reached \cup {t}
    BY <1>1, <1>7 DEF Reached
  <1>9. SetParent(current, t, o)
    BY DEF Improves
  <1>10. /\ \A s \in State \ {t} : g'[s] = g[s] /\ real_g'[s] = real_g[s]
         /\ g'[t] = g[current] + AdjustedCost(o)
         /\ real_g'[t] = real_g[current] + Cost[o]
    BY <1>0, <1>1, <1>9 DEF TypeOK, SetParent
  <1>11. /\ \A s \in State \ {t} : parent'[s] = parent[s]
                                   /\ creating_op'[s] = creating_op[s]
         /\ parent'[t] = current /\ creating_op'[t] = o
    BY <1>0, <1>1, <1>9 DEF TypeOK, SetParent
  <1>12. t \in Reached => g'[t] < g[t]
    BY <1>3, <1>10
  <1>13. \/ open' = open \cup {[state |-> t, g |-> g'[t]]}
         \/ status' = status /\ ~ReopenClosed /\ open' = open
    BY <1>10 DEF Improves
  <1>14. status' = status => t \in Reached
    BY <1>1, <1>3, <1>7 DEF Reached
  <1>15. /\ h' = h /\ phase' = phase /\ current' = current
         /\ todo' = todo \ {o} /\ path_cost' = path_cost
    BY DEF Improves
  <1> QED
    BY <1>1, <1>3, <1>5, <1>7, <1>8, <1>10, <1>11, <1>12, <1>13, <1>14, <1>15

\* The nodes a step may leave alone, and how it may do so.
LEMMA StepCases ==
    ASSUME SearchInv, [Next]_vars
    PROVE  \/ UNCHANGED vars
           \/ OpenListEmpty
           \/ \E e \in open : SkipClosed(e) \/ FetchGoal(e) \/ FetchNode(e)
           \/ ExpansionDone
           \/ \E o \in todo : Nothing(o) \/ NewDeadEnd(o)
           \/ \E o \in todo : Improves(o, Result[current][o])
           \/ TraceStep
           \/ TraceEnd
  BY ImprovesCases DEF Next, Fetch, Expand, Trace, Finished

\* What closing a node changes.
LEMMA CloseFacts ==
    ASSUME SearchInv, NEW e \in open, CloseNode(e)
    PROVE  /\ e.state \in State /\ e.g \in Nat /\ e.state \in Reached
           /\ status[e.state] = "OPEN" /\ g[e.state] <= e.g
           /\ status'[e.state] = "CLOSED"
           /\ \A s \in State \ {e.state} : status'[s] = status[s]
           /\ Reached' = Reached
           /\ open' = open \ {e} /\ current' = e.state /\ phase = "fetch"
  <1>1. e.state \in State /\ e.g \in Nat /\ status \in [State -> Status]
    BY DEF SearchInv, TypeOK, Entry
  <1>2. e.state \in Reached /\ g[e.state] <= e.g
    BY DEF SearchInv, OpenNodesAreQueued
  <1>3. status' = [status EXCEPT ![e.state] = "CLOSED"] /\ status[e.state] # "CLOSED"
    BY DEF CloseNode
  <1>4. status[e.state] = "OPEN"
    BY <1>2, <1>3 DEF Reached
  <1>5. status'[e.state] = "CLOSED" /\ \A s \in State \ {e.state} : status'[s] = status[s]
    BY <1>1, <1>3
  <1>6. Reached' = Reached
    BY <1>2, <1>5 DEF Reached
  <1> QED
    BY <1>1, <1>2, <1>4, <1>5, <1>6 DEF CloseNode

\* A dead end is found in a state without a node.
LEMMA DeadEndFacts ==
    ASSUME SearchInv, NEW o \in todo, NewDeadEnd(o)
    PROVE  LET t == Result[current][o] IN
           /\ t \in State /\ status[t] = "NEW" /\ h[t] = Infty
           /\ status'[t] = "DEAD_END"
           /\ \A s \in State \ {t} : status'[s] = status[s]
           /\ Reached' = Reached
  <1> DEFINE t == Result[current][o]
  <1>1. t \in State
    BY ExpansionFacts DEF NewDeadEnd, Generating
  <1>2. status[t] = "NEW" /\ h[t] = Infty /\ status' = [status EXCEPT ![t] = "DEAD_END"]
    BY DEF NewDeadEnd
  <1>3. status \in [State -> Status]
    BY DEF SearchInv, TypeOK
  <1>4. status'[t] = "DEAD_END" /\ \A s \in State \ {t} : status'[s] = status[s]
    BY <1>1, <1>2, <1>3
  <1>5. Reached' = Reached
    BY <1>2, <1>4 DEF Reached
  <1> QED
    BY <1>1, <1>2, <1>4, <1>5

\* The values stored in a node are numbers, agree under cost_type = NORMAL and
\* respect the bound; only states the heuristic gives up are dead ends.
LEMMA NodesNext == SearchInv /\ [Next]_vars => NodesOK'
  <1> SUFFICES ASSUME SearchInv, [Next]_vars PROVE NodesOK'
    OBVIOUS
  <1>0. NodesOK /\ TypeOK
    BY DEF SearchInv
  <1>1. ASSUME UNCHANGED <<h, status, g, real_g>> PROVE NodesOK'
    BY <1>0, <1>1 DEF NodesOK, Reached
  <1>2. ASSUME NEW e \in open, CloseNode(e), UNCHANGED <<h, g, real_g>>
        PROVE  NodesOK'
    BY <1>0, <1>2, CloseFacts DEF NodesOK
  <1>3. ASSUME NEW o \in todo, NewDeadEnd(o) PROVE NodesOK'
    <2>1. UNCHANGED <<h, g, real_g>>
      BY <1>3 DEF NewDeadEnd, Generating
    <2> QED
      BY <1>0, <1>3, <2>1, DeadEndFacts DEF NodesOK
  <1>4. ASSUME NEW o \in todo, NEW t, Improves(o, t) PROVE NodesOK'
    <2>1. /\ current \in Reached /\ current \in State
          /\ g[current] \in Nat /\ real_g[current] \in Nat
          /\ Cost[o] \in Nat /\ AdjustedCost(o) \in Nat /\ o \in Op
          /\ real_g[current] + Cost[o] < Bound
      BY <1>4, ExpansionFacts DEF Improves
    <2>2. /\ t \in State /\ Reached' = Reached \cup {t}
          /\ \A s \in State \ {t} : /\ status'[s] = status[s] /\ g'[s] = g[s]
                                    /\ real_g'[s] = real_g[s]
          /\ status'[t] \in {"OPEN", "CLOSED"} /\ h' = h
          /\ g'[t] = g[current] + AdjustedCost(o)
          /\ real_g'[t] = real_g[current] + Cost[o]
      BY <1>4, ImprovesFacts
    <2>3. \A s \in Reached' : g'[s] \in Nat /\ real_g'[s] \in Nat
      <3> SUFFICES ASSUME NEW s \in Reached' PROVE g'[s] \in Nat /\ real_g'[s] \in Nat
        OBVIOUS
      <3>1. CASE s = t
        BY <2>1, <2>2, <3>1
      <3>2. CASE s # t
        BY <1>0, <2>2, <3>2 DEF NodesOK, Reached
      <3> QED
        BY <3>1, <3>2
    <2>4. \A s \in State : status'[s] = "DEAD_END" => h'[s] = Infty
      BY <1>0, <2>2 DEF NodesOK
    <2>5. CostType = "NORMAL" => \A s \in Reached' : real_g'[s] = g'[s]
      <3> SUFFICES ASSUME CostType = "NORMAL", NEW s \in Reached'
                   PROVE  real_g'[s] = g'[s]
        OBVIOUS
      <3>1. AdjustedCost(o) = Cost[o]
        BY <2>1, AdjustedCostNormal
      <3>2. real_g[current] = g[current]
        BY <1>0, <2>1 DEF NodesOK
      <3>3. CASE s = t
        BY <2>2, <3>1, <3>2, <3>3
      <3>4. CASE s # t
        BY <1>0, <2>2, <3>4 DEF NodesOK, Reached
      <3> QED
        BY <3>3, <3>4
    <2>6. 0 < Bound => \A s \in Reached' : real_g'[s] < Bound
      <3> SUFFICES ASSUME 0 < Bound, NEW s \in Reached' PROVE real_g'[s] < Bound
        OBVIOUS
      <3>1. CASE s = t
        BY <2>1, <2>2, <3>1
      <3>2. CASE s # t
        BY <1>0, <2>2, <3>2 DEF NodesOK, Reached
      <3> QED
        BY <3>1, <3>2
    <2> QED
      BY <2>3, <2>4, <2>5, <2>6 DEF NodesOK
  <1> QED
    BY <1>1, <1>2, <1>3, <1>4, StepCases
    DEF vars, node_vars, OpenListEmpty, SkipClosed, FetchGoal, FetchNode,
        ExpansionDone, Nothing, Generating, TraceParent, TraceStep, TraceDone, TraceEnd, search_vars

\* The initial state stays reached with g = 0, or nothing is ever reached.
LEMMA InitialStateNext == SearchInv /\ [Next]_vars => InitialStateOK'
  <1> SUFFICES ASSUME SearchInv, [Next]_vars PROVE InitialStateOK'
    OBVIOUS
  <1>0. InitialStateOK /\ InitialState \in State
    BY TaskAssumption DEF SearchInv
  <1>1. CASE UNCHANGED vars
    BY <1>0, <1>1 DEF InitialStateOK, Reached, vars
  <1>2. CASE OpenListEmpty
    BY <1>0, <1>2 DEF InitialStateOK, Reached, OpenListEmpty, node_vars
  <1>3. ASSUME NEW e \in open, SkipClosed(e) PROVE InitialStateOK'
    BY <1>0, <1>3 DEF InitialStateOK, Reached, SkipClosed, node_vars
  <1>4. ASSUME NEW e \in open, FetchGoal(e) \/ FetchNode(e) PROVE InitialStateOK'
    <2>1. CloseNode(e) /\ g' = g
      BY <1>4 DEF FetchGoal, FetchNode
    <2> QED
      BY <1>0, <2>1, CloseFacts DEF InitialStateOK
  <1>5. ASSUME NEW o \in todo, phase = "expand"
        PROVE  InitialState \in Reached /\ g[InitialState] = 0
    BY <1>0, <1>5, ExpansionFacts DEF InitialStateOK
  <1>6. CASE ExpansionDone
    BY <1>0, <1>6 DEF InitialStateOK, Reached, ExpansionDone, node_vars
  <1>7. ASSUME NEW o \in todo, Nothing(o) PROVE InitialStateOK'
    BY <1>0, <1>5, <1>7 DEF InitialStateOK, Reached, Nothing, Generating, node_vars
  <1>8. ASSUME NEW o \in todo, NewDeadEnd(o) PROVE InitialStateOK'
    BY <1>0, <1>5, <1>8, DeadEndFacts DEF InitialStateOK, NewDeadEnd, Generating
  <1>9. ASSUME NEW o \in todo, Improves(o, Result[current][o]) PROVE InitialStateOK'
    <2>1. InitialState \in Reached /\ g[InitialState] = 0
      BY <1>5, <1>9 DEF Improves
    <2> QED
      BY <1>0, <1>9, <2>1, ImprovesFacts DEF InitialStateOK
  <1>10. CASE TraceStep \/ TraceEnd
    BY <1>0, <1>10 DEF InitialStateOK, Reached, TraceParent, TraceStep, TraceDone, TraceEnd, search_vars, node_vars
  <1> QED
    BY <1>1, <1>2, <1>3, <1>4, <1>6, <1>7, <1>8, <1>9, <1>10, StepCases

\* Parent pointers stay edges: the g of a parent can only have sunk since.
LEMMA ParentsNext == SearchInv /\ [Next]_vars => ParentsAreEdges'
  <1> SUFFICES ASSUME SearchInv, [Next]_vars PROVE ParentsAreEdges'
    OBVIOUS
  <1>0. ParentsAreEdges /\ NodesOK
    BY DEF SearchInv
  <1>1. ASSUME Reached' = Reached, UNCHANGED <<g, parent, creating_op>>
        PROVE  ParentsAreEdges'
    BY <1>0, <1>1 DEF ParentsAreEdges
  <1>2. ASSUME UNCHANGED status PROVE Reached' = Reached
    BY <1>2 DEF Reached
  <1>3. ASSUME NEW e \in open, FetchGoal(e) \/ FetchNode(e) PROVE ParentsAreEdges'
    BY <1>1, <1>3, CloseFacts DEF FetchGoal, FetchNode
  <1>4. ASSUME NEW o \in todo, NewDeadEnd(o) PROVE ParentsAreEdges'
    BY <1>1, <1>4, DeadEndFacts DEF NewDeadEnd
  <1>5. ASSUME NEW o \in todo, NEW t, t = Result[current][o], Improves(o, t)
        PROVE  ParentsAreEdges'
    <2>1. /\ current \in Reached /\ o \in Op /\ o \in Applicable[current]
          /\ AdjustedCost(o) \in Nat /\ g[current] \in Nat
      BY <1>5, ExpansionFacts DEF Improves
    <2>2. /\ t # current /\ t # InitialState /\ Reached' = Reached \cup {t}
          /\ \A s \in Reached \ {t} : /\ g'[s] = g[s] /\ parent'[s] = parent[s]
                                      /\ creating_op'[s] = creating_op[s]
          /\ g'[t] = g[current] + AdjustedCost(o)
          /\ parent'[t] = current /\ creating_op'[t] = o
          /\ t \in Reached => g'[t] < g[t]
      BY <1>5, ImprovesFacts DEF Reached
    <2>3. o # NoOp
      BY <2>1, SearchAssumption, EngineAssumption
    <2> SUFFICES ASSUME NEW s \in Reached'
                 PROVE  IF creating_op'[s] = NoOp
                        THEN s = InitialState /\ g'[s] = 0
                        ELSE /\ parent'[s] \in Reached'
                             /\ creating_op'[s] \in Applicable[parent'[s]]
                             /\ Result[parent'[s]][creating_op'[s]] = s
                             /\ g'[parent'[s]] + AdjustedCost(creating_op'[s]) <= g'[s]
      BY DEF ParentsAreEdges, AdjustedCost
    <2>4. CASE s = t
      BY <1>5, <2>1, <2>2, <2>3, <2>4
    <2>5. CASE s # t /\ creating_op[s] = NoOp
      BY <1>0, <2>2, <2>5 DEF ParentsAreEdges
    <2>6. CASE s # t /\ creating_op[s] # NoOp
      <3>1. /\ s \in Reached /\ parent[s] \in Reached /\ g[parent[s]] \in Nat
            /\ creating_op[s] \in Applicable[parent[s]]
            /\ Result[parent[s]][creating_op[s]] = s
            /\ g[parent[s]] + AdjustedCost(creating_op[s]) <= g[s]
        BY <1>0, <2>2, <2>6 DEF ParentsAreEdges, NodesOK
      <3>2. AdjustedCost(creating_op[s]) \in Nat
        BY <3>1, TaskAssumption, AdjustedCostNat DEF Reached
      <3>3. g[s] \in Nat /\ g'[s] = g[s]
        BY <1>0, <2>2, <2>6, <3>1 DEF NodesOK
      <3>4. g'[parent[s]] \in Nat /\ g'[parent[s]] <= g[parent[s]]
        <4>1. CASE parent[s] = t
          BY <2>1, <2>2, <3>1, <4>1
        <4>2. CASE parent[s] # t
          BY <2>2, <3>1, <4>2
        <4> QED
          BY <4>1, <4>2
      <3>5. g'[parent[s]] + AdjustedCost(creating_op[s]) <= g'[s]
        BY <3>1, <3>2, <3>3, <3>4
      <3> QED
        BY <2>2, <2>6, <3>1, <3>5
    <2> QED
      BY <2>4, <2>5, <2>6
  <1> QED
    BY <1>1, <1>2, <1>3, <1>4, <1>5, StepCases
    DEF vars, node_vars, OpenListEmpty, SkipClosed, ExpansionDone, Nothing,
        Generating, TraceParent, TraceStep, TraceDone, TraceEnd, search_vars

\* No open node loses its entry of the open list.
LEMMA QueueNext == SearchInv /\ [Next]_vars => OpenNodesAreQueued'
  <1> SUFFICES ASSUME SearchInv, [Next]_vars PROVE OpenNodesAreQueued'
    OBVIOUS
  <1>0. OpenNodesAreQueued /\ TypeOK /\ NodesOK
    BY DEF SearchInv
  <1>1. ASSUME UNCHANGED <<status, g, open>> PROVE OpenNodesAreQueued'
    BY <1>0, <1>1 DEF OpenNodesAreQueued, Reached
  <1>2. ASSUME NEW e \in open, SkipClosed(e) PROVE OpenNodesAreQueued'
    <2>1. /\ open' = open \ {e} /\ status' = status /\ g' = g
          /\ status[e.state] = "CLOSED" /\ Reached' = Reached
      BY <1>2 DEF SkipClosed, node_vars, Reached
    <2>2. \A s \in State : status[s] = "OPEN" =>
             \E d \in open \ {e} : d.state = s /\ (ReopenClosed => d.g = g[s])
      BY <1>0, <2>1 DEF OpenNodesAreQueued
    <2> QED
      BY <1>0, <2>1, <2>2 DEF OpenNodesAreQueued
  <1>3. ASSUME NEW e \in open, FetchGoal(e) \/ FetchNode(e)
        PROVE  OpenNodesAreQueued'
    <2>1. /\ e.state \in State /\ status'[e.state] = "CLOSED"
          /\ \A s \in State \ {e.state} : status'[s] = status[s]
          /\ Reached' = Reached /\ open' = open \ {e} /\ g' = g
      BY <1>3, CloseFacts DEF FetchGoal, FetchNode
    <2>2. \A s \in State : status'[s] = "OPEN" =>
             \E d \in open \ {e} : d.state = s /\ (ReopenClosed => d.g = g[s])
      <3> SUFFICES ASSUME NEW s \in State, status'[s] = "OPEN"
                   PROVE  \E d \in open \ {e} :
                             d.state = s /\ (ReopenClosed => d.g = g[s])
        OBVIOUS
      <3>1. s # e.state /\ status[s] = "OPEN"
        BY <2>1
      <3>2. PICK d \in open : d.state = s /\ (ReopenClosed => d.g = g[s])
        BY <1>0, <3>1 DEF OpenNodesAreQueued
      <3> QED
        BY <3>1, <3>2
    <2> QED
      BY <1>0, <2>1, <2>2 DEF OpenNodesAreQueued
  <1>4. ASSUME NEW o \in todo, NewDeadEnd(o) PROVE OpenNodesAreQueued'
    <2>1. open' = open /\ g' = g
      BY <1>4 DEF NewDeadEnd
    <2>2. \A s \in State : status'[s] = "OPEN" => status[s] = "OPEN"
      BY <1>4, DeadEndFacts
    <2>3. Reached' = Reached
      BY <1>4, DeadEndFacts
    <2> QED
      BY <1>0, <2>1, <2>2, <2>3 DEF OpenNodesAreQueued
  <1>5. ASSUME NEW o \in todo, NEW t, Improves(o, t) PROVE OpenNodesAreQueued'
    <2>1. g[current] \in Nat /\ AdjustedCost(o) \in Nat
      BY <1>5, ExpansionFacts DEF Improves
    <2>2. /\ t \in State
          /\ Reached' = Reached \cup {t}
          /\ \A s \in State \ {t} : status'[s] = status[s] /\ g'[s] = g[s]
          /\ g'[t] = g[current] + AdjustedCost(o)
          /\ t \in Reached => g'[t] < g[t]
          /\ \/ open' = open \cup {[state |-> t, g |-> g'[t]]}
             \/ /\ open' = open /\ ~ReopenClosed
                /\ t \in Reached /\ status'[t] = status[t]
      BY <1>5, ImprovesFacts
    <2>3. \A e \in open : e.state \in State /\ e.g \in Nat
      BY <1>0 DEF TypeOK, Entry
    <2>4. \A s \in Reached : g[s] \in Nat
      BY <1>0 DEF NodesOK
    <2>5. \A e \in open : e.state \in Reached' /\ g'[e.state] <= e.g
      <3> SUFFICES ASSUME NEW e \in open
                   PROVE  e.state \in Reached' /\ g'[e.state] <= e.g
        OBVIOUS
      <3>1. e.state \in Reached /\ g[e.state] <= e.g
        BY <1>0 DEF OpenNodesAreQueued
      <3>2. CASE e.state = t
        <4>1. g'[t] \in Nat /\ g[t] \in Nat
          BY <2>1, <2>2, <2>4, <3>1, <3>2
        <4> QED
          BY <2>2, <2>3, <3>1, <3>2, <4>1
      <3>3. CASE e.state # t
        BY <2>2, <2>3, <3>1, <3>3
      <3> QED
        BY <3>2, <3>3
    <2>6. \A e \in open' : e.state \in Reached' /\ g'[e.state] <= e.g
      <3> SUFFICES ASSUME NEW e \in open', e = [state |-> t, g |-> g'[t]]
                   PROVE  e.state \in Reached' /\ g'[e.state] <= e.g
        BY <2>2, <2>5
      <3> QED
        BY <2>1, <2>2
    <2>7. \A s \in State : status'[s] = "OPEN" =>
             \E e \in open' : e.state = s /\ (ReopenClosed => e.g = g'[s])
      <3> SUFFICES ASSUME NEW s \in State, status'[s] = "OPEN"
                   PROVE  \E e \in open' : e.state = s
                             /\ (ReopenClosed => e.g = g'[s])
        OBVIOUS
      <3>1. CASE s # t
        <4>1. status[s] = "OPEN" /\ g'[s] = g[s]
          BY <2>2, <3>1
        <4>2. PICK e \in open : e.state = s /\ (ReopenClosed => e.g = g[s])
          BY <1>0, <4>1 DEF OpenNodesAreQueued
        <4>3. e \in open'
          BY <2>2
        <4> QED
          BY <4>1, <4>2, <4>3
      <3>2. CASE s = t /\ open' = open \cup {[state |-> t, g |-> g'[t]]}
        <4> DEFINE e == [state |-> t, g |-> g'[t]]
        <4>1. e \in open' /\ e.state = s /\ e.g = g'[s]
          BY <3>2
        <4> QED
          BY <4>1
      <3>3. CASE s = t /\ open' = open /\ ~ReopenClosed /\ status'[t] = status[t]
        BY <1>0, <3>3 DEF OpenNodesAreQueued
      <3> QED
        BY <2>2, <3>1, <3>2, <3>3
    <2> QED
      BY <2>6, <2>7 DEF OpenNodesAreQueued
  <1> QED
    BY <1>1, <1>2, <1>3, <1>4, <1>5, StepCases
    DEF vars, node_vars, OpenListEmpty, ExpansionDone, Nothing,
        Generating, TraceParent, TraceStep, TraceDone, TraceEnd, search_vars

\* A goal that is fetched is traced, never expanded.
LEMMA ExpansionNext == SearchInv /\ [Next]_vars => ExpansionOK'
  <1> SUFFICES ASSUME SearchInv, [Next]_vars PROVE ExpansionOK'
    OBVIOUS
  <1>0. ExpansionOK /\ TypeOK
    BY DEF SearchInv
  <1>1. CASE UNCHANGED vars
    BY <1>0, <1>1 DEF ExpansionOK, vars
  <1>2. CASE OpenListEmpty
    BY <1>0, <1>2 DEF ExpansionOK, OpenListEmpty, node_vars
  <1>3. ASSUME NEW e \in open, SkipClosed(e) PROVE ExpansionOK'
    BY <1>0, <1>3 DEF ExpansionOK, SkipClosed, node_vars
  <1>4. ASSUME NEW e \in open, FetchGoal(e) PROVE ExpansionOK'
    BY <1>0, <1>4 DEF ExpansionOK, FetchGoal, CloseNode
  <1>5. ASSUME NEW e \in open, FetchNode(e) PROVE ExpansionOK'
    <2>1. /\ e.state \in State /\ status'[e.state] = "CLOSED"
          /\ \A s \in State \ {e.state} : status'[s] = status[s]
          /\ current' = e.state /\ phase = "fetch"
      BY <1>5, CloseFacts DEF FetchNode
    <2>2. phase' = "expand" /\ e.state \notin Goal
      BY <1>5 DEF FetchNode
    <2>3. todo' \subseteq Applicable[e.state]
      BY <1>5, <2>1, SearchAssumption, EngineAssumption DEF FetchNode
    <2>4. \A s \in Goal : status'[s] # "CLOSED"
      BY <1>0, <2>1, <2>2, TaskAssumption DEF ExpansionOK
    <2> QED
      BY <2>1, <2>2, <2>3, <2>4 DEF ExpansionOK
  <1>6. CASE ExpansionDone
    BY <1>0, <1>6 DEF ExpansionOK, ExpansionDone, node_vars
  <1>7. ASSUME NEW o \in todo, Nothing(o) PROVE ExpansionOK'
    BY <1>0, <1>7 DEF ExpansionOK, Nothing, Generating, node_vars
  <1>8. ASSUME NEW o \in todo, NewDeadEnd(o) PROVE ExpansionOK'
    <2>1. /\ phase = "expand" /\ phase' = phase /\ current' = current
          /\ todo' = todo \ {o}
      BY <1>8 DEF NewDeadEnd, Generating
    <2>2. \A s \in State : status'[s] = "CLOSED" <=> status[s] = "CLOSED"
      BY <1>8, DeadEndFacts
    <2>3. current \in State /\ Goal \subseteq State
      BY <1>0, <2>1, TaskAssumption DEF ExpansionOK
    <2> QED
      BY <1>0, <2>1, <2>2, <2>3 DEF ExpansionOK
  <1>9. ASSUME NEW o \in todo, NEW t, Improves(o, t) PROVE ExpansionOK'
    <2>1. /\ phase = "expand" /\ phase' = phase /\ current' = current
          /\ todo' = todo \ {o}
      BY <1>9, ImprovesFacts DEF Improves
    <2>2. /\ t # current /\ t \in State
          /\ \A s \in State \ {t} : status'[s] = status[s]
          /\ status'[t] = "OPEN" \/ status'[t] = status[t]
      BY <1>9, ImprovesFacts
    <2>3. current \in State /\ Goal \subseteq State
      BY <1>0, <2>1, TaskAssumption DEF ExpansionOK
    <2>4. \A s \in Goal : status'[s] # "CLOSED"
      BY <1>0, <2>1, <2>2, <2>3 DEF ExpansionOK
    <2>5. status'[current] = "CLOSED"
      BY <1>0, <2>1, <2>2, <2>3 DEF ExpansionOK
    <2> QED
      BY <1>0, <2>1, <2>3, <2>4, <2>5 DEF ExpansionOK
  <1>10. CASE TraceStep \/ TraceEnd
    BY <1>0, <1>10 DEF ExpansionOK, TraceParent, TraceStep, TraceDone, TraceEnd, search_vars
  <1> QED
    BY <1>1, <1>2, <1>3, <1>4, <1>5, <1>6, <1>7, <1>8, <1>9, <1>10, StepCases

\* What ClosedNodesAreExpanded says of one operator of one closed node.
Handled(s, o) ==
    LET t == Result[s][o] IN
    \/ status[t] = "DEAD_END"
    \/ t \in Reached /\ g[t] <= g[s] + AdjustedCost(o)

Waiting(s, o) == phase = "expand" /\ s = current /\ o \in todo

LEMMA ClosedMeansHandled ==
    ClosedNodesAreExpanded <=>
        (ReopenClosed =>
            \A s \in State \ Goal : \A o \in Prune[s] :
                status[s] = "CLOSED" /\ ~Waiting(s, o) /\ real_g[s] + Cost[o] < Bound
                => Handled(s, o))
  BY DEF ClosedNodesAreExpanded, Handled, Waiting

\* A closed node stays expanded: nodes only improve, and one that gets better
\* itself is opened again.
LEMMA ClosedNext == SearchInv /\ [Next]_vars => ClosedNodesAreExpanded'
  <1> SUFFICES ASSUME SearchInv, [Next]_vars, ReopenClosed,
                      NEW s \in State \ Goal, NEW p \in Prune[s],
                      status'[s] = "CLOSED", ~Waiting(s, p)',
                      real_g'[s] + Cost[p] < Bound
               PROVE  Handled(s, p)'
    BY DEF ClosedNodesAreExpanded, Handled, Waiting
  <1>0. /\ ClosedNodesAreExpanded /\ TypeOK /\ NodesOK /\ ExpansionOK
        /\ p \in Op /\ Result[s][p] \in State
    BY TaskAssumption, SearchAssumption, EngineAssumption DEF SearchInv
  <1>1. ASSUME status[s] = "CLOSED", ~Waiting(s, p), real_g[s] = real_g'[s]
        PROVE  Handled(s, p)
    BY <1>0, <1>1, ClosedMeansHandled
  <1>2. ASSUME UNCHANGED <<status, g, real_g>>, ~Waiting(s, p)
        PROVE  Handled(s, p)'
    BY <1>1, <1>2 DEF Handled, Reached, AdjustedCost
  <1>3. CASE UNCHANGED vars
    BY <1>2, <1>3 DEF vars, Waiting
  <1>4. CASE OpenListEmpty
    BY <1>2, <1>4 DEF OpenListEmpty, node_vars, Waiting
  <1>5. ASSUME NEW e \in open, SkipClosed(e) PROVE Handled(s, p)'
    BY <1>2, <1>5 DEF SkipClosed, node_vars, Waiting
  <1>6. ASSUME NEW e \in open, FetchGoal(e) \/ FetchNode(e) PROVE Handled(s, p)'
    <2>1. /\ e.state \in State
          /\ \A n \in State \ {e.state} : status'[n] = status[n]
          /\ Reached' = Reached /\ current' = e.state /\ phase = "fetch"
          /\ status'[e.state] = "CLOSED" /\ status[e.state] = "OPEN"
          /\ g' = g /\ real_g' = real_g
      BY <1>6, CloseFacts DEF FetchGoal, FetchNode
    <2>2. s # e.state
      <3>1. CASE FetchGoal(e)
        BY <3>1 DEF FetchGoal
      <3>2. CASE FetchNode(e)
        <4> SUFFICES ASSUME s = e.state PROVE FALSE
          OBVIOUS
        <4>1. p \in todo'
          BY <3>2, SearchAssumption, EngineAssumption DEF FetchNode
        <4>2. Waiting(s, p)'
          BY <2>1, <3>2, <4>1 DEF Waiting, FetchNode
        <4> QED
          BY <4>2
      <3> QED
        BY <1>6, <3>1, <3>2
    <2>3. Handled(s, p)
      BY <1>1, <2>1, <2>2 DEF Waiting
    <2>4. status[Result[s][p]] = "DEAD_END" => status'[Result[s][p]] = "DEAD_END"
      BY <1>0, <2>1
    <2> QED
      BY <2>1, <2>3, <2>4 DEF Handled, AdjustedCost
  <1>7. CASE ExpansionDone
    BY <1>2, <1>7 DEF ExpansionDone, node_vars, Waiting
  <1>8. ASSUME NEW o \in todo, Nothing(o) PROVE Handled(s, p)'
    <2>1. /\ UNCHANGED <<status, g, real_g, phase, current>>
          /\ todo' = todo \ {o} /\ phase = "expand"
      BY <1>8 DEF Nothing, Generating, node_vars
    <2>2. CASE ~Waiting(s, p)
      BY <1>2, <2>1, <2>2
    <2>3. CASE Waiting(s, p)
      <3>1. s = current /\ p = o
        BY <2>1, <2>3 DEF Waiting
      <3>2. WithinBound(o)
        BY <2>1, <3>1 DEF WithinBound
      <3>3. \/ status[Result[s][p]] = "DEAD_END"
            \/ /\ status[Result[s][p]] \in {"OPEN", "CLOSED"}
               /\ ~IsCheaperPath(Result[s][p], p)
        BY <1>8, <3>1, <3>2 DEF Nothing
      <3>4. status[Result[s][p]] \in {"OPEN", "CLOSED"} => Result[s][p] \in Reached
        BY <1>0 DEF Reached
      <3>5. g[current] + AdjustedCost(p) \in Nat
        BY <1>8, <3>1, ExpansionFacts, <2>1
      <3>6. g[Result[s][p]] \in Int
        BY <1>0 DEF TypeOK
      <3>7. Handled(s, p)
        BY <3>1, <3>3, <3>4, <3>5, <3>6 DEF Handled, IsCheaperPath
      <3> QED
        BY <2>1, <3>7 DEF Handled, Reached, AdjustedCost
    <2> QED
      BY <2>2, <2>3
  <1>9. ASSUME NEW o \in todo, NewDeadEnd(o) PROVE Handled(s, p)'
    <2> DEFINE t == Result[current][o]
    <2>1. /\ UNCHANGED <<g, real_g, phase, current>>
          /\ todo' = todo \ {o} /\ phase = "expand"
      BY <1>9 DEF NewDeadEnd, Generating
    <2>2. /\ t \in State /\ status[t] = "NEW" /\ status'[t] = "DEAD_END"
          /\ \A n \in State \ {t} : status'[n] = status[n]
          /\ Reached' = Reached
      BY <1>9, DeadEndFacts
    <2>3. CASE ~Waiting(s, p)
      <3>1. Handled(s, p)
        BY <1>1, <2>1, <2>2, <2>3
      <3> QED
        BY <1>0, <2>1, <2>2, <3>1 DEF Handled, Reached, AdjustedCost
    <2>4. CASE Waiting(s, p)
      <3>1. s = current /\ p = o
        BY <2>1, <2>4 DEF Waiting
      <3> QED
        BY <2>2, <3>1 DEF Handled
    <2> QED
      BY <2>3, <2>4
  <1>10. ASSUME NEW o \in todo, NEW t, t = Result[current][o], Improves(o, t)
         PROVE  Handled(s, p)'
    <2>1. /\ t \in State /\ t # current /\ Reached' = Reached \cup {t}
          /\ \A n \in State \ {t} : /\ status'[n] = status[n] /\ g'[n] = g[n]
                                    /\ real_g'[n] = real_g[n]
          /\ status'[t] = "OPEN"
          /\ g'[t] = g[current] + AdjustedCost(o)
          /\ t \in Reached => g'[t] < g[t]
          /\ t \notin Reached => status[t] = "NEW"
          /\ phase' = phase /\ current' = current /\ todo' = todo \ {o}
      BY <1>10, ImprovesFacts
    <2>2. phase = "expand" /\ g[current] \in Nat /\ AdjustedCost(o) \in Nat
          /\ current \in State
      BY <1>10, ExpansionFacts DEF Improves
    <2>3. s # t
      BY <2>1
    <2>4. s \in Reached /\ g[s] \in Nat /\ AdjustedCost(p) \in Nat
      BY <1>0, <2>1, <2>3, AdjustedCostNat DEF Reached, NodesOK
    <2>5. CASE ~Waiting(s, p)
      <3>1. Handled(s, p)
        BY <1>1, <2>1, <2>3, <2>5
      <3>2. CASE Result[s][p] = t
        <4>1. t \in Reached /\ g[t] <= g[s] + AdjustedCost(p)
          BY <2>1, <3>1, <3>2 DEF Handled, Reached
        <4>2. g[t] \in Nat /\ g'[t] \in Nat
          BY <1>0, <2>1, <2>2, <4>1 DEF NodesOK
        <4>3. t \in Reached' /\ g'[t] <= g'[s] + AdjustedCost(p)
          BY <2>1, <2>3, <2>4, <4>1, <4>2
        <4> QED
          BY <3>2, <4>3 DEF Handled, AdjustedCost
      <3>3. CASE Result[s][p] # t
        BY <1>0, <2>1, <2>3, <3>1, <3>3 DEF Handled, AdjustedCost
      <3> QED
        BY <3>2, <3>3
    <2>6. CASE Waiting(s, p)
      <3>1. s = current /\ p = o
        BY <2>1, <2>2, <2>6 DEF Waiting
      <3>2. t \in Reached' /\ g'[t] <= g'[s] + AdjustedCost(p)
        BY <2>1, <2>2, <2>3, <3>1
      <3> QED
        BY <1>10, <3>1, <3>2 DEF Handled, AdjustedCost
    <2> QED
      BY <2>5, <2>6
  <1>11. CASE TraceStep \/ TraceEnd
    BY <1>2, <1>11 DEF TraceParent, TraceStep, TraceDone, TraceEnd, search_vars, node_vars, Waiting
  <1> QED
    BY <1>3, <1>4, <1>5, <1>6, <1>7, <1>8, <1>9, <1>10, <1>11, StepCases

\* One iteration of trace_path extends a plan for the traced node by the
\* operator that leads to that node.
LEMMA TraceNext == SearchInv /\ [Next]_vars => TraceOK'
  <1> SUFFICES ASSUME SearchInv, [Next]_vars PROVE TraceOK'
    OBVIOUS
  <1>0. TraceOK /\ TypeOK /\ NodesOK /\ ParentsAreEdges
    BY DEF SearchInv
  <1>1. ASSUME phase' \in {"fetch", "expand", "failed"}, path_cost' = 0
        PROVE  TraceOK'
    BY <1>1 DEF TraceOK
  <1>2. ASSUME NEW e \in open, FetchGoal(e) PROVE TraceOK'
    <2>1. /\ e.state \in Goal /\ e.state \in Reached' /\ g' = g
          /\ current' = e.state /\ phase = "fetch" /\ phase' = "trace"
          /\ path_cost' = path_cost /\ e.state \in Reached
      BY <1>2, CloseFacts DEF FetchGoal
    <2>2. path_cost' = 0
      BY <1>0, <2>1 DEF TraceOK
    <2>3. e.state \in Solvable /\ Dist[e.state] = 0
      BY <2>1, DistanceAssumption
    <2>4. CostType = "NORMAL" /\ 0 < Bound => 0 + g[e.state] < Bound
      BY <1>0, <2>1 DEF NodesOK
    <2> QED
      BY <2>1, <2>2, <2>3, <2>4 DEF TraceOK
  <1>3. CASE TraceStep
    <2> DEFINE o == creating_op[current]
               p == parent[current]
    <2>1. /\ phase = "trace" /\ phase' = "trace" /\ o # NoOp
          /\ path_cost' = path_cost + Cost[o] /\ current' = p
          /\ status' = status /\ g' = g
      BY <1>3 DEF TraceParent, TraceStep, search_vars, node_vars
    <2>2. /\ current \in Reached /\ current \in Solvable
          /\ Dist[current] <= path_cost
          /\ CostType = "NORMAL" /\ 0 < Bound => path_cost + g[current] < Bound
      BY <1>0, <2>1 DEF TraceOK
    <2>3. /\ p \in Reached /\ o \in Applicable[p] /\ Result[p][o] = current
          /\ g[p] + AdjustedCost(o) <= g[current]
      BY <1>0, <2>1, <2>2 DEF ParentsAreEdges
    <2>4. p \in State /\ o \in Op
      BY <2>3, TaskAssumption DEF Reached
    <2>5. p \in Solvable /\ Dist[p] <= Cost[o] + Dist[current]
      BY <2>2, <2>3, <2>4, DistanceAssumption
    <2>6. /\ Dist[p] \in Nat /\ Dist[current] \in Nat /\ Cost[o] \in Nat
          /\ path_cost \in Nat /\ g[p] \in Nat /\ g[current] \in Nat
          /\ AdjustedCost(o) \in Nat /\ Bound \in Nat
      BY <1>0, <2>2, <2>3, <2>4, TaskAssumption, DistanceAssumption,
         AdjustedCostNat DEF TypeOK, NodesOK, Reached
    <2>7. Dist[p] <= path_cost'
      BY <2>1, <2>2, <2>5, <2>6
    <2>8. CostType = "NORMAL" /\ 0 < Bound => path_cost' + g[p] < Bound
      BY <2>1, <2>2, <2>3, <2>4, <2>6, AdjustedCostNormal
    <2>9. Reached' = Reached
      BY <2>1 DEF Reached
    <2> QED
      BY <2>1, <2>3, <2>5, <2>7, <2>8, <2>9 DEF TraceOK
  <1>4. CASE TraceEnd
    BY <1>0, <1>4 DEF TraceOK, TraceDone, TraceEnd, search_vars, node_vars, Reached
  <1>5. CASE UNCHANGED vars
    BY <1>0, <1>5 DEF TraceOK, vars, Reached
  <1>6. ASSUME phase \in {"fetch", "expand"}, path_cost' = path_cost,
               phase' \in {"fetch", "expand", "failed"}
        PROVE  TraceOK'
    BY <1>0, <1>1, <1>6 DEF TraceOK
  <1>7. CASE OpenListEmpty \/ ExpansionDone
    BY <1>6, <1>7 DEF OpenListEmpty, ExpansionDone
  <1>8. ASSUME NEW e \in open, SkipClosed(e) \/ FetchNode(e) PROVE TraceOK'
    BY <1>6, <1>8 DEF SkipClosed, FetchNode, CloseNode
  <1>9. ASSUME NEW o \in todo,
               Nothing(o) \/ NewDeadEnd(o) \/ Improves(o, Result[current][o])
        PROVE  TraceOK'
    BY <1>6, <1>9 DEF Nothing, NewDeadEnd, Generating, Improves
  <1> QED
    BY <1>2, <1>3, <1>4, <1>5, <1>7, <1>8, <1>9, StepCases

LEMMA SearchInvInit == Init => SearchInv
  <1> SUFFICES ASSUME Init PROVE SearchInv
    OBVIOUS
  <1>1. TypeOK
    BY TypeInit
  <1>2. /\ Reached \subseteq {InitialState}
        /\ InitialState \in Reached <=> h[InitialState] # Infty
        /\ InitialState \in Reached => g[InitialState] = 0 /\ real_g[InitialState] = 0
        /\ \A s \in State : status[s] = "OPEN" <=> s \in Reached
        /\ \A s \in State : status[s] \notin {"DEAD_END", "CLOSED"}
    BY TaskAssumption DEF Init, Reached
  <1>3. NodesOK
    BY <1>2 DEF NodesOK
  <1>4. InitialStateOK
    BY <1>2 DEF InitialStateOK, Init
  <1>5. OpenNodesAreQueued
    <2>1. CASE h[InitialState] = Infty
      BY <1>2, <2>1 DEF OpenNodesAreQueued, Init
    <2>2. CASE h[InitialState] # Infty
      <3>1. open = {[state |-> InitialState, g |-> 0]} /\ g[InitialState] = 0
        BY <1>2, <2>2 DEF Init
      <3>2. [state |-> InitialState, g |-> 0] \in open
        BY <3>1
      <3> QED
        BY <1>2, <2>2, <3>1, <3>2 DEF OpenNodesAreQueued
    <2> QED
      BY <2>1, <2>2
  <1>6. ParentsAreEdges
    BY <1>2 DEF ParentsAreEdges, Init, Reached
  <1>7. ClosedNodesAreExpanded
    BY <1>2 DEF ClosedNodesAreExpanded
  <1>8. ExpansionOK
    BY <1>2, TaskAssumption DEF ExpansionOK, Init
  <1>9. TraceOK
    BY DEF TraceOK, Init
  <1> QED
    BY <1>1, <1>3, <1>4, <1>5, <1>6, <1>7, <1>8, <1>9 DEF SearchInv

LEMMA SearchInvNext == SearchInv /\ [Next]_vars => SearchInv'
  BY TypeNext, NodesNext, InitialStateNext, QueueNext, ParentsNext, ClosedNext,
     ExpansionNext, TraceNext
  DEF SearchInv

\* SearchInv holds in every reachable state of the search.
THEOREM SearchInvariant == Spec => []SearchInv
  BY SearchInvInit, SearchInvNext, PTL DEF Spec

\* Every variable keeps its type; in particular no key of the open list is
\* computed from a g that is not there yet.
THEOREM TypeCorrect == Spec => []TypeOK
  <1>1. SearchInv => TypeOK
    BY DEF SearchInv
  <1> QED
    BY <1>1, SearchInvariant, PTL

\* The assertions of fetch_next_node hold and lazy deletion loses no node.
THEOREM QueueCorrect == Spec => []OpenNodesAreQueued
  <1>1. SearchInv => OpenNodesAreQueued
    BY DEF SearchInv
  <1> QED
    BY <1>1, SearchInvariant, PTL

\* Parent pointers are edges of the task that account for the g values.
THEOREM ParentsCorrect == Spec => []ParentsAreEdges
  <1>1. SearchInv => ParentsAreEdges
    BY DEF SearchInv
  <1> QED
    BY <1>1, SearchInvariant, PTL

\* With reopening, a closed node never misses a cheaper way to a successor.
THEOREM ClosedCorrect == Spec => []ClosedNodesAreExpanded
  <1>1. SearchInv => ClosedNodesAreExpanded
    BY DEF SearchInv
  <1> QED
    BY <1>1, SearchInvariant, PTL

\* Under cost_type = NORMAL the plan traced back costs less than the bound,
\* with and without reopening.
THEOREM BoundRespected ==
    ASSUME CostType = "NORMAL", 0 < Bound
    PROVE  Spec => []PlanWithinBound
  <1>1. SearchInv => PlanWithinBound
    <2> SUFFICES ASSUME SearchInv, phase = "solved" PROVE path_cost < Bound
      BY DEF PlanWithinBound
    <2>1. current \in Reached /\ path_cost + g[current] < Bound
      BY DEF SearchInv, TraceOK
    <2>2. g[current] \in Nat /\ path_cost \in Nat /\ Bound \in Nat
      BY <2>1, TaskAssumption DEF SearchInv, NodesOK, TypeOK
    <2> QED
      BY <2>1, <2>2
  <1> QED
    BY <1>1, SearchInvariant, PTL

-----------------------------------------------------------------------------
\* A nonempty set of states has an element of least rank.
LEMMA LeastRank ==
    ASSUME NEW S \in SUBSET State, S # {}
    PROVE  \E s \in S : \A r \in S : Rank[s] <= Rank[r]
  <1> DEFINE Ranks == {Rank[s] : s \in S}
  <1>1. Ranks \subseteq Nat /\ Ranks # {}
    BY DistanceAssumption
  <1>2. PICK m \in Ranks : \A k \in Ranks : ~(<<k, m>> \in OpToRel(<, Nat))
    BY <1>1, WFMin, NatLessThanWellFounded
  <1>3. ASSUME NEW k \in Ranks PROVE m <= k
    <2>1. k \in Nat /\ m \in Nat
      BY <1>1
    <2>2. <<k, m>> \notin OpToRel(<, Nat)
      BY <1>2
    <2>3. ~(k < m)
      BY <2>1, <2>2, Zenon DEF OpToRel
    <2> QED
      BY <2>1, <2>3
  <1>4. PICK s \in S : m = Rank[s]
    OBVIOUS
  <1> QED
    BY <1>3, <1>4

\* The situations in which completeness can be hoped for.
ExactSearch == CostType = "NORMAL" /\ ReopenClosed /\ Safe /\ PruningKeepsAPlan

\* Between two expansions an open node lies on a path that can still become
\* a cheapest plan: its g is the least possible for a node that far from the
\* goal.  (Along such a path, the reached node of least rank is open: were it
\* closed, its successor would be reached as well.)
LEMMA Frontier ==
    ASSUME SearchInv, ExactSearch, phase \in {"fetch", "failed"},
           InitialState \in Solvable, Dist[InitialState] < Bound
    PROVE  \E n \in Solvable : /\ status[n] = "OPEN"
                               /\ g[n] + Dist[n] <= Dist[InitialState]
  <1> DEFINE OnPath == {s \in Reached \cap Solvable :
                           g[s] + Dist[s] <= Dist[InitialState]}
  <1>0. /\ TypeOK /\ NodesOK /\ InitialStateOK /\ ExpansionOK
        /\ ClosedNodesAreExpanded
        /\ CostType = "NORMAL" /\ ReopenClosed /\ Safe /\ PruningKeepsAPlan
    BY DEF SearchInv, ExactSearch
  <1>1. \A s \in State : Dist[s] \in Nat /\ Rank[s] \in Nat
    BY DistanceAssumption
  <1>2. h[InitialState] # Infty
    BY <1>0 DEF Safe, TypeOK
  <1>3. InitialState \in OnPath
    BY <1>0, <1>1, <1>2, TaskAssumption DEF InitialStateOK
  <1>4. PICK n \in OnPath : \A s \in OnPath : Rank[n] <= Rank[s]
    <2>1. OnPath \in SUBSET State /\ OnPath # {}
      BY <1>3 DEF Reached
    <2> QED
      BY <2>1, LeastRank
  <1>5. /\ n \in State /\ n \in Solvable /\ n \in Reached /\ g[n] \in Nat
        /\ g[n] + Dist[n] <= Dist[InitialState]
    BY <1>0, <1>4 DEF NodesOK, Reached
  <1>6. ASSUME status[n] = "CLOSED" PROVE FALSE
    <2>1. n \in Solvable \ Goal
      BY <1>0, <1>5, <1>6 DEF ExpansionOK
    <2>2. PICK o \in Prune[n] : /\ Result[n][o] \in Solvable
                                /\ Dist[n] = Cost[o] + Dist[Result[n][o]]
                                /\ Rank[Result[n][o]] < Rank[n]
      BY <1>0, <2>1 DEF PruningKeepsAPlan
    <2> DEFINE t == Result[n][o]
    <2>3. o \in Op /\ t \in State /\ Cost[o] \in Nat
      BY <1>5, <2>2, TaskAssumption, SearchAssumption, EngineAssumption
    <2>4. AdjustedCost(o) = Cost[o] /\ real_g[n] = g[n]
      BY <1>0, <1>5, <2>3, AdjustedCostNormal DEF NodesOK
    <2>5. real_g[n] + Cost[o] < Bound
      BY <1>1, <1>5, <2>2, <2>3, <2>4, TaskAssumption
    <2>6. ~Waiting(n, o)
      BY DEF Waiting
    <2>7. \/ status[t] = "DEAD_END"
          \/ t \in Reached /\ g[t] <= g[n] + Cost[o]
      <3>1. ClosedNodesAreExpanded /\ ReopenClosed
        BY <1>0
      <3>2. n \in State \ Goal
        BY <1>5, <2>1
      <3>3. Handled(n, o)
        BY <1>6, <2>2, <2>5, <2>6, <3>1, <3>2, ClosedMeansHandled
      <3> QED
        BY <2>4, <3>3 DEF Handled
    <2>8. status[t] # "DEAD_END"
      BY <1>0, <2>2, <2>3 DEF NodesOK, Safe, TypeOK
    <2>9. t \in Reached /\ g[t] <= g[n] + Cost[o] /\ g[t] \in Nat
      BY <1>0, <2>7, <2>8 DEF NodesOK
    <2>10. t \in OnPath
      BY <1>1, <1>5, <2>2, <2>3, <2>9, TaskAssumption
    <2> QED
      BY <1>1, <1>4, <1>5, <2>2, <2>3, <2>10
  <1> QED
    BY <1>5, <1>6 DEF Reached

\* "Completely explored state space -- no solution!" is true: with reopening,
\* safe heuristics and pruning that keeps a plan, the search only fails if
\* there is no plan cheaper than the bound.
THEOREM FailureIsCorrect ==
    ASSUME ExactSearch
    PROVE  Spec => []FailedIsUnsolvable
  <1>1. SearchInv => FailedIsUnsolvable
    <2> SUFFICES ASSUME SearchInv, phase = "failed",
                        InitialState \in Solvable, ~(Bound <= Dist[InitialState])
                 PROVE  FALSE
      BY DEF FailedIsUnsolvable
    <2>1. Dist[InitialState] < Bound
      BY TaskAssumption, DistanceAssumption
    <2>2. PICK n \in Solvable : status[n] = "OPEN"
      BY <2>1, Frontier
    <2>3. n \in State /\ open = {}
      BY <2>2, DistanceAssumption DEF SearchInv, ExpansionOK
    <2> QED
      BY <2>2, <2>3 DEF SearchInv, OpenNodesAreQueued
  <1> QED
    BY <1>1, SearchInvariant, PTL

\* A* with an admissible, possibly inconsistent heuristic.
ExactAstar == CostType = "NORMAL" /\ ReopenClosed /\ Queue = "astar"
              /\ Admissible /\ PruningKeepsAPlan

LEMMA AdmissibleIsSafe == ExactAstar => ExactSearch
  BY SearchAssumption, EngineAssumption DEF ExactAstar, ExactSearch, Admissible, Safe, Infty

LEMMA TraceOptimalNext ==
    ASSUME ExactAstar, SearchInv, TraceOptimal, [Next]_vars
    PROVE  TraceOptimal'
  <1> SUFFICES ASSUME phase' \in {"trace", "solved"}, InitialState \in Solvable,
                      Dist[InitialState] < Bound
               PROVE  path_cost' + g'[current'] <= Dist[InitialState]
    BY DEF TraceOptimal
  <1>0. TypeOK /\ NodesOK /\ TraceOK /\ ParentsAreEdges
    BY DEF SearchInv
  <1>1. ASSUME NEW e \in open, FetchGoal(e)
        PROVE  path_cost' + g'[current'] <= Dist[InitialState]
    <2>1. /\ e.state \in Goal /\ e.state \in State /\ e.g \in Nat
          /\ e.state \in Reached /\ g[e.state] <= e.g
          /\ current' = e.state /\ phase = "fetch" /\ g' = g
          /\ path_cost' = path_cost
      BY <1>1, CloseFacts DEF FetchGoal
    <2>2. PICK n \in Solvable : /\ status[n] = "OPEN"
                                /\ g[n] + Dist[n] <= Dist[InitialState]
      BY <2>1, Frontier, AdmissibleIsSafe
    <2>3. n \in State
      BY DistanceAssumption
    <2>4. PICK d \in open : d.state = n /\ d.g = g[n]
      BY <2>2, <2>3 DEF SearchInv, OpenNodesAreQueued, ExactAstar
    <2>5. EntryKey(e) <= EntryKey(d)
      <3>1. IsMinimal(e)
        BY <1>1 DEF FetchGoal, CloseNode
      <3>2. EntryKey(e) \in Int /\ EntryKey(d) \in Int
        <4>1. h[e.state] \in Int /\ h[n] \in Int
          BY <1>0, <2>1, <2>3, SearchAssumption, EngineAssumption DEF TypeOK, Infty
        <4>2. d.g \in Nat
          BY <1>0 DEF TypeOK, Entry
        <4> QED
          BY <2>1, <2>4, <4>1, <4>2 DEF EntryKey, ExactAstar
      <3> QED
        BY <3>1, <3>2 DEF IsMinimal
    <2>6. /\ h[n] \in Int /\ h[n] <= Dist[n] /\ h[e.state] \in Int /\ 0 <= h[e.state]
      <3>1. e.state \in Solvable
        BY <2>1, DistanceAssumption
      <3>2. h \in Heuristics
        BY <1>0 DEF TypeOK
      <3>3. h[n] \in Int /\ h[e.state] \in Int
        BY <2>1, <2>3, <3>2, SearchAssumption, EngineAssumption DEF Infty
      <3> QED
        BY <3>1, <3>2, <3>3 DEF ExactAstar, Admissible
    <2>7. e.g + h[e.state] <= g[n] + h[n]
      BY <2>4, <2>5 DEF EntryKey, ExactAstar
    <2>8. /\ g[n] \in Nat /\ g[e.state] \in Nat /\ Dist[n] \in Nat
          /\ Dist[InitialState] \in Nat
      BY <1>0, <2>1, <2>2, <2>3, TaskAssumption, DistanceAssumption
      DEF NodesOK, Reached
    <2>9. g[e.state] <= Dist[InitialState]
      BY <2>1, <2>2, <2>6, <2>7, <2>8
    <2>10. path_cost = 0
      BY <1>0, <2>1 DEF TraceOK
    <2> QED
      BY <2>1, <2>8, <2>9, <2>10
  <1>2. CASE TraceStep
    <2> DEFINE o == creating_op[current]
               p == parent[current]
    <2>1. /\ phase = "trace" /\ o # NoOp /\ current' = p /\ g' = g
          /\ path_cost' = path_cost + Cost[o]
      BY <1>2 DEF TraceParent, TraceStep, search_vars, node_vars
    <2>2. current \in Reached /\ path_cost + g[current] <= Dist[InitialState]
      BY <1>0, <2>1 DEF TraceOK, TraceOptimal
    <2>3. p \in Reached /\ o \in Applicable[p] /\ g[p] + AdjustedCost(o) <= g[current]
      BY <1>0, <2>1, <2>2 DEF ParentsAreEdges
    <2>4. o \in Op /\ Cost[o] \in Nat /\ AdjustedCost(o) = Cost[o]
      BY <2>3, TaskAssumption, AdjustedCostNormal DEF Reached, ExactAstar
    <2>5. /\ g[p] \in Nat /\ g[current] \in Nat /\ path_cost \in Nat
          /\ Dist[InitialState] \in Nat
      BY <1>0, <2>2, <2>3, TaskAssumption, DistanceAssumption DEF NodesOK, TypeOK
    <2> QED
      BY <2>1, <2>2, <2>3, <2>4, <2>5
  <1>3. ASSUME UNCHANGED <<g, current, path_cost>>, phase \in {"trace", "solved"}
        PROVE  path_cost' + g'[current'] <= Dist[InitialState]
    BY <1>3 DEF TraceOptimal
  <1>4. CASE TraceEnd \/ UNCHANGED vars
    BY <1>3, <1>4 DEF TraceDone, TraceEnd, search_vars, vars, node_vars
  <1> QED
    BY <1>1, <1>2, <1>4, StepCases
    DEF OpenListEmpty, SkipClosed, FetchNode, ExpansionDone, Nothing,
        NewDeadEnd, Generating, Improves

\* A* is optimal: whatever admissible heuristic guides it, and even though g
\* values and parent pointers may disagree, the plan traced back costs
\* exactly the distance of the initial state.
THEOREM AstarIsOptimal ==
    ASSUME ExactAstar, 0 < Bound
    PROVE  Spec => []SolvedIsOptimal
  <1>1. Init => TraceOptimal
    BY DEF Init, TraceOptimal
  <1>2. SearchInv /\ TraceOptimal /\ [Next]_vars => TraceOptimal'
    BY TraceOptimalNext
  <1>3. SearchInv /\ TraceOptimal => SolvedIsOptimal
    <2> SUFFICES ASSUME SearchInv, TraceOptimal, phase = "solved"
                 PROVE  InitialState \in Solvable /\ path_cost = Dist[InitialState]
      BY DEF SolvedIsOptimal
    <2>1. /\ current \in Reached /\ current \in Solvable
          /\ Dist[current] <= path_cost /\ creating_op[current] = NoOp
          /\ path_cost + g[current] < Bound
      BY DEF SearchInv, TraceOK, ExactAstar
    <2>2. current = InitialState /\ g[current] = 0
      BY <2>1 DEF SearchInv, ParentsAreEdges
    <2>3. path_cost \in Nat /\ Dist[InitialState] \in Nat /\ Bound \in Nat
      BY TaskAssumption, DistanceAssumption DEF SearchInv, TypeOK
    <2>4. Dist[InitialState] < Bound
      BY <2>1, <2>2, <2>3
    <2>5. path_cost <= Dist[InitialState]
      BY <2>1, <2>2, <2>3, <2>4 DEF TraceOptimal
    <2> QED
      BY <2>1, <2>2, <2>3, <2>5
  <1> QED
    BY <1>1, <1>2, <1>3, SearchInvariant, PTL DEF Spec

-----------------------------------------------------------------------------
\* A new parent closes no circle of parent pointers, even among nodes whose
\* operators cost nothing: a circle through the new edge would, without its
\* last node, leave a circle among the nodes with a g no larger than that of
\* the new parent.
LEMMA NoCycleNext == SearchInv /\ NoParentCycle /\ [Next]_vars => NoParentCycle'
  <1> SUFFICES ASSUME SearchInv, NoParentCycle, [Next]_vars PROVE NoParentCycle'
    OBVIOUS
  <1>0. ParentsAreEdges /\ NodesOK
    BY DEF SearchInv
  <1>1. ASSUME Reached' = Reached, UNCHANGED <<parent, creating_op>>
        PROVE  NoParentCycle'
    BY <1>1 DEF NoParentCycle
  <1>2. ASSUME UNCHANGED status PROVE Reached' = Reached
    BY <1>2 DEF Reached
  <1>3. ASSUME NEW e \in open, FetchGoal(e) \/ FetchNode(e) PROVE NoParentCycle'
    BY <1>1, <1>3, CloseFacts DEF FetchGoal, FetchNode
  <1>4. ASSUME NEW o \in todo, NewDeadEnd(o) PROVE NoParentCycle'
    BY <1>1, <1>4, DeadEndFacts DEF NewDeadEnd
  <1>5. ASSUME NEW o \in todo, NEW t, t = Result[current][o], Improves(o, t)
        PROVE  NoParentCycle'
    <2>1. /\ t # current /\ Reached' = Reached \cup {t} /\ t \in State
          /\ \A s \in Reached \ {t} : /\ parent'[s] = parent[s]
                                      /\ creating_op'[s] = creating_op[s]
          /\ g'[t] = g[current] + AdjustedCost(o)
          /\ parent'[t] = current
          /\ t \in Reached => g'[t] < g[t]
      BY <1>5, ImprovesFacts DEF Reached
    <2>2. /\ current \in Reached /\ g[current] \in Nat /\ AdjustedCost(o) \in Nat
      BY <1>5, ExpansionFacts DEF Improves
    <2>3. t \in Reached => g[t] \in Nat /\ g[current] < g[t]
      BY <1>0, <2>1, <2>2 DEF NodesOK
    <2> SUFFICES ASSUME NEW S \in SUBSET Reached', S # {},
                        \A s \in S : creating_op'[s] # NoOp /\ parent'[s] \in S
                 PROVE  FALSE
      BY DEF NoParentCycle
    <2>4. CASE t \notin S
      <3>1. S \in SUBSET Reached
        BY <2>1, <2>4
      <3>2. \A s \in S : creating_op[s] # NoOp /\ parent[s] \in S
        BY <2>1, <2>4, <3>1
      <3> QED
        BY <3>1, <3>2 DEF NoParentCycle
    <2>5. CASE t \in S
      <3> DEFINE T == {s \in S \ {t} : g[s] <= g[current]}
      <3>1. T \in SUBSET Reached
        BY <2>1
      <3>2. current \in T
        BY <2>1, <2>2, <2>5
      <3>3. ASSUME NEW s \in T PROVE creating_op[s] # NoOp /\ parent[s] \in T
        <4>1. /\ s \in Reached \ {t} /\ s \in S /\ g[s] <= g[current]
              /\ g[s] \in Nat
          BY <1>0, <3>1 DEF NodesOK
        <4>2. creating_op[s] # NoOp /\ parent[s] \in S
          BY <2>1, <4>1
        <4>3. /\ parent[s] \in Reached /\ creating_op[s] \in Applicable[parent[s]]
              /\ g[parent[s]] + AdjustedCost(creating_op[s]) <= g[s]
          BY <1>0, <4>1, <4>2 DEF ParentsAreEdges
        <4>4. g[parent[s]] \in Nat /\ AdjustedCost(creating_op[s]) \in Nat
          BY <1>0, <4>3, TaskAssumption, AdjustedCostNat DEF NodesOK, Reached
        <4>5. g[parent[s]] <= g[current]
          BY <2>2, <4>1, <4>3, <4>4
        <4>6. parent[s] # t
          BY <2>2, <2>3, <4>3, <4>5
        <4> QED
          BY <4>2, <4>5, <4>6
      <3> QED
        BY <3>1, <3>2, <3>3 DEF NoParentCycle
    <2> QED
      BY <2>4, <2>5
  <1> QED
    BY <1>1, <1>2, <1>3, <1>4, <1>5, StepCases
    DEF vars, node_vars, OpenListEmpty, SkipClosed, ExpansionDone, Nothing,
        Generating, TraceParent, TraceStep, TraceDone, TraceEnd, search_vars

\* trace_path always gets back to the initial state: parent pointers have no
\* circle, whatever operators of cost 0 the task has.
THEOREM ParentsAreAcyclic == Spec => []NoParentCycle
  <1>1. Init => NoParentCycle
    <2> SUFFICES ASSUME Init, NEW S \in SUBSET Reached, S # {},
                        NEW s \in S
                 PROVE  creating_op[s] = NoOp
      BY DEF NoParentCycle
    <2> QED
      BY DEF Init, Reached
  <1> QED
    BY <1>1, NoCycleNext, SearchInvariant, PTL DEF Spec

-----------------------------------------------------------------------------
\* One step of the search is a step of the label correcting algorithm, or
\* leaves all labels alone.

LEMMA RelaxesAnEdge ==
    ASSUME SearchInv, [Next]_vars
    PROVE  [Labels!Next]_LabelOf
  <1>0. TypeOK /\ NodesOK
    BY DEF SearchInv
  <1>1. ASSUME Reached' = Reached, g' = g PROVE LabelOf' = LabelOf
    BY <1>1 DEF LabelOf
  <1>2. ASSUME UNCHANGED status PROVE Reached' = Reached
    BY <1>2 DEF Reached
  <1>3. ASSUME NEW e \in open, FetchGoal(e) \/ FetchNode(e) PROVE LabelOf' = LabelOf
    BY <1>1, <1>3, CloseFacts DEF FetchGoal, FetchNode
  <1>4. ASSUME NEW o \in todo, NewDeadEnd(o) PROVE LabelOf' = LabelOf
    BY <1>1, <1>4, DeadEndFacts DEF NewDeadEnd
  <1>5. ASSUME NEW o \in todo, NEW t, t = Result[current][o], Improves(o, t)
        PROVE  Labels!Next
    <2>1. /\ t # current /\ Reached' = Reached \cup {t} /\ t \in State
          /\ \A s \in State \ {t} : g'[s] = g[s]
          /\ g'[t] = g[current] + AdjustedCost(o)
          /\ t \in Reached => g'[t] < g[t]
      BY <1>5, ImprovesFacts
    <2>2. /\ current \in Reached /\ current \in State /\ o \in Op
          /\ o \in Applicable[current]
          /\ g[current] \in Nat /\ AdjustedCost(o) \in Nat
      BY <1>5, ExpansionFacts DEF Improves
    <2> DEFINE e == <<current, t, AdjustedCost(o)>>
    <2>3. e \in TaskEdges
      BY <1>5, <2>1, <2>2 DEF TaskEdges
    <2>4. LabelOf[current] = g[current] /\ LabelOf[current] # -1
      BY <2>2 DEF LabelOf
    <2>5. LabelOf[t] = -1 \/ LabelOf[t] > LabelOf[current] + AdjustedCost(o)
      BY <1>0, <2>1, <2>2, <2>4 DEF LabelOf, NodesOK
    <2>6. LabelOf' = [LabelOf EXCEPT ![t] = LabelOf[current] + AdjustedCost(o)]
      BY <2>1, <2>4 DEF LabelOf
    <2>7. Labels!Relax(e)
      BY <2>4, <2>5, <2>6 DEF Labels!Relax, Labels!Unlabelled
    <2> QED
      BY <2>3, <2>7 DEF Labels!Next
  <1> QED
    BY <1>1, <1>2, <1>3, <1>4, <1>5, StepCases
    DEF vars, node_vars, OpenListEmpty, SkipClosed, ExpansionDone, Nothing,
        Generating, TraceParent, TraceStep, TraceDone, TraceEnd, search_vars

\* Every search, whatever the order of its open list, is a label correcting
\* algorithm: it refines LabelCorrecting with the g values as labels.
THEOREM Refinement == Spec => ImplementsLabelCorrecting
  <1>1. Init => Labels!Init
    <2> SUFFICES ASSUME Init PROVE Labels!Init
      OBVIOUS
    <2>1. CASE h[InitialState] = Infty
      BY <2>1 DEF Init, Labels!Init, Labels!NoLabels, Labels!SourceLabelled,
             Labels!Unlabelled, LabelOf, Reached
    <2>2. CASE h[InitialState] # Infty
      BY <2>2 DEF Init, Labels!Init, Labels!NoLabels, Labels!SourceLabelled,
             Labels!Unlabelled, LabelOf, Reached
    <2> QED
      BY <2>1, <2>2
  <1>2. SearchInv /\ [Next]_vars => [Labels!Next]_LabelOf
    BY RelaxesAnEdge
  <1> QED
    BY <1>1, <1>2, SearchInvariant, PTL
    DEF Spec, ImplementsLabelCorrecting, Labels!Spec

-----------------------------------------------------------------------------
\* A label never promises a path cheaper than there is: whatever Potential
\* never grows by more than the cost of an edge along that edge bounds the g
\* values from below.  LabelCorrecting promises so, and the search refines it.
CONSTANT Potential

Bounded == INSTANCE LabelCorrecting WITH
    Node <- State,
    Source <- InitialState,
    Edge <- TaskEdges,
    LowerBound <- Potential,
    label <- LabelOf

LabelInv == Bounded!TypeOK /\ Bounded!LabelsAreAchievable

LEMMA LabelInvInit == ASSUME Bounded!GraphOK PROVE Bounded!Init => LabelInv
  <1> SUFFICES ASSUME Bounded!Init PROVE LabelInv
    OBVIOUS
  <1>1. Bounded!TypeOK
    BY
    DEF Bounded!Init, Bounded!NoLabels, Bounded!SourceLabelled, Bounded!TypeOK,
        Bounded!Unlabelled
  <1>2. Bounded!LabelsAreAchievable
    BY
    DEF Bounded!Init, Bounded!NoLabels, Bounded!SourceLabelled,
        Bounded!LabelsAreAchievable, Bounded!Feasible,
           Bounded!GraphOK, Bounded!Unlabelled
  <1> QED
    BY <1>1, <1>2 DEF LabelInv

LEMMA LabelInvNext == ASSUME Bounded!GraphOK PROVE LabelInv /\ [Bounded!Next]_LabelOf => LabelInv'
  <1> SUFFICES ASSUME LabelInv, [Bounded!Next]_LabelOf PROVE LabelInv'
    OBVIOUS
  <1>1. CASE UNCHANGED LabelOf
    BY <1>1 DEF LabelInv, Bounded!TypeOK, Bounded!LabelsAreAchievable
  <1>2. ASSUME NEW e \in TaskEdges, Bounded!Relax(e) PROVE LabelInv'
    <2>1. e[1] \in State /\ e[2] \in State /\ e[3] \in Nat
      BY DEF Bounded!GraphOK
    <2>2. LabelOf[e[1]] \in Nat
      BY <1>2, <2>1 DEF LabelInv, Bounded!TypeOK, Bounded!Relax
    <2>3. LabelOf' = [LabelOf EXCEPT ![e[2]] = LabelOf[e[1]] + e[3]]
      BY <1>2 DEF Bounded!Relax
    <2>4. Bounded!TypeOK'
      BY <2>1, <2>2, <2>3 DEF LabelInv, Bounded!TypeOK
    <2>5. Bounded!LabelsAreAchievable'
      <3> SUFFICES ASSUME Bounded!Feasible, NEW n \in State, LabelOf'[n] # Bounded!Unlabelled
                   PROVE  Potential[n] <= LabelOf'[n]
        BY DEF Bounded!LabelsAreAchievable, Bounded!Feasible, Bounded!Unlabelled
      <3>1. CASE n = e[2]
        <4>1. Potential[e[1]] <= LabelOf[e[1]]
          BY <2>1, <2>2
          DEF LabelInv, Bounded!LabelsAreAchievable, Bounded!Unlabelled
        <4>2. Potential[e[2]] <= Potential[e[1]] + e[3]
          BY DEF Bounded!Feasible
        <4>3. Potential[e[1]] \in Int /\ Potential[e[2]] \in Int
          BY <2>1 DEF Bounded!GraphOK
        <4>4. LabelOf'[n] = LabelOf[e[1]] + e[3]
          BY <2>1, <2>3, <3>1 DEF LabelInv, Bounded!TypeOK
        <4> QED
          BY <2>1, <2>2, <3>1, <4>1, <4>2, <4>3, <4>4
      <3>2. CASE n # e[2]
        BY <2>3, <3>2 DEF LabelInv, Bounded!TypeOK, Bounded!LabelsAreAchievable
      <3> QED
        BY <3>1, <3>2
    <2> QED
      BY <2>4, <2>5 DEF LabelInv
  <1>3. CASE Bounded!LabelSource
    <2>1. LabelOf' = Bounded!SourceLabelled
      BY <1>3 DEF Bounded!LabelSource
    <2>2. Bounded!TypeOK'
      BY <2>1 DEF Bounded!SourceLabelled, Bounded!TypeOK, Bounded!Unlabelled
    <2>3. Bounded!LabelsAreAchievable'
      BY <2>1
      DEF Bounded!SourceLabelled, Bounded!LabelsAreAchievable,
          Bounded!Feasible, Bounded!GraphOK, Bounded!Unlabelled
    <2> QED
      BY <2>2, <2>3 DEF LabelInv
  <1> QED
    BY <1>1, <1>2, <1>3 DEF Bounded!Next

\* No g value is smaller than a feasible lower bound on the distance from the
\* initial state, so none promises a path that does not exist.
THEOREM LabelsAchievable ==
    ASSUME Potential \in [State -> Int]
    PROVE  Spec => []Bounded!LabelsAreAchievable
  <1>1. Bounded!GraphOK
    BY TaskAssumption, AdjustedCostNat DEF TaskEdges, Bounded!GraphOK
  <1>2. Labels!Init => Bounded!Init
    BY DEF Labels!Init, Labels!NoLabels, Labels!SourceLabelled, Labels!Unlabelled,
           Bounded!Init, Bounded!NoLabels, Bounded!SourceLabelled, Bounded!Unlabelled
  <1>3. [Labels!Next]_LabelOf => [Bounded!Next]_LabelOf
    BY DEF Labels!Next, Labels!LabelSource, Labels!Relax, Labels!NoLabels,
           Labels!SourceLabelled, Labels!Unlabelled,
           Bounded!Next, Bounded!LabelSource, Bounded!Relax, Bounded!NoLabels,
           Bounded!SourceLabelled, Bounded!Unlabelled
  <1>4. LabelInv => Bounded!LabelsAreAchievable
    BY DEF LabelInv
  <1>5. Spec => Bounded!Init /\ [][Bounded!Next]_LabelOf
    BY <1>2, <1>3, Refinement, PTL DEF ImplementsLabelCorrecting, Labels!Spec
  <1> QED
    BY <1>1, <1>4, <1>5, LabelInvInit, LabelInvNext, PTL

-----------------------------------------------------------------------------
\* No step makes a node worse: reached nodes keep or lower their g, dead ends
\* stay dead ends, and a closed node is opened again only with a smaller g.
THEOREM OnlyImprovements == Spec => NodesOnlyImprove
  <1> DEFINE Improvement ==
        \A s \in State :
          /\ s \in Reached => s \in Reached' /\ g'[s] <= g[s]
          /\ status[s] = "DEAD_END" => status'[s] = "DEAD_END"
          /\ status[s] = "CLOSED" /\ status'[s] # "CLOSED" => g'[s] < g[s]
  <1>1. ASSUME SearchInv, [Next]_vars PROVE [Improvement]_node_vars
    <2>0. TypeOK /\ NodesOK
      BY <1>1 DEF SearchInv
    <2>1. ASSUME UNCHANGED <<status, g>> PROVE Improvement
      BY <2>0, <2>1 DEF TypeOK, Reached
    <2>2. ASSUME NEW e \in open, FetchGoal(e) \/ FetchNode(e) PROVE Improvement
      <3>1. /\ Reached' = Reached /\ status[e.state] = "OPEN" /\ e.state \in State
            /\ status'[e.state] = "CLOSED"
            /\ \A s \in State \ {e.state} : status'[s] = status[s]
        BY <1>1, <2>2, CloseFacts DEF FetchGoal, FetchNode
      <3>2. g' = g
        BY <2>2 DEF FetchGoal, FetchNode
      <3> QED
        BY <2>0, <3>1, <3>2 DEF TypeOK
    <2>3. ASSUME NEW o \in todo, NewDeadEnd(o) PROVE Improvement
      <3> DEFINE t == Result[current][o]
      <3>1. /\ t \in State /\ status[t] = "NEW" /\ status'[t] = "DEAD_END"
            /\ \A s \in State \ {t} : status'[s] = status[s]
            /\ Reached' = Reached
        BY <1>1, <2>3, DeadEndFacts
      <3>2. g' = g
        BY <2>3 DEF NewDeadEnd
      <3> QED
        BY <2>0, <3>1, <3>2 DEF TypeOK
    <2>4. ASSUME NEW o \in todo, NEW t, Improves(o, t) PROVE Improvement
      <3>1. /\ t \in State /\ Reached' = Reached \cup {t}
            /\ \A s \in State \ {t} : status'[s] = status[s] /\ g'[s] = g[s]
            /\ t \notin Reached => status[t] = "NEW"
            /\ t \in Reached => g'[t] < g[t]
        BY <1>1, <2>4, ImprovesFacts
      <3>2. \A s \in Reached : g[s] \in Nat
        BY <2>0 DEF NodesOK
      <3>3. g'[t] \in Int
        BY <1>1, TypeNext, <3>1 DEF TypeOK
      <3> SUFFICES ASSUME NEW s \in State
                   PROVE  /\ s \in Reached => s \in Reached' /\ g'[s] <= g[s]
                          /\ status[s] = "DEAD_END" => status'[s] = "DEAD_END"
                          /\ status[s] = "CLOSED" /\ status'[s] # "CLOSED"
                             => g'[s] < g[s]
        OBVIOUS
      <3>4. CASE s # t
        BY <3>1, <3>2, <3>4
      <3>5. CASE s = t
        BY <3>1, <3>2, <3>3, <3>5 DEF Reached
      <3> QED
        BY <3>4, <3>5
    <2> QED
      BY <1>1, <2>1, <2>2, <2>3, <2>4, StepCases
      DEF vars, node_vars, OpenListEmpty, SkipClosed, ExpansionDone, Nothing,
          Generating, TraceParent, TraceStep, TraceDone, TraceEnd, search_vars
  <1> QED
    BY <1>1, SearchInvariant, PTL DEF Spec, NodesOnlyImprove
=============================================================================
