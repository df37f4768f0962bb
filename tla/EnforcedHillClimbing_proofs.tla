-------------------- MODULE EnforcedHillClimbing_proofs --------------------
(***************************************************************************)
(* Proofs about EnforcedHillClimbing for every task, heuristic and option. *)
(* A node gets its parent once, so the costs stored in the nodes are those *)
(* of the path traced back, and the bound holds with every cost type.      *)
(***************************************************************************)
EXTENDS EnforcedHillClimbing, TLAPS, SequenceTheorems

LEMMA AdjustedCostNat == \A o \in Op : AdjustedCost(o) \in Nat
  BY TaskAssumption DEF AdjustedCost

LEMMA InitInv == Init => EHCInv
<1>. SUFFICES ASSUME Init PROVE EHCInv
  OBVIOUS
<1>1. Reached = {}
  BY DEF Init, Reached
<1>2. TypeOK
  BY TaskAssumption, EmptySeq
  DEF Init, TypeOK, Status, Phase
<1>3. NodesOK /\ ParentsAreEdges /\ RealCostsAreExact
  BY <1>1 DEF NodesOK, ParentsAreEdges, RealCostsAreExact
<1>4. OpenOK /\ PhaseOK /\ OnlyCurrentIsOpen /\ TraceOK
  BY <1>1 DEF Init, OpenOK, PhaseOK, OnlyCurrentIsOpen, TraceOK
<1>. QED
  BY <1>2, <1>3, <1>4 DEF EHCInv

\* What a step that does not touch the nodes has to preserve.
LEMMA SameNodes ==
    ASSUME EHCInv, UNCHANGED <<h, node_vars>>
    PROVE  NodesOK' /\ ParentsAreEdges' /\ RealCostsAreExact' /\ Reached' = Reached
<1>1. Reached' = Reached
  BY DEF node_vars, Reached
<1>. QED
  BY <1>1 DEF EHCInv, node_vars, NodesOK, ParentsAreEdges, RealCostsAreExact

LEMMA QuietInv ==
    ASSUME EHCInv,
           ExitDeadEnd \/ StepGoal \/ OpenListEmpty \/ TraceEnd \/ UNCHANGED vars
    PROVE  EHCInv'
<1>1. UNCHANGED <<h, node_vars, current, path, path_cost, ehc_vars>>
  BY DEF ExitDeadEnd, StepGoal, OpenListEmpty, TraceEnd, TraceDone, vars
<1>2. /\ NodesOK' /\ ParentsAreEdges' /\ RealCostsAreExact'
      /\ Reached' = Reached
  BY <1>1, SameNodes
<1>3. TypeOK'
  BY <1>1
  DEF EHCInv, TypeOK, node_vars, ehc_vars, ExitDeadEnd, StepGoal,
      OpenListEmpty, TraceEnd, TraceDone, vars, Phase
<1>4. OpenOK'
  BY <1>1, <1>2 DEF EHCInv, OpenOK, ehc_vars
<1>5. PhaseOK'
  BY <1>1, <1>2
  DEF EHCInv, PhaseOK, node_vars, ExitDeadEnd, StepGoal, OpenListEmpty, TraceEnd,
      TraceDone, vars
<1>6. OnlyCurrentIsOpen'
  BY <1>1
  DEF EHCInv, OnlyCurrentIsOpen, node_vars, ExitDeadEnd, StepGoal,
      OpenListEmpty, TraceEnd, TraceDone, vars
<1>7. TraceOK'
  <2>1. CASE StepGoal
    <3>1. current \in Reached /\ path_cost = 0
      BY <2>1 DEF EHCInv, PhaseOK, StepGoal
    <3>2. 0 < Bound => real_g[current] < Bound /\ real_g[current] \in Nat
      BY <3>1 DEF EHCInv, NodesOK
    <3>. QED
      BY <1>1, <3>1, <3>2 DEF TraceOK, node_vars
  <2>2. CASE ExitDeadEnd \/ OpenListEmpty \/ TraceEnd \/ UNCHANGED vars
    BY <1>1, <2>2
    DEF EHCInv, TraceOK, node_vars, ExitDeadEnd, OpenListEmpty, TraceEnd,
        TraceDone, vars
  <2>. QED
    BY <2>1, <2>2
<1>. QED
  BY <1>2, <1>3, <1>4, <1>5, <1>6, <1>7 DEF EHCInv

LEMMA TraceInv == ASSUME EHCInv, TraceStep PROVE EHCInv'
<1>1. /\ phase = "trace" /\ phase' = phase
      /\ creating_op[current] # NoOp
      /\ path' = <<creating_op[current]>> \o path
      /\ path_cost' = path_cost + Cost[creating_op[current]]
      /\ current' = parent[current]
      /\ UNCHANGED <<h, node_vars, ehc_vars>>
  BY DEF TraceStep, TraceParent
<1>2. current \in Reached /\ current \in State
  BY <1>1 DEF EHCInv, PhaseOK, Reached
<1>3. /\ parent[current] \in Reached /\ parent[current] \in State
      /\ creating_op[current] \in Op
      /\ real_g[current] = real_g[parent[current]] + Cost[creating_op[current]]
  BY <1>1, <1>2, TaskAssumption
  DEF EHCInv, ParentsAreEdges, RealCostsAreExact, Reached
<1>4. /\ NodesOK' /\ ParentsAreEdges' /\ RealCostsAreExact'
      /\ Reached' = Reached
  BY <1>1, SameNodes
<1>5. Cost[creating_op[current]] \in Nat /\ path_cost \in Nat
  BY <1>3, TaskAssumption DEF EHCInv, TypeOK
<1>6. TypeOK'
  <2>1. path' \in Seq(Op)
    <3>1. <<creating_op[current]>> \in Seq(Op)
      BY <1>3
    <3>. QED
      BY <1>1, <3>1, ConcatProperties DEF EHCInv, TypeOK
  <2>2. path_cost' \in Nat
    BY <1>1, <1>5
  <2>. QED
    BY <1>1, <1>3, <2>1, <2>2 DEF EHCInv, TypeOK, node_vars, ehc_vars
<1>7. OpenOK' /\ PhaseOK' /\ OnlyCurrentIsOpen'
  BY <1>1, <1>3, <1>4
  DEF EHCInv, OpenOK, PhaseOK, OnlyCurrentIsOpen, ehc_vars
<1>8. TraceOK'
  <2>1. real_g[parent[current]] \in Nat
    BY <1>3 DEF EHCInv, NodesOK
  <2>2. 0 < Bound => path_cost + real_g[current] < Bound
    BY <1>1 DEF EHCInv, TraceOK
  <2>3. real_g' = real_g
    BY <1>1 DEF node_vars
  <2>. QED
    BY <1>1, <1>3, <1>5, <2>1, <2>2, <2>3, TaskAssumption DEF TraceOK
<1>. QED
  BY <1>4, <1>6, <1>7, <1>8 DEF EHCInv

LEMMA OpenInitialInv == ASSUME EHCInv, OpenInitial PROVE EHCInv'
<1>1. /\ phase = "initialize" /\ phase' = "step"
      /\ status' = [status EXCEPT ![InitialState] = "OPEN"]
      /\ g' = [g EXCEPT ![InitialState] = 0]
      /\ real_g' = [real_g EXCEPT ![InitialState] = 0]
      /\ UNCHANGED <<h, parent, creating_op, current, path, path_cost, ehc_vars>>
  BY DEF OpenInitial
<1>2. current = InitialState /\ Reached = {} /\ InitialState \in State
  BY <1>1, TaskAssumption DEF EHCInv, PhaseOK
<1>3. Reached' = {InitialState}
  BY <1>1, <1>2 DEF EHCInv, TypeOK, Reached
<1>4. TypeOK'
  BY <1>1, <1>2 DEF EHCInv, TypeOK, ehc_vars, Phase, Status
<1>5. g'[InitialState] = 0 /\ real_g'[InitialState] = 0
  BY <1>1, <1>2 DEF EHCInv, TypeOK
<1>6. /\ creating_op'[InitialState] = NoOp
      /\ \A s \in State : status'[s] = "OPEN" <=> s = InitialState
  BY <1>1, <1>2 DEF EHCInv, PhaseOK, TypeOK
<1>7. NodesOK' /\ ParentsAreEdges' /\ RealCostsAreExact'
  BY <1>3, <1>5, <1>6, TaskAssumption
  DEF NodesOK, ParentsAreEdges, RealCostsAreExact
<1>8. OpenOK'
  BY <1>1, <1>2 DEF EHCInv, OpenOK, ehc_vars
<1>9. PhaseOK' /\ OnlyCurrentIsOpen' /\ TraceOK'
  BY <1>1, <1>2, <1>3, <1>6
  DEF EHCInv, PhaseOK, OnlyCurrentIsOpen, TraceOK
<1>. QED
  BY <1>4, <1>7, <1>8, <1>9 DEF EHCInv

-----------------------------------------------------------------------------
\* The edges queued by expand() start in the node and are ordered by numbers.
LEMMA EdgesFacts ==
    ASSUME NEW s \in State, NEW s_g \in Nat, NEW ops \in QueuedOps(s)
    PROVE  /\ Edges(s, s_g, ops) \subseteq Entry
           /\ \A d \in Edges(s, s_g, ops) : d.state = s /\ d.op \in Applicable[s]
<1>1. ops \subseteq Applicable[s] /\ Applicable[s] \subseteq Op
  BY TaskAssumption DEF QueuedOps
<1>2. \A o \in ops : s_g + AdjustedCost(o) \in Nat
  BY <1>1, AdjustedCostNat
<1>. QED
  BY <1>1, <1>2 DEF Edges, Entry

LEMMA StepExpandInv == ASSUME EHCInv, StepExpand PROVE EHCInv'
<1>1. /\ phase = "step" /\ phase' = "ehc"
      /\ status' = [status EXCEPT ![current] = "CLOSED"]
      /\ UNCHANGED <<h, g, real_g, parent, creating_op, current, path,
                     path_cost, prune_by_preferred>>
  BY DEF StepExpand, Expand, Close
<1>2. PICK ops \in QueuedOps(current) :
         open' = open \cup Edges(current, g[current], ops)
  BY DEF StepExpand, Expand
<1>3. current \in Reached /\ current \in State /\ g[current] \in Nat
  BY <1>1 DEF EHCInv, PhaseOK, NodesOK, Reached
<1>4. Reached' = Reached
  BY <1>1, <1>3 DEF EHCInv, TypeOK, Reached
<1>5. /\ Edges(current, g[current], ops) \subseteq Entry
      /\ \A d \in Edges(current, g[current], ops) :
            d.state = current /\ d.op \in Applicable[current]
  BY <1>3, EdgesFacts
<1>6. TypeOK'
  BY <1>1, <1>2, <1>3, <1>5 DEF EHCInv, TypeOK, Phase, Status
<1>7. NodesOK' /\ ParentsAreEdges' /\ RealCostsAreExact'
  BY <1>1, <1>4 DEF EHCInv, NodesOK, ParentsAreEdges, RealCostsAreExact
<1>8. OpenOK'
  BY <1>2, <1>3, <1>4, <1>5 DEF EHCInv, OpenOK
<1>9. OnlyCurrentIsOpen'
  BY <1>1, <1>3 DEF EHCInv, OnlyCurrentIsOpen, TypeOK
<1>10. PhaseOK' /\ TraceOK'
  BY <1>1, <1>3, <1>4 DEF EHCInv, PhaseOK, TraceOK
<1>. QED
  BY <1>6, <1>7, <1>8, <1>9, <1>10 DEF EHCInv

LEMMA DeadEndInv ==
    ASSUME EHCInv, NEW e \in open, DropEdge(e) \/ DeadEnd(e)
    PROVE  EHCInv'
<1>1. /\ phase = "ehc" /\ open' = open \ {e}
      /\ UNCHANGED <<h, g, real_g, parent, creating_op, phase, current, path,
                     path_cost, prune_by_preferred>>
  BY DEF DropEdge, DeadEnd, Fetch, node_vars
<1>2. Result[e.state][e.op] \in State
  BY TaskAssumption DEF EHCInv, TypeOK, Entry
<1>3. \/ status' = status
      \/ /\ status[Result[e.state][e.op]] = "NEW"
         /\ status' = [status EXCEPT ![Result[e.state][e.op]] = "DEAD_END"]
  BY DEF DropEdge, DeadEnd, IsNew, node_vars
<1>4. Reached' = Reached
  BY <1>2, <1>3 DEF EHCInv, TypeOK, Reached
<1>5. TypeOK'
  BY <1>1, <1>2, <1>3 DEF EHCInv, TypeOK, Status
<1>6. NodesOK' /\ ParentsAreEdges' /\ RealCostsAreExact'
  BY <1>1, <1>4 DEF EHCInv, NodesOK, ParentsAreEdges, RealCostsAreExact
<1>7. OpenOK'
  BY <1>1, <1>4 DEF EHCInv, OpenOK
<1>8. OnlyCurrentIsOpen'
  BY <1>1, <1>2, <1>3 DEF EHCInv, OnlyCurrentIsOpen, TypeOK
<1>9. PhaseOK' /\ TraceOK'
  BY <1>1, <1>4 DEF EHCInv, PhaseOK, TraceOK
<1>. QED
  BY <1>5, <1>6, <1>7, <1>8, <1>9 DEF EHCInv

\* A new node is given its place below the node the edge starts in.
LEMMA OpenNodeInv ==
    ASSUME EHCInv, NEW e \in open, ExpandNode(e) \/ NextPhase(e)
    PROVE  EHCInv'
<1>. DEFINE t == Result[e.state][e.op]
<1>1. /\ e.state \in Reached /\ e.state \in State
      /\ e.op \in Op /\ e.op \in Applicable[e.state]
      /\ t \in State
  BY TaskAssumption DEF EHCInv, OpenOK, TypeOK, Entry, Reached
<1>2. /\ phase = "ehc" /\ status[t] = "NEW" /\ h[t] # Infty
      /\ real_g[e.state] + Cost[e.op] < Bound
      /\ SetParent(e.state, t, e.op)
      /\ UNCHANGED <<h, path, path_cost>>
  BY DEF ExpandNode, NextPhase, OpenNode, Fetch, WithinBound, IsNew
<1>3. /\ g' = [g EXCEPT ![t] = g[e.state] + AdjustedCost(e.op)]
      /\ real_g' = [real_g EXCEPT ![t] = real_g[e.state] + Cost[e.op]]
      /\ parent' = [parent EXCEPT ![t] = e.state]
      /\ creating_op' = [creating_op EXCEPT ![t] = e.op]
  BY <1>2 DEF SetParent
<1>4. /\ g[e.state] \in Nat /\ real_g[e.state] \in Nat
      /\ AdjustedCost(e.op) \in Nat /\ Cost[e.op] \in Nat
  BY <1>1, TaskAssumption, AdjustedCostNat DEF EHCInv, NodesOK
<1>5. g[e.state] + AdjustedCost(e.op) \in Nat
  BY <1>4
<1>6. real_g[e.state] + Cost[e.op] \in Nat
  BY <1>4
<1>7. \/ ExpandNode(e) /\ status' = [status EXCEPT ![t] = "CLOSED"]
      \/ NextPhase(e) /\ status' = [status EXCEPT ![t] = "OPEN"]
  BY DEF ExpandNode, NextPhase, Expand, Close
<1>8. Reached' = Reached \cup {t}
  <2>1. \A s \in State : s # t => status'[s] = status[s]
    BY <1>7 DEF EHCInv, TypeOK
  <2>2. status'[t] \in {"OPEN", "CLOSED"}
    BY <1>1, <1>7 DEF EHCInv, TypeOK
  <2> HIDE DEF t
  <2> QED
    BY <1>1, <2>1, <2>2 DEF Reached
<1>9. t \notin Reached
  BY <1>2 DEF Reached
<1>10. /\ open' \subseteq Entry
       /\ \A d \in open' :
             \/ d \in open
             \/ d.state = t /\ d.op \in Applicable[t]
  <2>1. CASE ExpandNode(e)
    <3>1. PICK ops \in QueuedOps(t) :
             open' = (open \ {e}) \cup Edges(t, g[e.state] + AdjustedCost(e.op), ops)
      BY <2>1 DEF ExpandNode, Expand
    <3>2. /\ Edges(t, g[e.state] + AdjustedCost(e.op), ops) \subseteq Entry
          /\ \A d \in Edges(t, g[e.state] + AdjustedCost(e.op), ops) :
                d.state = t /\ d.op \in Applicable[t]
      BY <1>1, <1>5, EdgesFacts
    <3>. QED
      <4>. DEFINE new == Edges(t, g[e.state] + AdjustedCost(e.op), ops)
      <4>1. open \subseteq Entry
        BY DEF EHCInv, TypeOK
      <4>. HIDE DEF new
      <4>. QED
        BY <3>1, <3>2, <4>1 DEF new
  <2>2. CASE NextPhase(e)
    BY <2>2 DEF NextPhase
  <2>. QED
    BY <1>7, <2>1, <2>2
<1>11. /\ \/ ExpandNode(e) /\ phase' = phase /\ current' = current
          \/ NextPhase(e) /\ phase' = "step" /\ current' = t
       /\ prune_by_preferred' = prune_by_preferred
  BY DEF ExpandNode, NextPhase
<1>12. TypeOK'
  <2>1. prune_by_preferred' \in BOOLEAN
    BY <1>11 DEF EHCInv, TypeOK
  <2>2. /\ g' \in [State -> Int] /\ real_g' \in [State -> Int]
        /\ parent' \in [State -> State \cup {NoState}]
        /\ creating_op' \in [State -> Op \cup {NoOp}]
    BY <1>1, <1>3, <1>5, <1>6 DEF EHCInv, TypeOK
  <2>3. status' \in [State -> Status]
    BY <1>1, <1>7 DEF EHCInv, TypeOK, Status
  <2>4. phase' \in Phase /\ current' \in State \cup {NoState}
    BY <1>1, <1>11 DEF EHCInv, TypeOK, Phase
  <2>. QED
    BY <1>2, <1>10, <2>1, <2>2, <2>3, <2>4 DEF EHCInv, TypeOK
<1>13. /\ \A s \in Reached : /\ g'[s] = g[s] /\ real_g'[s] = real_g[s]
                             /\ parent'[s] = parent[s]
                             /\ creating_op'[s] = creating_op[s]
       /\ g'[t] = g[e.state] + AdjustedCost(e.op)
       /\ real_g'[t] = real_g[e.state] + Cost[e.op]
       /\ parent'[t] = e.state /\ creating_op'[t] = e.op
  BY <1>1, <1>3, <1>9 DEF EHCInv, TypeOK, Reached
<1>14. NodesOK'
  BY <1>2, <1>5, <1>6, <1>8, <1>13 DEF EHCInv, NodesOK
<1>15. OpenOK'
  BY <1>8, <1>10 DEF EHCInv, OpenOK
<1>16. PhaseOK'
  BY <1>2, <1>8, <1>11 DEF EHCInv, PhaseOK
<1>17. OnlyCurrentIsOpen'
  <2>1. CASE ExpandNode(e)
    <3>1. phase' = "ehc" /\ status' = [status EXCEPT ![t] = "CLOSED"]
      BY <1>2, <2>1 DEF ExpandNode, Expand, Close
    <3>. QED
      BY <1>1, <1>2, <3>1 DEF EHCInv, OnlyCurrentIsOpen, TypeOK
  <2>2. CASE NextPhase(e)
    <3>1. /\ phase' = "step" /\ current' = t
          /\ status' = [status EXCEPT ![t] = "OPEN"]
      BY <2>2 DEF NextPhase
    <3>. QED
      BY <1>1, <1>2, <3>1 DEF EHCInv, OnlyCurrentIsOpen, TypeOK
  <2>. QED
    BY <1>7, <2>1, <2>2
<1>18. ParentsAreEdges'
  <2>1. SUFFICES ASSUME NEW s \in Reached'
                 PROVE  IF creating_op'[s] = NoOp
                        THEN s = InitialState /\ g'[s] = 0
                        ELSE /\ parent'[s] \in Reached'
                             /\ creating_op'[s] \in Applicable[parent'[s]]
                             /\ Result[parent'[s]][creating_op'[s]] = s
                             /\ g'[parent'[s]] + AdjustedCost(creating_op'[s]) <= g'[s]
    BY DEF ParentsAreEdges, AdjustedCost
  <2>2. CASE s = t
    <3>1. e.op # NoOp /\ g'[e.state] = g[e.state]
      BY <1>1, <1>13, EngineAssumption
    <3>. QED
      BY <1>1, <1>4, <1>8, <1>13, <2>2, <3>1
  <2>3. CASE s \in Reached
    <3>1. IF creating_op[s] = NoOp
          THEN s = InitialState /\ g[s] = 0
          ELSE /\ parent[s] \in Reached
               /\ creating_op[s] \in Applicable[parent[s]]
               /\ Result[parent[s]][creating_op[s]] = s
               /\ g[parent[s]] + AdjustedCost(creating_op[s]) <= g[s]
      BY <2>3 DEF EHCInv, ParentsAreEdges
    <3>. QED
      BY <1>8, <1>13, <2>3, <3>1
  <2>. QED
    BY <1>8, <2>1, <2>2, <2>3
<1>19. RealCostsAreExact'
  <2>1. SUFFICES ASSUME NEW s \in Reached'
                 PROVE  real_g'[s] = IF creating_op'[s] = NoOp THEN 0
                                     ELSE real_g'[parent'[s]] + Cost[creating_op'[s]]
    BY DEF RealCostsAreExact
  <2>2. CASE s = t
    <3>1. e.op # NoOp /\ real_g'[e.state] = real_g[e.state]
      BY <1>1, <1>13, EngineAssumption
    <3>. QED
      BY <1>13, <2>2, <3>1
  <2>3. CASE s \in Reached
    <3>1. creating_op[s] # NoOp => parent[s] \in Reached
      BY <2>3 DEF EHCInv, ParentsAreEdges
    <3>. QED
      BY <1>13, <2>3, <3>1 DEF EHCInv, RealCostsAreExact
  <2>. QED
    BY <1>8, <2>1, <2>2, <2>3
<1>20. TraceOK'
  BY <1>2, <1>11 DEF TraceOK
<1>. QED
  BY <1>12, <1>14, <1>15, <1>16, <1>17, <1>18, <1>19, <1>20 DEF EHCInv

LEMMA NextInv == EHCInv /\ [Next]_vars => EHCInv'
BY QuietInv, TraceInv, OpenInitialInv, StepExpandInv, DeadEndInv, OpenNodeInv
DEF Next, Finished

\* The inductive invariant of enforced hill-climbing.
THEOREM EHCInvariant == Spec => []EHCInv
<1>. QED
  BY InitInv, NextInv, PTL DEF Spec

-----------------------------------------------------------------------------
\* The variables have their types.
THEOREM TypeCorrect == Spec => []TypeOK
<1>1. EHCInv => TypeOK
  BY DEF EHCInv
<1>. QED
  BY <1>1, EHCInvariant, PTL

\* The assertion of SearchNode::close never fails in enforced hill-climbing.
THEOREM ClosesOpenNodes == Spec => []OnlyCurrentIsOpen
<1>1. EHCInv => OnlyCurrentIsOpen
  BY DEF EHCInv
<1>. QED
  BY <1>1, EHCInvariant, PTL

\* The costs stored in the nodes are those of the path traced back.
THEOREM CostsAreExact == Spec => []RealCostsAreExact
<1>1. EHCInv => RealCostsAreExact
  BY DEF EHCInv
<1>. QED
  BY <1>1, EHCInvariant, PTL

\* The plan costs less than the bound, with every cost type: what best-first
\* search with reopening does not achieve (see BoundRespected there).
THEOREM BoundRespected == ASSUME 0 < Bound PROVE Spec => []PlanWithinBound
<1>1. ASSUME EHCInv, phase = "solved" PROVE path_cost < Bound
  <2>1. current \in Reached
    BY <1>1 DEF EHCInv, PhaseOK
  <2>2. real_g[current] \in Nat /\ path_cost \in Nat
    BY <1>1, <2>1 DEF EHCInv, NodesOK, TypeOK
  <2>3. path_cost + real_g[current] < Bound
    BY <1>1 DEF EHCInv, TraceOK
  <2>. QED
    BY <2>2, <2>3, TaskAssumption
<1>2. EHCInv => PlanWithinBound
  BY <1>1 DEF PlanWithinBound
<1>. QED
  BY <1>2, EHCInvariant, PTL

-----------------------------------------------------------------------------
(***************************************************************************)
(* Failure.  The nodes of a phase are those below its current state: a set *)
(* that contains with a node all those it is the parent of.                *)
(***************************************************************************)

\* An edge of the phase is yet to be queued, in the open list, beyond the
\* bound, or has been followed.
EdgeIsKept(s, o) ==
    \/ phase = "step" /\ s = current
    \/ \E e \in open : e.state = s /\ e.op = o
    \/ Bound <= real_g[s] + Cost[o]
    \/ status[Result[s][o]] # "NEW"

\* The nodes of K include those of the phase, and none is better than the
\* state the phase started from.
IsPhase(K) ==
    /\ K \subseteq Reached
    /\ current \in K
    /\ \A x \in Reached : parent[x] \in K => x \in K
    /\ \A s \in K : /\ h[current] <= h[s]
                    /\ \A o \in Applicable[s] : EdgeIsKept(s, o)

PhaseIsExplored ==
    phase \in {"step", "ehc", "failed"} /\ ~prune_by_preferred => \E K : IsPhase(K)

RootsHaveNoParent == \A s \in State : creating_op[s] = NoOp => parent[s] = NoState

FailureInv ==
    /\ PhaseIsExplored
    /\ RootsHaveNoParent
    /\ phase = "failed" => open = {}

\* No node has a parent that is not reached itself.
LEMMA ParentsAreReached ==
    ASSUME EHCInv, RootsHaveNoParent, NEW x \in Reached, NEW t \in State, t \notin Reached
    PROVE  parent[x] # t
<1>1. x \in State
  BY DEF Reached
<1>2. CASE creating_op[x] = NoOp
  BY <1>1, <1>2, EngineAssumption DEF RootsHaveNoParent
<1>3. CASE creating_op[x] # NoOp
  BY <1>3 DEF EHCInv, ParentsAreEdges
<1>. QED
  BY <1>2, <1>3

LEMMA FailureOpenInitial ==
    ASSUME EHCInv, FailureInv, OpenInitial PROVE FailureInv'
<1>1. /\ phase' = "step" /\ current = InitialState /\ InitialState \in State
      /\ status' = [status EXCEPT ![InitialState] = "OPEN"]
      /\ UNCHANGED <<h, parent, creating_op, current>>
      /\ Reached = {} /\ creating_op[InitialState] = NoOp
  BY TaskAssumption DEF OpenInitial, EHCInv, PhaseOK
<1>2. Reached' = {InitialState}
  BY <1>1 DEF EHCInv, TypeOK, Reached
<1>3. RootsHaveNoParent'
  BY <1>1 DEF FailureInv, RootsHaveNoParent
<1>4. h[InitialState] <= h[InitialState]
  <2>1. h[InitialState] \in Nat \cup {Infty} /\ Infty = -1
    BY <1>1, EngineAssumption DEF EHCInv, TypeOK, Infty
  <2>2. h[InitialState] \in Int
    BY <2>1
  <2>. QED
    BY <2>2
<1>5. IsPhase({InitialState})'
  BY <1>1, <1>2, <1>4 DEF IsPhase, EdgeIsKept
<1>. QED
  BY <1>1, <1>3, <1>5 DEF FailureInv, PhaseIsExplored

LEMMA FailureStepExpand ==
    ASSUME EHCInv, FailureInv, StepExpand PROVE FailureInv'
<1>1. /\ phase = "step" /\ phase' = "ehc"
      /\ status' = [status EXCEPT ![current] = "CLOSED"]
      /\ UNCHANGED <<h, g, real_g, parent, creating_op, current, prune_by_preferred>>
  BY DEF StepExpand, Expand, Close
<1>2. PICK ops \in QueuedOps(current) :
         open' = open \cup Edges(current, g[current], ops)
  BY DEF StepExpand, Expand
<1>3. current \in Reached /\ current \in State
  BY <1>1 DEF EHCInv, PhaseOK, Reached
<1>4. /\ Reached' = Reached
      /\ \A s \in State : status[s] # "NEW" => status'[s] # "NEW"
  BY <1>1, <1>3 DEF EHCInv, TypeOK, Reached
<1>5. PhaseIsExplored'
  <2>1. SUFFICES ASSUME ~prune_by_preferred PROVE (\E K : IsPhase(K))'
    BY <1>1 DEF PhaseIsExplored
  <2>2. PICK K : IsPhase(K)
    BY <1>1, <2>1 DEF FailureInv, PhaseIsExplored
  <2>3. ops = Applicable[current]
    BY <2>1 DEF QueuedOps
  <2>4. ASSUME NEW s \in K, NEW o \in Applicable[s] PROVE EdgeIsKept(s, o)'
    <3>1. EdgeIsKept(s, o) /\ s \in State
      BY <2>2 DEF IsPhase, Reached
    <3>2. Result[s][o] \in State
      BY <3>1, TaskAssumption
    <3>3. CASE s = current
      <4>. DEFINE e == [state |-> current, op |-> o, g |-> g[current] + AdjustedCost(o)]
      <4>1. e \in open' /\ e.state = s /\ e.op = o
        BY <1>2, <2>3, <3>3 DEF Edges
      <4>. HIDE DEF e
      <4>. QED
        BY <4>1 DEF EdgeIsKept
    <3>4. CASE s # current
      BY <1>1, <1>2, <1>4, <3>1, <3>2, <3>4 DEF EdgeIsKept
    <3>. QED
      BY <3>3, <3>4
  <2>5. IsPhase(K)'
    BY <1>1, <1>4, <2>2, <2>4 DEF IsPhase
  <2>. QED
    BY <2>5
<1>6. RootsHaveNoParent'
  BY <1>1 DEF FailureInv, RootsHaveNoParent
<1>. QED
  BY <1>1, <1>5, <1>6 DEF FailureInv

LEMMA FailureDeadEnd ==
    ASSUME EHCInv, FailureInv, NEW e \in open, DropEdge(e) \/ DeadEnd(e)
    PROVE  FailureInv'
<1>1. /\ phase = "ehc" /\ open' = open \ {e}
      /\ UNCHANGED <<h, g, real_g, parent, creating_op, phase, current,
                     prune_by_preferred>>
  BY DEF DropEdge, DeadEnd, Fetch, node_vars
<1>2. /\ e.state \in Reached /\ e.state \in State /\ e.op \in Op
      /\ Result[e.state][e.op] \in State
  BY TaskAssumption DEF EHCInv, OpenOK, TypeOK, Entry, Reached
<1>3. \/ status' = status /\ (WithinBound(e) => status[Result[e.state][e.op]] # "NEW")
      \/ /\ status[Result[e.state][e.op]] = "NEW"
         /\ status' = [status EXCEPT ![Result[e.state][e.op]] = "DEAD_END"]
  BY DEF DropEdge, DeadEnd, IsNew, node_vars
<1>4. /\ Reached' = Reached
      /\ \A s \in State : status[s] # "NEW" => status'[s] # "NEW"
      /\ WithinBound(e) => status'[Result[e.state][e.op]] # "NEW"
  BY <1>2, <1>3 DEF EHCInv, TypeOK, Reached
<1>5. WithinBound(e) \/ Bound <= real_g[e.state] + Cost[e.op]
  <2>1. real_g[e.state] \in Nat /\ Cost[e.op] \in Nat
    BY <1>2, TaskAssumption DEF EHCInv, NodesOK
  <2>. QED
    BY <2>1, TaskAssumption DEF WithinBound
<1>6. PhaseIsExplored'
  <2>1. SUFFICES ASSUME ~prune_by_preferred PROVE (\E K : IsPhase(K))'
    BY <1>1 DEF PhaseIsExplored
  <2>2. PICK K : IsPhase(K)
    BY <1>1, <2>1 DEF FailureInv, PhaseIsExplored
  <2>3. ASSUME NEW s \in K, NEW o \in Applicable[s] PROVE EdgeIsKept(s, o)'
    <3>1. EdgeIsKept(s, o) /\ s \in State
      BY <2>2 DEF IsPhase, Reached
    <3>2. Result[s][o] \in State
      BY <3>1, TaskAssumption
    <3>3. CASE e.state = s /\ e.op = o
      BY <1>1, <1>4, <1>5, <3>3 DEF EdgeIsKept
    <3>4. CASE ~(e.state = s /\ e.op = o)
      BY <1>1, <1>4, <3>1, <3>2, <3>4 DEF EdgeIsKept
    <3>. QED
      BY <3>3, <3>4
  <2>4. IsPhase(K)'
    BY <1>1, <1>4, <2>2, <2>3 DEF IsPhase
  <2>. QED
    BY <2>4
<1>7. RootsHaveNoParent'
  BY <1>1 DEF FailureInv, RootsHaveNoParent
<1>. QED
  BY <1>1, <1>6, <1>7 DEF FailureInv

LEMMA FailureOpenNode ==
    ASSUME EHCInv, FailureInv, NEW e \in open, ExpandNode(e) \/ NextPhase(e)
    PROVE  FailureInv'
<1>. DEFINE t == Result[e.state][e.op]
<1>1. /\ e.state \in Reached /\ e.state \in State
      /\ e.op \in Op /\ e.op \in Applicable[e.state]
      /\ t \in State
  BY TaskAssumption DEF EHCInv, OpenOK, TypeOK, Entry, Reached
<1>2. /\ phase = "ehc" /\ status[t] = "NEW" /\ h[t] # Infty /\ t \notin Reached
      /\ real_g' = [real_g EXCEPT ![t] = real_g[e.state] + Cost[e.op]]
      /\ parent' = [parent EXCEPT ![t] = e.state]
      /\ creating_op' = [creating_op EXCEPT ![t] = e.op]
      /\ UNCHANGED <<h, prune_by_preferred>>
  BY DEF ExpandNode, NextPhase, OpenNode, Fetch, WithinBound, IsNew, SetParent, Reached
<1>3. \/ /\ ExpandNode(e) /\ status' = [status EXCEPT ![t] = "CLOSED"]
         /\ phase' = phase /\ current' = current /\ h[t] >= h[current]
      \/ /\ NextPhase(e) /\ status' = [status EXCEPT ![t] = "OPEN"]
         /\ phase' = "step" /\ current' = t
  BY DEF ExpandNode, NextPhase, Expand, Close
<1>4. /\ Reached' = Reached \cup {t}
      /\ \A s \in State : status[s] # "NEW" => status'[s] # "NEW"
      /\ status'[t] # "NEW"
  BY <1>1, <1>3 DEF EHCInv, TypeOK, Reached
<1>5. /\ \A x \in Reached : parent'[x] = parent[x] /\ real_g'[x] = real_g[x] /\ x # t
      /\ parent'[t] = e.state
  BY <1>1, <1>2 DEF EHCInv, TypeOK, Reached
<1>6. \A x \in Reached' : x # t => parent'[x] # t
  BY <1>1, <1>2, <1>4, <1>5, ParentsAreReached DEF FailureInv
<1>7. RootsHaveNoParent'
  BY <1>1, <1>2, EngineAssumption DEF FailureInv, RootsHaveNoParent, EHCInv, TypeOK
<1>8. \A s \in State : h[s] \in Int
  BY EngineAssumption DEF EHCInv, TypeOK, Infty
<1>. HIDE DEF t
<1>9. CASE NextPhase(e)
  <2>1. phase' = "step" /\ current' = t
    BY <1>9 DEF NextPhase, t
  <2>2. t # e.state
    BY <1>1, <1>2
  <2>3. IsPhase({t})'
    BY <1>1, <1>4, <1>5, <1>6, <1>8, <1>2, <2>1, <2>2 DEF IsPhase, EdgeIsKept
  <2>. QED
    BY <1>7, <2>1, <2>3 DEF FailureInv, PhaseIsExplored
<1>10. CASE ExpandNode(e)
  <2>1. /\ phase' = "ehc" /\ current' = current /\ h[t] >= h[current]
        /\ current \in State
    BY <1>2, <1>10 DEF ExpandNode, t, EHCInv, PhaseOK, Reached
  <2>2. PICK ops \in QueuedOps(t) :
           open' = (open \ {e}) \cup Edges(t, g[e.state] + AdjustedCost(e.op), ops)
    BY <1>10 DEF ExpandNode, Expand, t
  <2>3. PhaseIsExplored'
    <3>1. SUFFICES ASSUME ~prune_by_preferred PROVE (\E K : IsPhase(K))'
      BY <1>2 DEF PhaseIsExplored
    <3>2. PICK K : IsPhase(K)
      BY <1>2, <3>1 DEF FailureInv, PhaseIsExplored
    <3>3. ops = Applicable[t]
      BY <3>1 DEF QueuedOps
    <3>4. ASSUME NEW s \in K \cup {t}, NEW o \in Applicable[s] PROVE EdgeIsKept(s, o)'
      <4>1. CASE s = t
        <5>. DEFINE d == [state |-> t, op |-> o,
                          g |-> g[e.state] + AdjustedCost(e.op) + AdjustedCost(o)]
        <5>1. d \in open' /\ d.state = s /\ d.op = o
          BY <2>2, <3>3, <4>1 DEF Edges
        <5>. HIDE DEF d
        <5>. QED
          BY <5>1 DEF EdgeIsKept
      <4>2. CASE s # t
        <5>1. EdgeIsKept(s, o) /\ s \in State /\ s \in Reached
          BY <3>2, <4>2 DEF IsPhase, Reached
        <5>2. Result[s][o] \in State /\ real_g'[s] = real_g[s]
          BY <1>5, <5>1, TaskAssumption
        <5>3. CASE e.state = s /\ e.op = o
          BY <1>4, <5>3 DEF EdgeIsKept, t
        <5>4. CASE ~(e.state = s /\ e.op = o)
          BY <1>2, <1>4, <2>2, <5>1, <5>2, <5>4 DEF EdgeIsKept
        <5>. QED
          BY <5>3, <5>4
      <4>. QED
        BY <4>1, <4>2
    <3>5. /\ K \cup {t} \subseteq Reached' /\ current' \in K \cup {t}
          /\ \A x \in Reached' : parent'[x] \in K \cup {t} => x \in K \cup {t}
      BY <1>4, <1>5, <1>6, <2>1, <3>2 DEF IsPhase
    <3>6. \A s \in K \cup {t} : h'[current'] <= h'[s]
      BY <1>1, <1>2, <1>8, <2>1, <3>2 DEF IsPhase
    <3>7. PICK L : L = K \cup {t}
      OBVIOUS
    <3>8. IsPhase(L)'
      BY <3>4, <3>5, <3>6, <3>7 DEF IsPhase
    <3>. QED
      BY <3>8
  <2>. QED
    BY <1>7, <2>1, <2>3 DEF FailureInv
<1>. QED
  BY <1>9, <1>10

LEMMA FailureQuiet ==
    ASSUME EHCInv, FailureInv,
           \/ ExitDeadEnd \/ StepGoal \/ OpenListEmpty \/ TraceStep \/ TraceEnd
           \/ UNCHANGED vars
    PROVE  FailureInv'
<1>1. UNCHANGED <<h, node_vars, open, prune_by_preferred>>
  BY DEF ExitDeadEnd, StepGoal, OpenListEmpty, TraceStep, TraceParent, TraceEnd,
         TraceDone, vars, ehc_vars
<1>2. \/ phase' \in {"exited", "trace", "solved"}
      \/ phase = "ehc" /\ phase' = "failed" /\ open = {} /\ current' = current
      \/ UNCHANGED <<phase, current>>
  BY DEF ExitDeadEnd, StepGoal, OpenListEmpty, TraceStep, TraceParent, TraceEnd,
         TraceDone, vars, ehc_vars
<1>3. RootsHaveNoParent'
  BY <1>1 DEF FailureInv, RootsHaveNoParent, node_vars
<1>4. phase' = "failed" => open' = {}
  BY <1>1, <1>2 DEF FailureInv
<1>5. PhaseIsExplored'
  <2>1. SUFFICES ASSUME phase' \in {"step", "ehc", "failed"}, ~prune_by_preferred
                 PROVE  (\E K : IsPhase(K))'
    BY <1>1 DEF PhaseIsExplored
  <2>2. /\ current' = current /\ (phase' = "step" <=> phase = "step")
        /\ phase \in {"step", "ehc", "failed"}
    BY <1>2, <2>1
  <2>3. PICK K : IsPhase(K)
    BY <2>1, <2>2 DEF FailureInv, PhaseIsExplored
  <2>4. IsPhase(K)'
    BY <1>1, <2>2, <2>3 DEF IsPhase, EdgeIsKept, node_vars, Reached
  <2>. QED
    BY <2>4
<1>. QED
  BY <1>3, <1>4, <1>5 DEF FailureInv

\* Enforced hill-climbing gives up only after every edge out of every state
\* below the current one has been followed, none to a better state, however
\* often the open list has been cleared before.
THEOREM FailuresAreExhaustive == Spec => []FailureIsExhaustive
<1>1. Init => FailureInv
  BY DEF Init, FailureInv, PhaseIsExplored, RootsHaveNoParent
<1>2. EHCInv /\ FailureInv /\ [Next]_vars => FailureInv'
  BY FailureOpenInitial, FailureStepExpand, FailureDeadEnd, FailureOpenNode,
     FailureQuiet
  DEF Next, Finished
<1>3. EHCInv /\ FailureInv => FailureIsExhaustive
  <2>. SUFFICES ASSUME EHCInv, FailureInv, phase = "failed", ~prune_by_preferred,
                       NEW s \in Descendants(current)
                PROVE  /\ h[current] <= h[s]
                       /\ \A o \in Applicable[s] :
                             real_g[s] + Cost[o] < Bound => status[Result[s][o]] # "NEW"
    BY DEF FailureIsExhaustive
  <2>1. PICK K : IsPhase(K)
    BY DEF FailureInv, PhaseIsExplored
  <2>2. s \in K
    BY <2>1 DEF IsPhase, Descendants
  <2>3. s \in Reached /\ s \in State /\ h[current] <= h[s]
    BY <2>1, <2>2 DEF IsPhase, Reached
  <2>4. ASSUME NEW o \in Applicable[s], real_g[s] + Cost[o] < Bound
        PROVE  status[Result[s][o]] # "NEW"
    <3>1. EdgeIsKept(s, o) /\ open = {}
      BY <2>1, <2>2 DEF IsPhase, FailureInv
    <3>2. real_g[s] \in Nat /\ Cost[o] \in Nat
      BY <2>3, TaskAssumption DEF EHCInv, NodesOK
    <3>. QED
      BY <2>4, <3>1, <3>2, TaskAssumption DEF EdgeIsKept
  <2>. QED
    BY <2>3, <2>4
<1>. QED
  BY <1>1, <1>2, <1>3, EHCInvariant, PTL DEF Spec
=============================================================================
