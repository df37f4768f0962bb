---------------------------- MODULE ExampleTasks ----------------------------
(***************************************************************************)
(* The tasks the search engines are checked on.  The first has two paths   *)
(* of different length to the states that matter (so that closed nodes are *)
(* reopened), a cycle of cost 0 and a dead end.                            *)
(***************************************************************************)
EXTENDS Integers

MCState == {"start", "detour", "hub", "twin", "goal", "trap", "pit"}
MCOp == {"zero", "one", "two", "three"}

\* The edges as triples <<from, operator, to>>.
MCEdge == {<<"start", "one", "detour">>, <<"start", "three", "hub">>,
           <<"detour", "one", "hub">>, <<"detour", "two", "trap">>,
           <<"hub", "zero", "twin">>, <<"twin", "zero", "hub">>,
           <<"hub", "three", "goal">>, <<"twin", "two", "goal">>,
           <<"twin", "one", "detour">>, <<"detour", "three", "twin">>,
           <<"trap", "one", "pit">>, <<"pit", "zero", "pit">>}

MCApplicable == [s \in MCState |-> {o \in MCOp :
                     \E t \in MCState : <<s, o, t>> \in MCEdge}]
MCResult == [s \in MCState |-> [o \in MCOp |->
                IF o \in MCApplicable[s]
                THEN CHOOSE t \in MCState : <<s, o, t>> \in MCEdge
                ELSE s]]
MCCost == [o \in MCOp |-> CASE o = "zero" -> 0 [] o = "one" -> 1
                            [] o = "two" -> 2 [] o = "three" -> 3]

MCSolvable == {"start", "detour", "hub", "twin", "goal"}
MCDist == [s \in MCState |-> CASE s = "start" -> 4 [] s = "detour" -> 3
                               [] s \in {"hub", "twin"} -> 2 [] OTHER -> 0]
MCRank == [s \in MCState |-> CASE s = "start" -> 4 [] s = "detour" -> 3
                               [] s = "hub" -> 2 [] s = "twin" -> 1
                               [] OTHER -> 0]

\* Partial-order reduction may drop the direct edge from hub to goal: a
\* cheapest plan survives in every state.
MCPrune == [s \in MCState |-> IF s = "hub" THEN {"zero"} ELSE MCApplicable[s]]

\* All admissible heuristics; every one may miss or detect the dead ends.
AllAdmissible ==
    {f \in [MCState -> -1..4] :
        /\ \A s \in MCSolvable : 0 <= f[s] /\ f[s] <= MCDist[s]
        /\ \A s \in MCState \ MCSolvable : f[s] <= 0}

\* Safe but inadmissible: the values mislead, only dead ends are reliable.
AllMisleading ==
    {f \in [MCState -> {-1, 0, 3}] :
        /\ \A s \in MCSolvable : f[s] # -1
        /\ \A s \in MCState \ MCSolvable : f[s] # 3
        /\ f["goal"] = 0}

\* Heuristics with plateaus and local minima: the goal alone is worth 0.
AllInformed ==
    {f \in [MCState -> -1..3] :
        /\ \A s \in MCSolvable : f[s] # -1 /\ (f[s] = 0 <=> s = "goal")
        /\ \A s \in MCState \ MCSolvable : f[s] \in {-1, 1, 2}}

\* The same, but the trap is worth 1 or -1, and some take the initial state for
\* a dead end.
AllUnreliable ==
    {f \in [MCState -> -1..3] :
        /\ \A s \in MCSolvable : f[s] = 0 <=> s = "goal"
        /\ \A s \in MCSolvable : f[s] = -1 => s = "start"
        /\ \A s \in MCState \ MCSolvable : f[s] \in {-1, 1}}

-----------------------------------------------------------------------------
(***************************************************************************)
(* A second task, for cost_type = PLUSONE: the long way (via a1 to a4) to  *)
(* node n is cheap in real cost, the short way (via b) cheap in adjusted   *)
(* cost.                                                                   *)
(***************************************************************************)
PState == {"start", "a1", "a2", "a3", "a4", "b", "n", "goal"}
POp == {"zero", "zero2", "one", "three"}
PEdge == {<<"start", "zero", "a1">>, <<"a1", "zero", "a2">>,
          <<"a2", "zero", "a3">>, <<"a3", "zero", "a4">>,
          <<"a4", "one", "n">>, <<"start", "zero2", "b">>,
          <<"b", "three", "n">>, <<"n", "one", "goal">>}

PApplicable == [s \in PState |-> {o \in POp :
                    \E t \in PState : <<s, o, t>> \in PEdge}]
PResult == [s \in PState |-> [o \in POp |->
                IF o \in PApplicable[s]
                THEN CHOOSE t \in PState : <<s, o, t>> \in PEdge
                ELSE s]]
PCost == [o \in POp |-> CASE o \in {"zero", "zero2"} -> 0 [] o = "one" -> 1
                          [] o = "three" -> 3]
PDist == [s \in PState |-> CASE s \in {"start", "a1", "a2", "a3", "a4"} -> 2
                             [] s = "b" -> 4 [] s = "n" -> 1 [] OTHER -> 0]
PRank == [s \in PState |-> CASE s = "start" -> 6 [] s = "a1" -> 5
                             [] s = "a2" -> 4 [] s = "a3" -> 3
                             [] s \in {"a4", "b"} -> 2 [] s = "n" -> 1
                             [] OTHER -> 0]

\* Safe heuristics that take one of two values in every state.
PHeuristics == [PState -> {0, 3}]
=============================================================================
