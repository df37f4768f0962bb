--------------------------- MODULE MCLandmarkCut ---------------------------
(***************************************************************************)
(* LandmarkCut on a task with two ways to the goal that share an operator, *)
(* operators without cost and states without a plan.  Operators 3 and 4    *)
(* have effects under several conditions: those of 3 build upon each other *)
(* if the third variable is u, those of 4 do the same if the first is d.   *)
(***************************************************************************)
EXTENDS LandmarkCut

Sets(v, x) == [fact |-> <<v, x>>, cond |-> {}]
SetsIf(v, x, cond) == [fact |-> <<v, x>>, cond |-> cond]

MCVar == 1..3
MCDomain == <<{"a", "b", "c", "d"}, {"n", "y"}, {"n", "y", "u"}>>
MCOp == 1..6
MCCost == [o \in MCOp |-> 1]
MCPre == [o \in MCOp |->
    CASE o = 1 -> {<<1, "a">>}
      [] o = 2 -> {<<1, "b">>, <<2, "y">>}
      [] o = 3 -> {}
      [] o = 4 -> {<<3, "n">>}
      [] o = 5 -> {<<1, "b">>, <<3, "n">>}
      [] o = 6 -> {<<1, "d">>, <<3, "n">>}]
MCEffects == [o \in MCOp |->
    CASE o = 1 -> {Sets(1, "b")}
      [] o = 2 -> {Sets(1, "c")}
      [] o = 3 -> {Sets(2, "y"), SetsIf(3, "y", {<<1, "c">>, <<3, "u">>})}
      [] o = 4 -> {SetsIf(3, "y", {<<2, "y">>}), SetsIf(3, "y", {<<1, "d">>})}
      [] o = 5 -> {Sets(3, "y"), Sets(1, "a")}
      [] o = 6 -> {Sets(1, "a")}]
MCInitialState == <<"a", "n", "n">>
MCGoal == {<<1, "c">>, <<3, "y">>}
MCCostFunctions == {<<2, 1, 3, 1, 0, 0>>, <<1, 0, 2, 2, 3, 0>>}
=============================================================================
