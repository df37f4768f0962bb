-------------------------- MODULE MCMergeAndShrink --------------------------
(***************************************************************************)
(* MergeAndShrink on a task with three variables: a package at A, in the   *)
(* truck or at B, a truck at A or B, and a tank that can be emptied; on    *)
(* one with two variables where the effect of an operator on one has a     *)
(* condition on the other; and on one whose operator switches a variable.  *)
(***************************************************************************)
EXTENDS MergeAndShrink

Sets(v, x) == [fact |-> <<v, x>>, cond |-> {}]
SetsIf(v, x, cond) == [fact |-> <<v, x>>, cond |-> cond]

MCVar == 1..3
MCDomain == <<{"at_a", "in", "at_b"}, {"a", "b"}, {"full", "empty"}>>
MCOp == {"load_a", "load_b", "drop_b", "drop_a", "drive", "back", "shuttle", "burn"}
MCCost == [o \in MCOp |-> IF o \in {"shuttle", "burn"} THEN 0 ELSE IF o = "drop_b" THEN 2 ELSE 1]

MCPre == [o \in MCOp |->
    CASE o = "load_a" -> {<<1, "at_a">>, <<2, "a">>}
      [] o = "load_b" -> {<<1, "at_b">>, <<2, "b">>}
      [] o = "drop_a" -> {<<1, "in">>, <<2, "a">>}
      [] o = "drop_b" -> {<<1, "in">>, <<2, "b">>}
      [] o = "drive" -> {<<2, "a">>, <<3, "full">>}
      [] o = "back" -> {<<2, "b">>, <<3, "full">>}
      [] o = "shuttle" -> {<<3, "full">>}
      [] o = "burn" -> {<<3, "full">>}]

\* "shuttle" moves the truck to b if it is at a.
MCEffects == [o \in MCOp |->
    CASE o \in {"load_a", "load_b"} -> {Sets(1, "in")}
      [] o = "drop_a" -> {Sets(1, "at_a")}
      [] o = "drop_b" -> {Sets(1, "at_b")}
      [] o = "drive" -> {Sets(2, "b")}
      [] o = "back" -> {Sets(2, "a")}
      [] o = "shuttle" -> {SetsIf(2, "b", {<<2, "a">>})}
      [] o = "burn" -> {Sets(3, "empty")}]

MCInitialState == <<"at_a", "b", "full">>
MCGoal == {<<1, "at_b">>}

\* The second task: "flip" sets the first variable if the second is set.
CEVar == 1..2
CEDomain == <<{0, 1}, {0, 1, 2}>>
CEOp == {"flip", "arm", "reset"}
CECost == [o \in CEOp |-> 1]
CEPre == [o \in CEOp |-> IF o = "reset" THEN {<<2, 1>>} ELSE {}]
CEEffects == [o \in CEOp |->
    CASE o = "flip" -> {SetsIf(1, 1, {<<2, 1>>}), SetsIf(2, 2, {<<1, 0>>, <<2, 0>>})}
      [] o = "arm" -> {SetsIf(2, 1, {<<2, 0>>})}
      [] o = "reset" -> {Sets(2, 0)}]
CEInitialState == <<0, 0>>
CEGoal == {<<1, 1>>, <<2, 0>>}

\* The third task: the two effects of "switch" on the first variable exclude
\* each other.
SWVar == 1..2
SWDomain == <<{0, 1}, {0, 1}>>
SWOp == {"switch"}
SWCost == [o \in SWOp |-> 1]
SWPre == [o \in SWOp |-> {}]
SWEffects == [o \in SWOp |-> {SetsIf(1, 1, {<<1, 0>>}), SetsIf(1, 0, {<<1, 1>>}), Sets(2, 1)}]
SWInitialState == <<0, 0>>
SWGoal == {<<1, 0>>, <<2, 1>>}

Config(shrink, label_reduction, at, prune, limits) ==
    [shrink |-> shrink, label_reduction |-> label_reduction, label_reduction_at |-> at,
     prune_irrelevant |-> "i" \in prune, prune_unreachable |-> "u" \in prune,
     pruning_as_abstraction |-> "a" \in prune,
     max_states |-> limits[1], max_states_before_merge |-> limits[2],
     threshold |-> limits[3], 
     system_order |-> SelectSeq(<<5, 1, 3, 2, 4>>, LAMBDA i : i < 2 * Cardinality(Var))]

MCConfigurations ==
    {Config("bisimulation", "two", {"reduce_before_shrinking"}, {"i", "u"}, <<12, 12, 1>>),
     Config("bisimulation", "fixpoint", {"reduce_before_merging"}, {"i", "u", "a"}, <<5, 3, 3>>),
     Config("bisimulation", "all", {"reduce_before_merging"}, {"u"}, <<6, 4, 6>>),
     Config("random", "fixpoint", {"reduce_before_shrinking"}, {"i"}, <<8, 4, 8>>),
     Config("random", "all", {}, {}, <<5, 3, 5>>)}
=============================================================================
