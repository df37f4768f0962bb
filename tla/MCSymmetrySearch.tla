-------------------------- MODULE MCSymmetrySearch --------------------------
(***************************************************************************)
(* SymmetrySearch on a task with three symmetric corridors: 1, 2, 3 are    *)
(* the states before, 4, 5, 6 those in and 7, 8, 9 those behind them, 10   *)
(* is the goal, 11 a dead end.  From inside a corridor one gets out behind the others     *)
(* only, so that the cheap way to the states behind them arrives in a      *)
(* state other than the one first reached by the direct way.  The search   *)
(* starts in state 2, which is not canonical.                              *)
(***************************************************************************)
EXTENDS SymmetrySearch

MCState == 1..11
MCOp == {"jump", "walk", "out1", "out2", "open", "back", "fall", "stay",
         "force"}
MCEdge ==
    {<<i, "jump", 6 + i>> : i \in 1..3} \cup {<<i, "walk", 3 + i>> : i \in 1..3}
    \cup {<<4, "out1", 8>>, <<4, "out2", 9>>, <<5, "out1", 7>>,
          <<5, "out2", 9>>, <<6, "out1", 7>>, <<6, "out2", 8>>}
    \cup {<<6 + i, "open", 10>> : i \in 1..3} \cup {<<6 + i, "force", 10>> : i \in 1..3}
    \cup {<<6 + i, "back", 3 + i>> : i \in 1..3}
    \cup {<<3 + i, "fall", 11>> : i \in 1..3} \cup {<<i, "stay", i>> : i \in 1..3}

MCApplicable == [s \in MCState |-> {o \in MCOp :
                     \E t \in MCState : <<s, o, t>> \in MCEdge}]
MCResult == [s \in MCState |-> [o \in MCOp |->
                IF o \in MCApplicable[s]
                THEN CHOOSE t \in MCState : <<s, o, t>> \in MCEdge
                ELSE s]]
MCCost == [o \in MCOp |-> CASE o \in {"jump", "force"} -> 3 [] o \in {"back", "stay"} -> 0 [] OTHER -> 1]
MCSolvable == 1..10
MCDist == [s \in MCState |-> IF s < 4 THEN 3 ELSE IF s < 7 THEN 2
                             ELSE IF s < 10 THEN 1 ELSE 0]

\* The corridors are permuted: the state i of each row becomes state f[i].
Corridors(f) == [s \in MCState |-> IF s >= 10 THEN s
                                   ELSE 3 * ((s-1) \div 3) + f[((s-1) % 3) + 1]]
Rotate == Corridors(<<2, 3, 1>>)
SwapFirst == Corridors(<<2, 1, 3>>)
SwapLast == Corridors(<<1, 3, 2>>)

\* The rotation alone leaves 1 and 2 as different representatives of one
\* orbit; the two transpositions do not commute.
MCGeneratorLists == {<<Rotate>>, <<SwapFirst, SwapLast>>, <<SwapLast, SwapFirst>>}

\* Admissible heuristics that tell symmetric states apart, and an unsafe one
\* that takes all states behind the corridors for dead ends.
MCHeuristics ==
    {f \in [MCState -> -1..2] :
        /\ \A s \in 1..3 : f[s] = 0
        /\ \A s \in 4..6 : f[s] \in {0, 2}
        /\ \A s \in 7..9 : f[s] = IF s = 8 THEN 1 ELSE 0
        /\ f[10] = 0
        /\ f[11] \in {-1, 0}}
    \cup {[s \in MCState |-> IF s \in 7..9 THEN -1 ELSE 0]}
=============================================================================
