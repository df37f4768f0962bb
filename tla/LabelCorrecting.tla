--------------------------- MODULE LabelCorrecting ---------------------------
(***************************************************************************)
(* What every best-first search of the planner promises about the g values *)
(* of its nodes, whatever order it expands them in: it is a label          *)
(* correcting algorithm.  The source is labelled 0, and a step either      *)
(* leaves the labels alone or lowers one of them to the label of a         *)
(* predecessor plus the cost of an edge.                                   *)
(***************************************************************************)
EXTENDS Integers

CONSTANTS Node, Source, Edge,  \* Edge: a set of triples <<from, to, cost>>
          LowerBound           \* a feasible potential, see below

Unlabelled == -1

GraphOK ==
    /\ Source \in Node
    /\ Edge \subseteq Node \X Node \X Nat
    /\ LowerBound \in [Node -> Int]

\* LowerBound never grows by more than the cost of an edge along that edge.
Feasible ==
    /\ LowerBound[Source] <= 0
    /\ \A e \in Edge : LowerBound[e[2]] <= LowerBound[e[1]] + e[3]

VARIABLE label

NoLabels == [n \in Node |-> Unlabelled]
SourceLabelled == [n \in Node |-> IF n = Source THEN 0 ELSE Unlabelled]

Init == label \in {NoLabels, SourceLabelled}

\* An engine that has yet to look at the initial state does so first.
LabelSource ==
    /\ label = NoLabels
    /\ label' = SourceLabelled

Relax(e) ==
    /\ label[e[1]] # Unlabelled
    /\ \/ label[e[2]] = Unlabelled
       \/ label[e[2]] > label[e[1]] + e[3]
    /\ label' = [label EXCEPT ![e[2]] = label[e[1]] + e[3]]

Next == LabelSource \/ \E e \in Edge : Relax(e)

Spec == Init /\ [][Next]_label

\* The labels are numbers, and -1 where there is none.
TypeOK == label \in [Node -> Nat \cup {Unlabelled}]

\* A label never promises a path cheaper than there is.
LabelsAreAchievable ==
    Feasible => \A n \in Node : label[n] # Unlabelled => LowerBound[n] <= label[n]
=============================================================================
