--------------------------- MODULE CheapestPaths ---------------------------
(***************************************************************************)
(* Costs of cheapest paths in a weighted graph: what dijkstra_search       *)
(* computes for abstract transition systems, and what the properties       *)
(* compare heuristics and plans with.                                      *)
(***************************************************************************)
EXTENDS Integers, FiniteSets

CONSTANT Infty        \* the distance of what cannot be reached

\* Distances are compared and added with Infty above every number.
AtMost(a, b) == b = Infty \/ (a # Infty /\ a <= b)
Plus(a, b) == IF a = Infty \/ b = Infty THEN Infty ELSE a + b

Only(S) == CHOOSE x \in S : TRUE

Nearest(S) == CHOOSE p \in S : \A q \in S : p[2] <= q[2]

\* D holds pairs of a state and its distance; what one more arc leads to.
Unsettled(arcs, D) ==
    {q \in UNION {{<<a[1], a[3] + p[2]>> : a \in {b \in arcs : b[2] = p[1]}} : p \in D} :
        \A p \in D : p[1] # q[1]}

Settle(arcs, D) ==
    IF Unsettled(arcs, D) = {} THEN D ELSE D \cup {Nearest(Unsettled(arcs, D))}

DistanceIn(D, s) ==
    IF \E p \in D : p[1] = s THEN (CHOOSE p \in D : p[1] = s)[2] ELSE Infty

\* The costs of cheapest paths over arcs <<from, to, cost>> to the targets,
\* collected from the targets back.  (D is bound to a value, so that it is
\* computed once.)
ShortestPaths(states, arcs, targets) ==
    LET settled[n \in 0..Cardinality(states)] ==
            IF n = 0 THEN {<<t, 0>> : t \in targets}
            ELSE Only({Settle(arcs, D) : D \in {settled[n - 1]}})
    IN  Only({[s \in states |-> DistanceIn(D, s)] : D \in {settled[Cardinality(states)]}})

Turned(arcs) == {<<a[2], a[1], a[3]>> : a \in arcs}
=============================================================================
