-------------------------- MODULE FiniteDomainTask --------------------------
(***************************************************************************)
(* A planning task in finite-domain representation, as heuristics and      *)
(* pruning methods see it through TaskProxy: variables, operators with     *)
(* preconditions and (conditional) effects, a goal.  A fact is a pair      *)
(* <<variable, value>>, a state a function of the variables.  Axioms are   *)
(* left out; the components modelled on this task refuse them              *)
(* (verify_no_axioms) or see none.                                         *)
(*                                                                         *)
(* The second part is what is true of the task, for the properties.        *)
(***************************************************************************)
EXTENDS CheapestPaths

CONSTANTS
    Var, Domain,      \* variables, and the values of each
    Op, Cost,
    Pre,              \* Pre[o]: a set of facts
    Effects,          \* Effects[o]: records [fact, cond], cond a set of facts
    InitialState,
    Goal              \* a set of facts

State == {s \in [Var -> UNION {Domain[v] : v \in Var}] : \A v \in Var : s[v] \in Domain[v]}

Facts == UNION {{v} \X Domain[v] : v \in Var}

ASSUME TaskAssumption ==
    /\ IsFiniteSet(Var) /\ Var = 1..Cardinality(Var) /\ Var # {}
    /\ DOMAIN Domain = Var /\ IsFiniteSet(State)
    /\ IsFiniteSet(Op) /\ Cost \in [Op -> Nat]
    /\ Pre \in [Op -> SUBSET Facts]
    /\ Effects \in [Op -> SUBSET [fact : Facts, cond : SUBSET Facts]]
    /\ InitialState \in State
    /\ Goal \subseteq Facts

\* A precondition, a goal or a condition names a variable at most once.
ASSUME ConsistentFactsAssumption ==
    \A F \in {Goal} \cup {Pre[o] : o \in Op}
             \cup UNION {{e.cond : e \in Effects[o]} : o \in Op} :
        \A p, q \in F : p[1] = q[1] => p = q

Holds(s, F) == \A f \in F : s[f[1]] = f[2]

Applicable(s, o) == Holds(s, Pre[o])

\* The effects of o on v that fire in s.
Fired(s, o, v) == {e \in Effects[o] : e.fact[1] = v /\ Holds(s, e.cond)}

\* get_successor_state.  If effects that fire together contradict each other,
\* the code lets the last one win: a choice that depends, like this one, only
\* on which effects fire.
Result(s, o) ==
    [v \in Var |-> IF Fired(s, o, v) = {} THEN s[v]
                   ELSE (CHOOSE e \in Fired(s, o, v) : TRUE).fact[2]]

-----------------------------------------------------------------------------
RealArcs ==
    {<<p[1], Result(p[1], p[2]), Cost[p[2]]>> :
        p \in {q \in State \X Op : Applicable(q[1], q[2])}}

GoalStates == {s \in State : Holds(s, Goal)}

RealDistance == ShortestPaths(State, RealArcs, GoalStates)

Reachable ==
    LET d == ShortestPaths(State, Turned(RealArcs), {InitialState})
    IN  {s \in State : d[s] # Infty}
=============================================================================
