--------------------------- MODULE SymmetrySearch ---------------------------
(***************************************************************************)
(* A* with structural symmetries: the branches of EagerSearch (src/src/    *)
(* search/search_engines/eager_search.cc) for orbit space search (OSS) and *)
(* for DKS, the canonical representatives of Group and Permutation         *)
(* (structural_symmetries/group.cc, permutation.cc), the two ways to       *)
(* register a state (state_registry.cc) and the reconstruction of a plan   *)
(* in SearchSpace::trace_path_with_symmetries (search_space.cc).           *)
(*                                                                         *)
(* States are numbers in the order in which Permutation::replace_if_less   *)
(* compares them; a generator is the permutation of the states it induces. *)
(* Costs are not adjusted (cost_type=NORMAL) and nothing is pruned.        *)
(***************************************************************************)
EXTENDS PlanningTask, FiniteSets, Sequences, Functions

CONSTANTS
    Heuristics,      \* the functions the heuristic may be
    GeneratorLists,  \* the lists of generators Bliss may have returned
    NoState, NoOp    \* StateID::no_state, OperatorID::no_operator

Infty == -1

\* What Bliss guarantees of a generator: it permutes the operators along with
\* the states, so goals are mapped to goals, every transition to one of the
\* same cost, and every transition of an image is that of a transition.
IsAutomorphism(p) ==
    /\ p \in Bijection(State, State)
    /\ \A s \in State : s \in Goal <=> p[s] \in Goal
    /\ \A s \in State : \A o \in Applicable[s] : \E q \in Applicable[p[s]] :
          Result[p[s]][q] = p[Result[s][o]] /\ Cost[q] = Cost[o]
    /\ \A s \in State : \A q \in Applicable[p[s]] : \E o \in Applicable[s] :
          Result[p[s]][q] = p[Result[s][o]] /\ Cost[q] = Cost[o]

ASSUME SymmetryAssumption ==
    /\ State \subseteq Nat /\ IsFiniteSet(State)
    /\ Heuristics \subseteq [State -> Nat \cup {Infty}]
    /\ \A gens \in GeneratorLists :
          /\ gens \in Seq([State -> State]) /\ gens # <<>>
          /\ \A i \in DOMAIN gens : IsAutomorphism(gens[i])
    /\ NoState \notin State
    /\ NoOp \notin Op

VARIABLES
    h,                  \* the heuristic of this run
    search_symmetries,  \* the option of Group: "OSS" or "DKS"
    generators,         \* Group::generators
    registry,           \* the state registry; a StateID is a position, from 0
    node,               \* SearchNodeInfo of every registered state
    open,               \* the entries of the open list
    phase, current, todo,
    state_trace,        \* trace_path_with_symmetries: states, goal first,
    permutations,       \* for each the permutation into the successor of the next,
    dks_registry,       \* dks_successor_state_registry
    mixed,              \* an equal ID has been taken for an equal state
    path                \* the plan

options == <<h, search_symmetries, generators>>
trace_vars == <<state_trace, permutations, dks_registry, mixed, path>>
vars == <<options, registry, node, open, phase, current, todo, trace_vars>>

-----------------------------------------------------------------------------
(***************************************************************************)
(* Permutations and canonical representatives                              *)
(***************************************************************************)
Identity == [s \in State |-> s]

\* compose_permutations: p first, then q.
Compose(p, q) == [s \in State |-> q[p[s]]]

\* Mutant: a permutation is taken to be its own inverse.
InverseOf_Not(p) == p

InverseOf(p) == [t \in State |-> CHOOSE s \in State : p[s] = t]

\* One turn of the loop over the generators: each is applied where
\* replace_if_less finds that the result is smaller.
ReduceOnce(s) ==
    LET after[i \in 0..Len(generators)] ==
          IF i = 0 THEN Identity
          ELSE LET p == after[i-1]
                   gen == generators[i]
               IN  IF gen[p[s]] < p[s] THEN Compose(p, gen) ELSE p
    IN  after[Len(generators)]

\* compute_permutation_trace_to_canonical_representative, composed: the
\* permutation that takes s to its canonical representative.  Two symmetric
\* states may have different ones, since only improvements are made.
ToCanonical(s0) ==
    LET to[s \in State] ==
          LET p == ReduceOnce(s)
          IN  IF p[s] = s THEN p ELSE Compose(p, to[p[s]])
    IN  to[s0]

\* Mutant: the generators are tried once instead of until nothing changes.
Canonical_OneTurn(s) == ReduceOnce(s)[s]

\* get_canonical_representative
Canonical(s) == ToCanonical(s)[s]

\* create_permutation_from_state_to_state
FromTo(s, t) == Compose(ToCanonical(s), InverseOf(ToCanonical(t)))

-----------------------------------------------------------------------------
(***************************************************************************)
(* State registries                                                        *)
(***************************************************************************)
Register(reg, s) == IF s \in Range(reg) THEN reg ELSE Append(reg, s)
ID(reg, s) == (CHOOSE i \in DOMAIN reg : reg[i] = s) - 1

\* With DKS a state whose canonical representative is already registered is
\* dropped for the state that has it (insert_id_or_pop_state_dks); with OSS
\* the canonical representative is registered (register_state_buffer).
Stored(reg, s) ==
    IF search_symmetries = "OSS" THEN Canonical(s)
    ELSE IF \E t \in Range(reg) : Canonical(t) = Canonical(s)
         THEN CHOOSE t \in Range(reg) : Canonical(t) = Canonical(s)
         ELSE s

-----------------------------------------------------------------------------
(***************************************************************************)
(* The search                                                              *)
(***************************************************************************)
NewNode == [status |-> "NEW", g |-> -1, parent |-> NoState, op |-> NoOp]

OpenNode(g, parent, op) == [status |-> "OPEN", g |-> g, parent |-> parent, op |-> op]

EntryKey(e) == e.g + h[e.state]

IsMinimal(e) ==
    \A d \in open :
        \/ EntryKey(e) < EntryKey(d)
        \/ EntryKey(e) = EntryKey(d) /\ h[e.state] <= h[d.state]

\* initialize(): the initial state is registered, with OSS its canonical
\* representative as well, which then is the state the search starts from.
InitialNode ==
    IF search_symmetries = "OSS" THEN Canonical(InitialState) ELSE InitialState

Init ==
    /\ h \in Heuristics
    /\ search_symmetries \in {"OSS", "DKS"}
    /\ generators \in GeneratorLists
    /\ registry = Register(<<InitialState>>, InitialNode)
    /\ LET dead == h[InitialNode] = Infty IN
       /\ node = [s \in State |->
                    IF s = InitialNode /\ ~dead
                    THEN OpenNode(0, NoState, NoOp)
                    ELSE NewNode]
       /\ open = IF dead THEN {} ELSE {[state |-> InitialNode, g |-> 0]}
    /\ phase = "fetch"
    /\ current = NoState
    /\ todo = {}
    /\ state_trace = <<>>
    /\ permutations = <<>>
    /\ dks_registry = <<>>
    /\ mixed = FALSE
    /\ path = <<>>

OpenListEmpty ==
    /\ phase = "fetch"
    /\ open = {}
    /\ phase' = "failed"
    /\ UNCHANGED <<options, registry, node, open, current, todo, trace_vars>>

\* fetch_next_node, and step() up to the loop over the operators.
Fetch(e) ==
    /\ phase = "fetch"
    /\ e \in open /\ IsMinimal(e)
    /\ open' = open \ {e}
    /\ IF node[e.state].status = "CLOSED"
       THEN UNCHANGED <<node, phase, current, todo>>
       ELSE /\ node' = [node EXCEPT ![e.state].status = "CLOSED"]
            /\ current' = e.state
            /\ IF e.state \in Goal
               THEN phase' = "trace" /\ todo' = {}
               ELSE phase' = "expand" /\ todo' = Applicable[e.state]
    /\ UNCHANGED <<options, registry, trace_vars>>

WithinBound(o) == node[current].g + Cost[o] < Bound

IsCheaper(t, g) == node[t].status \in {"OPEN", "CLOSED"} /\ node[t].g > g

InsertEntry(t, g) == open' = open \cup {[state |-> t, g |-> g]}

\* One iteration of the loop over the operators.  The node it is about is the
\* one stored for the orbit of the successor, which may be the current one.
Generating(o) ==
    /\ phase = "expand"
    /\ o \in todo
    /\ todo' = todo \ {o}
    /\ UNCHANGED <<options, phase, current, trace_vars>>

CutOff(o) ==
    /\ Generating(o)
    /\ ~WithinBound(o)
    /\ UNCHANGED <<registry, node, open>>

Generate(o) ==
    /\ Generating(o)
    /\ WithinBound(o)
    /\ LET t == Stored(registry, Result[current][o])
           g == node[current].g + Cost[o]
       IN  /\ registry' = Register(registry, t)
           /\ \/ /\ node[t].status = "NEW" /\ h[t] = Infty
                 /\ node' = [node EXCEPT ![t].status = "DEAD_END"]
                 /\ UNCHANGED open
              \/ /\ (node[t].status = "NEW" /\ h[t] # Infty) \/ IsCheaper(t, g)
                 /\ node' = [node EXCEPT ![t] = OpenNode(g, current, o)]
                 /\ InsertEntry(t, g)
              \/ /\ node[t].status # "NEW" /\ ~IsCheaper(t, g)
                 /\ UNCHANGED <<node, open>>

ExpansionDone ==
    /\ phase = "expand"
    /\ todo = {}
    /\ phase' = "fetch"
    /\ UNCHANGED <<options, registry, node, open, current, todo, trace_vars>>

-----------------------------------------------------------------------------
(***************************************************************************)
(* trace_path_with_symmetries                                              *)
(***************************************************************************)

\* The state the parent of s really leads to, or the real initial state.
Origin(s) ==
    IF node[s].op = NoOp THEN InitialState ELSE Result[node[s].parent][node[s].op]

\* It is registered, with DKS in a registry of its own that knows no
\* symmetries; the initial state always is one of the main registry.
InOwnRegistry(s) == search_symmetries = "DKS" /\ node[s].op # NoOp

MainRegistry(s) == IF InOwnRegistry(s) THEN registry ELSE Register(registry, Origin(s))
OwnRegistry(s) ==
    IF InOwnRegistry(s) THEN Register(dks_registry, Origin(s)) ELSE dks_registry

\* The comparison of new_state.get_id() with current_state.get_id().
SameID(s) ==
    LET reg == IF InOwnRegistry(s) THEN OwnRegistry(s) ELSE MainRegistry(s)
    IN  ID(reg, Origin(s)) = ID(registry, s)

\* One turn of the first loop: from a state to its parent.
TraceBack ==
    /\ phase = "trace"
    /\ registry' = MainRegistry(current)
    /\ dks_registry' = OwnRegistry(current)
    /\ state_trace' = Append(state_trace, current)
    /\ permutations' =
          Append(permutations, IF SameID(current) THEN Identity
                               ELSE FromTo(current, Origin(current)))
    /\ mixed' = (mixed \/ (SameID(current) /\ Origin(current) # current))
    /\ IF node[current].op = NoOp
       THEN phase' = "rebuild" /\ UNCHANGED current
       ELSE current' = node[current].parent /\ UNCHANGED phase
    /\ UNCHANGED <<options, node, open, todo, path>>

\* The second loop: reverse_permutations[k] is the permutation of a state of
\* the trace, then those of the k states behind it, the last of which is the
\* initial state.
ReversePermutation(k) ==
    LET reverse_permutations[j \in 0..Len(permutations)] ==
          IF j = 0 THEN Identity
          ELSE Compose(permutations[Len(permutations) + 1 - j],
                       reverse_permutations[j-1])
    IN  reverse_permutations[k]

\* The third loop: the states of the trace are mapped to those of the plan.
RealState(i) == ReversePermutation(Len(permutations) + 1 - i)[state_trace[i]]

\* Mutant: the first operator found is taken.
Connecting_Any(s, t) == {o \in Applicable[s] : Result[s][o] = t}

\* The cheapest operators that lead from s to t.
Connecting(s, t) ==
    LET ops == {o \in Applicable[s] : Result[s][o] = t}
    IN  {o \in ops : \A q \in ops : Cost[o] <= Cost[q]}

\* The last loop: a cheapest operator from one state to the next.
Rebuild ==
    /\ phase = "rebuild"
    /\ LET i == Len(state_trace) - Len(path)
           ops == Connecting(RealState(i), RealState(i-1))
       IN  IF i = 1 THEN phase' = "solved" /\ UNCHANGED path
           ELSE IF ops = {} THEN phase' = "error" /\ UNCHANGED path
           ELSE (\E o \in ops : path' = Append(path, o)) /\ UNCHANGED phase
    /\ UNCHANGED <<options, registry, node, open, current, todo, state_trace,
                   permutations, dks_registry, mixed>>

Finished == phase \in {"solved", "failed", "error"} /\ UNCHANGED vars

Next ==
    \/ OpenListEmpty
    \/ \E e \in open : Fetch(e)
    \/ \E o \in todo : CutOff(o) \/ Generate(o)
    \/ ExpansionDone
    \/ TraceBack
    \/ Rebuild
    \/ Finished

Spec == Init /\ [][Next]_vars /\ WF_vars(Next)

-----------------------------------------------------------------------------
(***************************************************************************)
(* Properties                                                              *)
(***************************************************************************)
ClosedSets(gens) ==
    {S \in SUBSET State : \A i \in DOMAIN gens : \A t \in S : gens[i][t] \in S}

Orbits == [gens \in GeneratorLists |->
              LET closed == ClosedSets(gens)
              IN  [s \in State |-> {t \in State : \A S \in closed : s \in S => t \in S}]]

\* The orbit of s: what the generators make of it, again and again.
Orbit(s) == Orbits[generators][s]

\* The parent of a node leads into the orbit of its state, at a cost no
\* larger than the difference of the g values: what makes a permutation from
\* the state to that successor exist.
ParentsLeadToOrbit ==
    \A s \in State : node[s].status \in {"OPEN", "CLOSED"} =>
        /\ Origin(s) \in Orbit(s)
        /\ Canonical(Origin(s)) = Canonical(s)
        /\ node[s].op # NoOp =>
              node[node[s].parent].g + Cost[node[s].op] <= node[s].g

Execute(s, ops) ==
    LET after[i \in 0..Len(ops)] ==
            IF i = 0 THEN s
            ELSE IF after[i-1] = NoState THEN NoState
            ELSE IF ops[i] \notin Applicable[after[i-1]] THEN NoState
            ELSE Result[after[i-1]][ops[i]]
    IN  after[Len(ops)]

PathCost(ops) ==
    LET cost[i \in 0..Len(ops)] ==
            IF i = 0 THEN 0 ELSE cost[i-1] + Cost[ops[i]]
    IN  cost[Len(ops)]

\* The plan put together from permuted states starts in the real initial
\* state, reaches a goal and is a cheapest one, unless IDs have been mixed.
PlanIsCheapest ==
    phase = "solved" /\ ~mixed =>
        /\ Execute(InitialState, path) \in Goal
        /\ PathCost(path) = Dist[InitialState]

\* "No operator is found!!!" is never said, unless IDs have been mixed.
OperatorsAreFound == phase = "error" => mixed

\* "IDs from different state registries must not be mixed" (state_registry.h).
IDsAreNotMixed == ~mixed

=============================================================================
