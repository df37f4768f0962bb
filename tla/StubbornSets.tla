---------------------------- MODULE StubbornSets ----------------------------
(***************************************************************************)
(* The pruning methods stubborn_sets_simple and stubborn_sets_ec of        *)
(* src/src/search/pruning: prune_operators is called for one state after   *)
(* the other, in an order the search chooses, and computes a strong        *)
(* stubborn set by a fixpoint iteration over a stack of operators.         *)
(*                                                                         *)
(* Operators are numbers (the order of achievers and of the stack depends  *)
(* on them), variables and values too (facts are sorted by both).          *)
(***************************************************************************)
EXTENDS FiniteDomainTask, Sequences, SequencesExt

CONSTANT Variants     \* of the pruning method: an option of the search

ASSUME VariantsAssumption == Variants \subseteq {"simple", "ec"}

ASSUME NumbersAssumption == Op \subseteq Nat /\ \A v \in Var : Domain[v] \subseteq Nat

VARIABLES
    variant,
    state,           \* the state of the call, or of the last one
    stubborn,        \* the operators marked as stubborn
    stubborn_queue,
    disabled_todo,   \* operators disabled by the one just handled (ec)
    written_vars,    \* variables written by applicable stubborn operators (ec)
    nes_computed,    \* facts with a necessary enabling set (ec)
    stage

pruning_vars == <<variant, state, stubborn, stubborn_queue, disabled_todo,
                  written_vars, nes_computed, stage>>

-----------------------------------------------------------------------------
(***************************************************************************)
(* What initialize computes from the task                                  *)
(***************************************************************************)
EffectFacts(o) == {e.fact : e \in Effects[o]}
EffectConditions(o) == UNION {e.cond : e \in Effects[o]}
WrittenBy(o) == {f[1] : f \in EffectFacts(o)}

\* A sorted list of facts has one entry for each effect, with the same fact
\* several times if there are several conditions for it; a precondition is
\* listed like an effect without a condition.
Listed(F) == {[fact |-> f, cond |-> {}] : f \in F}

\* The places at which the fact of e stands among those on its variable.
Places(E, e) ==
    LET same == {d \in E : d.fact[1] = e.fact[1]}
    IN  Cardinality({d \in same : d.fact[2] < e.fact[2]}) + 1
            .. Cardinality({d \in same : d.fact[2] <= e.fact[2]})

\* get_conflicting_vars: two lists are walked through side by side.  Facts on
\* a variable are compared place by place, not each with each, and what is
\* left of the longer list is skipped.
ConflictingVars(E, F) ==
    {d.fact[1] : d \in {e \in E : \E f \in F : /\ f.fact[1] = e.fact[1]
                                             /\ f.fact[2] # e.fact[2]
                                             /\ Places(E, e) \cap Places(F, f) # {}}}

\* contain_conflicting_fact: the same walk, which ends at the first conflict.
Conflicting(E, F) == ConflictingVars(E, F) # {}

CanDisable(o, p) == Conflicting(Effects[o], Listed(Pre[p]))
CanConflict(o, p) == Conflicting(Effects[o], Effects[p])

\* Mutant: operators that can disable this one are forgotten.
Interfering_OneWay(o) ==
    {p \in Op \ {o} : CanDisable(o, p) \/ CanConflict(o, p)}

\* interference_relation
Interfering(o) ==
    {p \in Op \ {o} : CanDisable(o, p) \/ CanConflict(o, p) \/ CanDisable(p, o)}

\* conflicting_and_disabling and disabled
ConflictingAndDisabling(o) == {p \in Op \ {o} : CanConflict(o, p) \/ CanDisable(p, o)}
Disabled(o) == {p \in Op \ {o} : CanDisable(o, p)}

\* Mutant: conditional effects achieve nothing.
Achievers_Unconditional(f) == {o \in Op : [fact |-> f, cond |-> {}] \in Effects[o]}

\* achievers
Achievers(f) == {o \in Op : f \in EffectFacts(o)}

\* build_dtgs: arcs between the values of v.
TransitionGraph(v) ==
    UNION {{<<x, f[2]>> : x \in {y \in Domain[v] : \A p \in Pre[o] : p[1] = v => p[2] = y},
                          f \in {g \in EffectFacts(o) : g[1] = v}} : o \in Op}

\* recurse_forwards
ReachableValues(v, x) ==
    LET values[n \in 0..Cardinality(Domain[v])] ==
            IF n = 0 THEN {x}
            ELSE LET V == values[n - 1]
                 IN  V \cup {a[2] : a \in {b \in TransitionGraph(v) : b[1] \in V}}
    IN  values[Cardinality(Domain[v])]

ReachabilityMap == [v \in Var |-> [x \in Domain[v] |-> ReachableValues(v, x)]]

\* compute_active_operators
ActiveOps(s) == {o \in Op : \A f \in Pre[o] : f[2] \in ReachabilityMap[f[1]][s[f[1]]]}

-----------------------------------------------------------------------------
(***************************************************************************)
(* prune_operators                                                         *)
(***************************************************************************)
Unsatisfied(s, F) == {f \in F : s[f[1]] # f[2]}

\* find_unsatisfied_condition: the conditions are sorted.
FirstUnsatisfied(s, F) ==
    CHOOSE f \in Unsatisfied(s, F) : \A g \in Unsatisfied(s, F) : f[1] <= g[1]

\* A set in the order of its members.
Ascending(S) ==
    [i \in 1..Cardinality(S) |-> CHOOSE o \in S : Cardinality({p \in S : p < o}) = i - 1]

New(ops) == ops \ stubborn

\* mark_as_stubborn for all of ops, in ascending order; ec also remembers
\* what the applicable ones write.
Mark(ops, queue) ==
    LET new == New(ops)
        written == UNION {WrittenBy(o) : o \in {p \in new : Applicable(state, p)}}
    IN  /\ stubborn' = stubborn \cup new
        /\ stubborn_queue' = queue \o Ascending(new)
        /\ written_vars' = IF variant = "ec" THEN written_vars \cup written ELSE written_vars

PruningInit ==
    /\ variant \in Variants
    /\ state = InitialState
    /\ stubborn = {}
    /\ stubborn_queue = <<>>
    /\ disabled_todo = <<>>
    /\ written_vars = {}
    /\ nes_computed = {}
    /\ stage = "idle"

\* Mutant: the necessary enabling sets of the last call count as computed.
KnownSets_Kept == nes_computed

\* Nothing is known of necessary enabling sets when a call begins.
KnownSets == {}

\* The search expands s: initialize_stubborn_set.
PruneOperators(s) ==
    LET goal == FirstUnsatisfied(s, Goal)
        achievers == IF variant = "ec" THEN Achievers(goal) \cap ActiveOps(s)
                     ELSE Achievers(goal)
    IN  /\ stage # "handle"
        /\ state' = s
        /\ stubborn' = achievers
        /\ stubborn_queue' = Ascending(achievers)
        /\ nes_computed' = KnownSets \cup (IF variant = "ec" THEN {goal} ELSE {})
        /\ written_vars' =
              IF variant = "ec"
              THEN UNION {WrittenBy(o) : o \in {p \in achievers : Applicable(s, p)}}
              ELSE {}
        /\ stage' = "handle"
        /\ UNCHANGED <<variant, disabled_todo>>

\* The stack is popped when no loop over disabled operators is under way.
Popping(v) == stage = "handle" /\ variant = v /\ stubborn_queue # <<>> /\ disabled_todo = <<>>
Popped == Last(stubborn_queue)

Rest == Front(stubborn_queue)

\* Achievers of effect conditions that do not hold.
Enabled(o) == UNION {Achievers(f) : f \in Unsatisfied(state, EffectConditions(o))}

\* StubbornSetsSimple::handle_stubborn_operator.  The code marks operators that
\* interfere first, then the achievers of one condition after the other; all
\* of them are marked before the next pop, and their order on the stack makes
\* no difference to the set reached in the end.
HandleSimple ==
    /\ Popping("simple")
    /\ IF Applicable(state, Popped)
       THEN Mark(Interfering(Popped) \cup Enabled(Popped), Rest)
       ELSE Mark(Achievers(FirstUnsatisfied(state, Pre[Popped])), Rest)
    /\ UNCHANGED <<variant, state, disabled_todo, nes_computed, stage>>

\* apply_s5: a necessary enabling set for an unsatisfied precondition of o,
\* one on a variable that is written if possible.
ApplyS5(o, queue) ==
    LET violated == Unsatisfied(state, Pre[o])
        written == {f \in violated : f[1] \in written_vars}
        fact == FirstUnsatisfied(state, IF written = {} THEN violated ELSE written)
    IN  IF fact \in nes_computed
        THEN /\ stubborn_queue' = queue
             /\ UNCHANGED <<stubborn, written_vars, nes_computed>>
        ELSE /\ Mark(Achievers(fact) \cap ActiveOps(state), queue)
             /\ nes_computed' = nes_computed \cup {fact}

\* StubbornSetsEC::handle_stubborn_operator, rules S2 and S3
HandleApplicable ==
    /\ Popping("ec")
    /\ Applicable(state, Popped)
    /\ Mark(ConflictingAndDisabling(Popped) \cap ActiveOps(state), Rest)
    /\ disabled_todo' = [i \in 1..Cardinality(Disabled(Popped) \cap ActiveOps(state)) |->
                            <<Popped, Ascending(Disabled(Popped) \cap ActiveOps(state))[i]>>]
    /\ UNCHANGED <<variant, state, nes_computed, stage>>

\* rule S5
HandleInapplicable ==
    /\ Popping("ec")
    /\ ~Applicable(state, Popped)
    /\ ApplyS5(Popped, Rest)
    /\ UNCHANGED <<variant, state, disabled_todo, stage>>

\* get_disabled_vars
DisabledVars(o, p) == ConflictingVars(Effects[o], Listed(Pre[p]))

\* is_v_applicable
IsVApplicable(v, o) == \A f \in Pre[o] : f[1] = v => state[v] = f[2]

\* rule S4': one operator p that is disabled by the one popped last
HandleDisabled ==
    /\ stage = "handle"
    /\ disabled_todo # <<>>
    /\ LET o == Head(disabled_todo)[1]
           p == Head(disabled_todo)[2]
       IN  IF \E v \in DisabledVars(o, p) : IsVApplicable(v, p)
           THEN Mark({p}, stubborn_queue) /\ UNCHANGED nes_computed
           ELSE ApplyS5(p, stubborn_queue)
    /\ disabled_todo' = Tail(disabled_todo)
    /\ UNCHANGED <<variant, state, stage>>

\* The fixpoint has been reached.
SetComplete ==
    /\ stage = "handle"
    /\ stubborn_queue = <<>>
    /\ disabled_todo = <<>>
    /\ stage' = "pruned"
    /\ UNCHANGED <<variant, state, stubborn, stubborn_queue, disabled_todo, written_vars,
                   nes_computed>>

\* op_ids after the call
Remaining == {o \in Op : Applicable(state, o) /\ o \in stubborn}

Handle == HandleSimple \/ HandleApplicable \/ HandleInapplicable \/ HandleDisabled \/ SetComplete

PruningNext == Handle \/ \E s \in Reachable \ GoalStates : PruneOperators(s)

PruningSpec == PruningInit /\ [][PruningNext]_pruning_vars /\ WF_pruning_vars(Handle)

-----------------------------------------------------------------------------
(***************************************************************************)
(* Properties                                                              *)
(***************************************************************************)

\* The cost and, second, the number of steps of cheapest plans.
Steps == 100
PlanLength == ShortestPaths(State, {<<a[1], a[2], Steps * a[3] + 1>> : a \in RealArcs}, GoalStates)

\* "completeness and optimality of the overall search is preserved": one of
\* the remaining operators starts a cheapest plan with the fewest steps.
KeepsAPlan ==
    stage = "pruned" /\ PlanLength[state] # Infty =>
        \E o \in Remaining :
            PlanLength[state] = Plus(Steps * Cost[o] + 1, PlanLength[Result(state, o)])

\* Without the operators in the set no goal can be reached: it contains a
\* disjunctive action landmark.
EveryPlanMeetsTheSet ==
    stage = "pruned" =>
        ShortestPaths(State, {<<p[1], Result(p[1], p[2]), 1>> :
                                 p \in {q \in State \X (Op \ stubborn) : Applicable(q[1], q[2])}},
                      GoalStates)[state] = Infty

\* A remaining operator commutes with the applicable ones left out: it can be
\* moved to the front of a plan.
CommutesWithRest ==
    stage = "pruned" =>
        \A o \in Remaining, p \in Op \ stubborn :
            Applicable(state, p) =>
                /\ Applicable(Result(state, p), o) /\ Applicable(Result(state, o), p)
                /\ Result(Result(state, p), o) = Result(Result(state, o), p)

=============================================================================
