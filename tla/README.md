# Delfi and Fast Downward: models, model checking and proofs

The repository holds the planner *Delfi* of the International Planning
Competition 2018. `plan-ipc.py` turns a planning task into an image and lets a
neural network choose one of several planners. All but one of these are
configurations of *Fast Downward*, which makes up the rest of `src/`: a
translator, a preprocessor, a search component (C++) and a driver (Python)
that runs them, alone or as a portfolio. This directory holds TLA+ models of
the parts whose behaviour is hard to test, TLC configurations for small
instances, and TLAPS proofs for all instances.

Paths below are relative to the root of the repository; in the modules and in
`PROJECT.json` they are prefixed with one more `src/`, the directory it is in.

## 1. The system

| Component | State it keeps | Operations | Talks to | What is hard | What makes it correct |
|---|---|---|---|---|---|
| Eager search (`src/search/search_engines/eager_search.cc`) | one node per state (`SearchSpace`), open list, pruning switch | `initialize`, `step`, `fetch_next_node` | heuristics, open list, pruning, `SearchSpace` | lazy deletion, reopening, parents that change while `g` of the descendants does not, zero costs, two cost functions | optimality of A\*, no plan at or above the bound, no false "unsolvable", termination |
| Lazy search (`lazy_search.cc`) | nodes, open list of edges, the edge being followed | `step`, `fetch_next_state`, `generate_successors` | the same | an edge is tested when it is queued and followed later | no edge is lost |
| Enforced hill-climbing (`enforced_hill_climbing_search.cc`) | nodes that outlive the phase, open list that does not | `initialize`, `step`, `expand`, `ehc` | the same, preferred operators; may leave the process | what is forgotten between two phases | exactly one open node is handed over; costs are exact |
| Search engine base, plan saving (`search_engine.cc`, `search_space.cc`, `globals.cc`) | plan, status, number of the next plan file | `search`, `check_goal_and_set_plan`, `trace_path`, `save_plan` | engines, `main`, plan files | timer after a step, global plan counter, kill while writing | the exit code tells whether a plan was written |
| Iterated search (`iterated_search.cc`) | phase, best bound, what was found | `create_phase`, `step`, `step_return_value` | one engine after the other | engine fails, exits the process or repeats itself | it ends, and reports what was found |
| Plan manager (`driver/plan_manager.py`) | costs of the plans recorded | `delete_existing_plans`, `process_new_plans` | numbered plan files, portfolio runner | truncated files, files of earlier runs | files and record agree |
| Portfolio runner (`driver/portfolio_runner.py`, `limits.py`, `returncodes.py`) | rounds, cost type, exit codes, elapsed time | `run_sat`, `compute_run_time`, `generate_portfolio_exitcode` | planner processes with CPU limits | processes that are killed or late, restarts, rounding | plans are kept, time limit holds, exit code is justified |
| Structural symmetries (`structural_symmetries/group.cc`, `permutation.cc`, `search_space.cc`, `state_registry.cc`) | generators, nodes of canonical states (OSS) or of states found again up to symmetry (DKS) | `get_canonical_representative`, `insert_id_or_pop_state_dks`, `trace_path_with_symmetries` | eager search, two state registries | representatives are local minima and not unique; the path has to be turned around and permuted back; IDs of two registries | the plan starts in the real initial state and is cheapest |
| Merge-and-shrink (`merge_and_shrink/`) | factors with distances and lookup tables, labels | `build`: create, reduce labels, shrink, merge, prune | timer, merge strategy, shrink strategy | labels reduced while factors refer to them, distances carried over abstractions, pruned states, time limit between any two steps | factors are abstractions of the task, the heuristic is admissible, perfect where claimed |
| Stubborn sets (`pruning/stubborn_sets*.cc`) | marks and a stack that outlive the state they were computed for | `prune_operators` | eager search | enabling sets, interference, conditional effects | a cheapest plan is kept |
| LM-cut (`heuristics/ce_lm_cut_landmarks.cc`) | propositions and groups of relaxed operators reused from call to call | `compute_landmarks` | searches configured with `celmcut` | h^max updated incrementally after each cut, operators that share a cost | cuts are landmarks, the estimate is admissible |
| Delfi (`plan-ipc.py`, `driver/main.py`) | files with fixed names | graph, image, selection, planner, fallback | processes with time limits | processes that outlive their time limit and share files with those that follow, files of other tasks | the network is asked about this task, the plan is of this task, it ends |

The LM-cut modelled is `celmcut`, which accepts conditional effects and is the one
that Delfi's configurations and its fallback planner use (`selector.py:14`,
`selector.py:23`, `plan-ipc.py:15`). `lmcut` (`heuristics/lm_cut_landmarks.cc`) is
the original without conditional effects: the same algorithm on groups of one
relaxed operator each.

Interactions: the driver starts the search component as a process with CPU and
memory limits and knows of it only its exit code and its numbered plan files.
Inside the process `main` calls `search()`, which calls `step()` of an engine
until it stops returning `IN_PROGRESS`; iterated search is such an engine and
calls others. `plan-ipc.py` starts the driver and two scripts as processes.
Everything is sequential within a process; concurrency comes from processes
that are killed, outlive their parents or share files.

Not modelled in this development: `PROJECT.json` lists the remaining components
(translator, preprocessor, SymBA\*, other heuristics, landmarks, CEGAR, pattern
databases, open lists of satisficing configurations, option parser, state
packing, the network) with the reason. Vendored code (Bliss, `ext`), experiments and build
files are left aside. `hazards` in `PROJECT.json` lists the places in the code
that are hard to test, with the property that covers each, or why none does.

## 2. Modules

```
PlanningTask ─┬─ SearchEngine ─┬─ EagerSearch ── EagerSearch_proofs
 (state space,│ (nodes, trace) ├─ LazySearch ── LazySearch_proofs
  costs)      │       │        └─ EnforcedHillClimbing ── EnforcedHillClimbing_proofs
              │       └─ refines LabelCorrecting
              └─ SymmetrySearch ── SymmetrySearch_proofs
CheapestPaths ── FiniteDomainTask ─┬─ MergeAndShrink ─┐
                  (variables,      ├─ StubbornSets ───┴─ FiniteDomainTask_proofs
                   operators)      └─ LandmarkCut ── LandmarkCut_proofs
Planner ── Planner_proofs
   └─ refines AnytimePlanner ── PlanManager ─┐
                               DriverLimits ─┴─ SatPortfolio ─┬─ Drivers_proofs
                                                       Delfi ─┘
ExampleTasks, MC*: instances for TLC
```

**PlanningTask** reduces a grounded task to its state space: `Applicable` and
`Result` stand for successor generator and state registry. `Solvable`, `Dist`
and `Rank` are the ground truth the properties compare with; the planner never
reads them, and `DistanceAssumption` characterises them.

**SearchEngine** has the fields of a search node, the way they are set
(`SearchNode::open`, `reopen`, `update_parent`) and the trace of a plan along
the parent pointers (one pointer a step).

**EagerSearch** cuts `step()` at three kinds of points: `Fetch` (an entry leaves
the open list and its node is closed, up to the loop over the operators),
`Expand` (one iteration of that loop) and `Trace`. Each `continue` of the loop
is a disjunct of `Nothing`; the branches are `NewDeadEnd`, `OpenNew`,
`ReopenNode`, `UpdateParent`. Operators come in any order, ties of the open
list are broken arbitrarily, and pruning may switch itself off whenever
`num_por_probes` expansions have passed.

**LazySearch** and **EnforcedHillClimbing** follow `step()` the same way. The
latter has two loops: `step()` expands the current state, `ehc()` takes entries
until a better state is found (`NextPhase`). With `prune_by_preferred` any set of
applicable operators may be the preferred ones.

**SymmetrySearch** is eager search with the branches for orbit space search and
DKS. States are numbers in the order of `replace_if_less`, a generator is the
permutation of the states it induces, and what Bliss guarantees of it is the
assumption `IsAutomorphism`. `ToCanonical` applies generators as long as one of
them makes the state smaller; `TraceBack`, `ReversePermutation` with `RealState`,
and `Rebuild` are the loops of `trace_path_with_symmetries`. A state ID is a position in a
registry; `mixed` records that IDs of the two registries were compared and
happened to be equal.

**FiniteDomainTask** is a task in finite-domain representation as heuristics see
it, with conditional effects; `RealDistance` and `RealArcs` are the truth,
computed with **CheapestPaths**, whose `Infty` is a constant that is no number;
`AtMost` and `Plus` compare and add distances with it above every number.

**MergeAndShrink** follows `build()`: creation of the atomic factors
(`fts_factory.cc`, with the loop over the variables that a time limit ends), then
rounds of picking two factors, label reduction before shrinking or merging,
shrinking, merging and pruning. The merge strategy picks any pair;
`shrink_bisimulation` may compute any partition that joins no states of different
goal distances and keeps the size limit, or that by goal distances alone, which
may exceed it; `shrink_random` any partition of the target size. A
label is the set of operators it stands for, an abstract state carries the name
of a state it was made from. The timer may strike at every check (`late`).

**StubbornSets** computes the set for one state after the other, a pop from the
stack being a step. Two operators are compared as the code does it, by walking
through two sorted lists of facts side by side: `Places` are the places of a fact
among those on its variable, and `ConflictingVars` compares place by place
(`contain_conflicting_fact`, `get_conflicting_vars`), which is not the same as
comparing each with each. **LandmarkCut** has one action for each loop iteration of
the first and second exploration, the reduction of costs and the incremental
update; ties and queue orders are open. An operator has one relaxed operator for
all its unconditional effects and one for each conditional effect; they are
records with their `group`, and `cost` belongs to the group: a cut lowers it once
per group (`CutGroups`), and all reached relaxed operators of the group offer their
effects again. Closures and h^max, with which the
properties compare the code, are recursive functions on the number of rounds.

**LabelCorrecting** is the abstract specification of all best-first engines: a
step changes no label or relaxes one edge. The label of a state is its `g`.

**Planner** is the search component as a process. What an engine does below a
bound is a fixed outcome (engines are deterministic), one of those that
`BoundRespected` of the search proofs allows. **AnytimePlanner** is what a
portfolio relies on: numbered files, one at a time, each cheaper than the bound
and the one before, and an exit code that tells whether a plan was written.

**PlanManager** runs its two loops file by file. **SatPortfolio** composes it
with one `AnytimePlanner` process and `run_sat`: `phase` is the program counter
of the generator, `rerun` says that the second call of `run_sat_config` is
under way (the switch to real costs), `final` that the final configuration runs.
Any of the portfolios in `Portfolios` is chosen at the start. The planner or the
driver may be killed at any step; `Restart` starts the driver once more in the
same directory.

**Delfi** models `plan-ipc.py` as processes that read a file when they start,
then open and complete another. A file is absent, partial, of this task
(`"right"`) or of another (`"wrong"`). When a time limit is reached the process
is killed, but not what it has started: the component becomes an orphan and
goes on writing, in particular a translator (`output.sas`) and the blind search
that the graph creation goes on with when Bliss has run out of memory (`blind`,
which writes `sas_plan` like every other search here). `mixed` records that
texts that differ have gone to one file at the same time; what is left in it may
then be complete or not, whoever closes it.

`PROJECT.json` (`map`) gives the lines of code each definition stands for.
Operators named `X_Y` are faulty variants of `X`; substituting one breaks the
properties listed with it under `mutants`.

## 3. Runs

| Run | Instance | Properties | Shows |
|---|---|---|---|
| `eager_astar` | 7 states, every admissible heuristic (consistent or not), A\* with reopening, bound 6, pruning | `NoParentCycle`, `ClosedNodesAreExpanded`, `SolvedIsOptimal`, `FailedIsUnsolvable`, `ImplementsLabelCorrecting`, `Terminates` | acyclic parents, nothing forgotten on the way, optimality, no false failure, label correction, termination |
| `eager_greedy_bound` | the same task, misleading heuristics, no reopening | `ParentsAreEdges`, `PlanWithinBound` | plans stay below the bound although parents change under their descendants |
| `lazy_wastar` | the same task, heuristics with plateaus, with and without reopening | `EdgesAreKept`, `PlanWithinBound`, `FailedIsUnsolvable` | no edge is lost, bound, completeness with reopening |
| `ehc` | the same task, `PLUSONE`, heuristics that may call the initial state or the trap a dead end, with and without preferred operators | `RealCostsAreExact`, `FailureIsExhaustive`, `PlanWithinBound` | exact real costs, bound, exhaustive failure |
| `planner` | two engines, costs 0–2, four combinations of options, kills | `SolvedMeansPlan`, `ImplementsAnytimePlanner`, `Terminates` | status and exit code tell of the plan, refinement of `AnytimePlanner`, end of iterated search |
| `sat_portfolio` | two configurations, with no final one, a final one or a builder; 3 plan files; one restart; 1.5 s in half seconds | `NothingBogus`, `FilesMatchRecord`, `ExitIsJustified`, `StopsInTime`, `PlansKept`, `Terminates` | record and files agree, no `RuntimeError`, exit code, time limit, plans survive crashes |
| `delfi` | lifted and grounded graph, empty and used directory | `SelectedForThisTask`, `PlanIsOfThisTask`, `DelfiTerminates` | image and plan are of this task, with the two exceptions of section 4; the script ends |
| `symmetry_search` | 11 states with three symmetric corridors, OSS and DKS, three lists of generators, heuristics that tell symmetric states apart | `ParentsLeadToOrbit`, `PlanIsCheapest`, `OperatorsAreFound` | the plan rebuilt is one of the real task and cheapest, unless IDs were mixed |
| `symmetry_ids` | the same | `IDsAreNotMixed` (**violated**) | IDs of two registries are compared |
| `merge_and_shrink` | 3 variables, 8 operators, five configurations, every merge order, partition and time limit | `Homomorphism`, `DistancesAreCurrent`, `HeuristicIsAdmissible`, `HeuristicIsPerfect`, `FixpointReached` | factors are abstractions, distances carried over are right, admissible and consistent heuristic, perfect with exact bisimulation |
| `stubborn_sets` | 5 variables, 8 operators, both variants, conditional effects, two of them on one variable and one that has to be enabled | `KeepsAPlan`, `EveryPlanMeetsTheSet`, `CommutesWithRest` | pruning keeps a cheapest plan of fewest steps |
| `landmark_cut` | 3 variables, 6 operators, two cost functions, two calls or more on any state | `HMaxIsExact`, `CutIsLandmark`, `EstimateIsBounded` | incremental h^max, landmarks, bounds of the estimate |

**Why these bounds.** The first task has two paths of different length to the
states that matter, one of them through a state found later, so that closed
nodes are reopened; a cycle of cost zero, on which a comparison that is not
strict runs for ever; a dead-end region of two states; and its cheapest plan
costs 4 and the next one 5. With the bound 6 (`eager_astar`) both are below the
bound and optimality is not given; with 5 (lazy and greedy search) the cheapest
plan lies one below the bound and the other one on it. A run considers
all heuristics of its family, so no single choice hides a case. Three plan costs let two configurations improve a plan
twice; a third file is the one left behind incomplete. One restart is enough to
meet every state a killed run can leave, since `Init` also admits every
content earlier runs leave in the directory. Half seconds distinguish
rounding up from being on time; time is not counted beyond `MaxElapsed`.
The corridors of `symmetry_search` are left towards *another* corridor, so that
the cheap way to a state arrives in a state other than the one first reached;
with the rotation as the only generator an orbit has two representatives, with
two transpositions the order in which they are applied matters. The
configurations of `merge_and_shrink` have label reduction before shrinking and
merging, with two, all and all factors up to a fixpoint, size limits from none
to one that forces a shrink below the size bisimulation would keep, pruning of
unreachable and irrelevant states in all combinations that matter; the task has
a zero-cost label, a conditional effect on its own variable and a state no
plan leads from; `HeuristicIsPerfect` excludes operators with two effects on one
variable (section 4). The task of `stubborn_sets` has conflicts, independent operators, two conditional
effects of one operator on one variable, and an effect that another operator has
to enable, so that sets from one operator to all of them occur and a wrong choice
of what is enabled costs the cheapest plan. `stubborn_sets_ec` does not look for
operators that enable an effect (section 4), so the constraint
`EffectIsEnabled` ends a run of that variant at states in which this matters;
`stubborn_sets_simple` is asked about all states. `PlanLength` counts steps second, so that zero-cost operators
count. The one of `landmark_cut` has ties, zero-cost operators, one of them
never applicable, states without a plan, and two operators with effects under
several conditions, so that two relaxed operators of one group get into one cut,
and an operator has to be used twice at some states; the data of a call is what
the calls before it have left.
Bounds in guards are `MaxPlans` (plan files), `MaxCrashes` (restarts),
`MaxElapsed` (time); `expanded` stops at `NumPorProbes + 1` and `phase` of
iterated search at `NumEngines`, beyond which the code does not distinguish values.

**Fairness.** `WF_vars(Next)` in the engines: `search()` calls `step()` in a
loop, nothing else runs. Of `SymmetrySearch`, `MergeAndShrink`,
`StubbornSets` and `LandmarkCut` no liveness is claimed. In `Planner` only `Step` is fair, not `Killed`. In
`SatPortfolio` the driver is fair and a planner process ends sooner or later
(its CPU limit), with no assumption on what it writes or on restarts, which
`MaxCrashes` limits. In `Delfi` the script is fair (which includes that
time limits are enforced), and so is the end of the planner that is run at the
end, for which the script waits without a limit; graph and image creation need
not end by themselves, and orphans need not do anything.

## 4. Disagreements between code and documentation

One run is expected to be violated: `symmetry_ids`. `state_registry.h:45-46` says
that IDs of different registries must not be mixed, but with DKS
`search_space.cc:194` compares the ID of a state in its own registry with one of
the main registry. If the two are equal, the reconstruction goes on with the
identity and may end in "No operator is found!!!"; `symmetry_search` shows that it
does not otherwise.

More disagreements can be reproduced with configurations that are kept beside
the runs (`tlc -config <file> <module>` finds a violation, unless noted):

| Configuration, module | Property | Disagreement |
|---|---|---|
| `EagerPlusOneBound.cfg`, `MCEagerSearch` | `PlanWithinBound` | The test of the bound (`eager_search.cc:173`) uses the `real_g` of the expanded node; with `PLUSONE` an ancestor may be reopened later on a path that is cheaper after adjustment but dearer in fact (line 239), and the plan traced costs the bound or more. `search_engine.cc:126-127`: "Cutoffs are always performed according to the real cost, regardless of the cost_type parameter" |
| `PlannerTrivialTask.cfg`, `MCPlanner` | `Terminates` | `iterated_search.cc:39-43` does not repeat a last engine that failed, "since then this search would just behave the same way again"; in a task whose initial state is a goal an engine that succeeds does so, too, and is repeated for ever (line 46) |
| `DelfiFallsBack.cfg`, `Delfi` | `FallsBack` | `plan-ipc.py:81-83` promises that the fallback planner is run; an exception of the selection (line 98) is not caught |
| `StubbornSetsConditional.cfg`, `MCStubbornSets` | `KeepsAPlan` | An operator that changes the truth of an effect condition of another does not interfere with it (`stubborn_sets_simple.cc:69`), so that a cheapest plan can be pruned; the documentation (line 92) promises that "completeness and optimality of the overall search is preserved" |
| `StubbornSetsSwitch.cfg`, `MCStubbornSets` | `KeepsAPlan` | The walk through two sorted lists (`stubborn_sets.cc:15-32`) advances in both at equal facts and misses a conflict if a list has several facts on one variable, which `translate.py:316-333` writes for conditional effects; both variants prune the only plan, against the same promise |
| `StubbornSetsEnabling.cfg`, `MCStubbornSets` | `KeepsAPlan` | `stubborn_sets_ec.cc` has no counterpart of `stubborn_sets_simple.cc:71-81`: nothing that enables a conditional effect of an applicable operator is added, and a cheapest plan is pruned, against the promise of its own synopsis (`stubborn_sets_ec.cc:314-316`) |
| `MergeAndShrinkDistances.cfg`, `MCMergeAndShrink` | `ReadsComputedDistances` | `merge_and_shrink_heuristic.cc:441` reads distances that no option needs and nobody has computed; `distances.h:78` asserts that they are |
| `MergeAndShrinkCreation.cfg`, `MCMergeAndShrink` | `FactorsAreCreated` | a time limit that strikes before the first factor is created violates the assertion of `fts_factory.cc:400` |
| `MergeAndShrinkSwitch.cfg`, `MCMergeAndShrink` | `PerfectIfFactored` | `merge_and_shrink_heuristic.cc:773-779` excepts only tasks that are not factored from the claim that perfect shrinking makes perfect heuristics; for two effects of an operator on one variable whose conditions exclude each other, `fts_factory.cc:277-288` adds for each the loop of its not triggering, and the factor is nondeterministic all the same |
| `MergeAndShrinkConditional.cfg`, `MCMergeAndShrink` | none, it passes | conditions of effects on other variables: admissible, though not perfect |

Modelling brought up more, described here with their place:

- `run_opt` does not test whether time is left before it starts a configuration
  (`portfolio_runner.py:175`; `run_sat` does). When the time left is negative, so
  is the limit of the process, which the system takes for a huge one or refuses
  with a message (`limits.py:22-30`), although lines 211-212 say
  that the portfolio runs for at most *time* seconds. (Read from the code;
  `run_opt` is not modelled.)
- Lazy search has the same problem with `PLUSONE` and reopening as eager search:
  the bound is tested with the `real_g` of the moment of queueing
  (`lazy_search.cc:107`), the edge followed with a later one (line 133).
- `enforced_hill_climbing_search.cc:249` asserts `num_ehc_phases != 0`, but a search
  that starts in a goal state or fails in its first phase has counted none.
- `search_engine.cc:134-135` says timed-out searches are treated as failed. The
  timer is read after the step that set the plan, and `main` then exits with
  `EXIT_PLAN_FOUND` whatever the status (`TimerExpired`, `ExitOfMain`). The plan is
  not lost: `SolvedMeansPlan` says that the exit code of `main` tells of it.
- Enforced hill-climbing inside iterated search ends the process with
  `EXIT_UNSOLVED_INCOMPLETE` when its heuristic calls the initial state a dead
  end, although earlier engines have written plans (`EngineExits`).
- In a task whose initial state is a goal, a satisficing portfolio of two
  configurations raises "plan quality has not improved": every process writes
  the empty plan, whatever its bound. (`sat_portfolio` with `InitiallyGoal = TRUE`
  violates `NothingBogus`.)
- A driver that is interrupted while deleting old plans leaves a gap in their
  numbers, behind which the next driver deletes nothing. (`sat_portfolio` with
  `CrashWhileDeleting = TRUE` violates `FilesMatchRecord`.)
- `determine_and_run_planner` returns `True` without a plan, since `run_planner`
  drops the exit code (`plan-ipc.py:122`, docstring line 126).
- `group.cc:54-56` passes `dump_symmetry_graph` and
  `stop_after_symmetry_graph_creation` in the wrong order. Delfi sets both, so
  it does not notice.
- With `pass_bound` off, an engine of an iterated search may find a plan that is
  no better than the bound; it is not saved, but `step_return_value` reports
  `SOLVED` (`iterated_search.cc:75`, `PlansAreSaved` in the proofs). `main` asks
  `found_solution`, so that the exit code is right nevertheless.
- On the grounded graph, Bliss running out of memory lets the graph creation
  succeed without a graph; in a directory with files of an earlier run the
  script then takes an old graph. `SelectedForThisTask` leaves out this case: a
  grounded run with old files whose graph has not been replaced.
- If the blind search that follows such a failure outlives the time limit of the
  graph creation, it may save its plan in `sas_plan` while the planner that runs
  then saves its own, or deletes old plans. Both are plans of this task, but the
  file may end up truncated or mixed (`PlanIsShared`, the exception of
  `PlanIsOfThisTask`).

## 5. Proofs

All theorems hold for every value of the constants under the assumptions of the
modules (`TaskAssumption`, `DistanceAssumption`, `EngineAssumption`,
`SearchAssumption`, ...), which TLC evaluates in every run.

**EagerSearch_proofs.** The inductive invariant is `SearchInv`: types, `NodesOK`
(`g` and `real_g` of reached nodes are numbers below the bound; with `NORMAL`
costs they agree), `InitialStateOK`, `OpenNodesAreQueued`, `ParentsAreEdges`,
`ClosedNodesAreExpanded`, `ExpansionOK` and `TraceOK`. None of the properties is
inductive on its own: a closed node stays expanded only because parents are
edges and nodes only improve, and the queue is complete only because of what
`ExpansionOK` says about the operators still to do. The three branches that set
a parent are treated together (`Improves`). `SearchInvariant` gives
`TypeCorrect`, `QueueCorrect`, `ParentsCorrect`, `ClosedCorrect`. Further:

- `BoundRespected`: with `cost_type=NORMAL` and a bound above 0, plans cost less
  than the bound, with or without reopening. (`EagerPlusOneBound.cfg`
  shows that the assumption on the cost type is needed.)
- `FailureIsCorrect`: with a safe heuristic, plan-preserving pruning, reopening
  and `NORMAL` costs (`ExactSearch`) a failed search leaves no plan below the
  bound. The argument follows a cheapest plan from the initial state by `Rank`:
  the reached node of least rank on it cannot be closed, since its successor would
  be reached as well, so it is open, and the open list is not empty.
- `AstarIsOptimal`: A\* with an admissible, possibly inconsistent heuristic
  returns a cheapest plan. The invariant `TraceOptimal` adds that the path
  collected plus the `g` of the node reached is at most the distance; when the
  goal is fetched, some open node lies on a cheapest plan with a key no larger.
- `ParentsAreAcyclic`: strict improvement keeps the parent pointers acyclic even
  through operators of cost zero, so `trace_path` returns.
- `Refinement`: eager search implements label correction. `OnlyImprovements`:
  no `g` grows, dead ends stay, closed nodes are reopened only by cheaper paths.

- `LabelsAchievable`: a label never undercuts a feasible potential. Read through
  `Refinement`, no `g` of eager search promises a path cheaper than there is.

**SymmetrySearch_proofs.** The first part is about permutations: the
generators and their compositions are automorphisms and have inverses (`State`
is finite), `ToCanonical` ends in a state no generator makes smaller, and two
states with the same representative are mapped to each other by what
`create_permutation_from_state_to_state` composes. Representatives are local
minima and need not be unique in their orbit; nothing in the proof says they
are. `Inv` has four parts:

- `SearchInv` is the invariant of eager search up to symmetry: what the operator
  of a node makes of its parent has the node's canonical representative
  (`HasParent`), a successor of a closed node is reached *in its representative*
  with at most the `g` that leads through it (`Settled`, `ClosedOK`), and
  every open node has its entry.
- `TraceOK` follows `TraceBack`: each permutation collected maps the state of the
  trace to the successor of the next one.
- `PathOK` follows `Rebuild`: two neighbours of the trace, permuted back, are
  joined by an operator no dearer than the difference of their `g`. That the
  products of permutations written by the second loop fit together
  (`ReversePermutation`) is an induction over the trace.
- `FoundIsNearest`: with an admissible heuristic the goal node fetched has a `g`
  no larger than the distance of the initial state.

`ParentsAlwaysLeadToOrbit`, `OperatorsAreAlwaysFound` and `PlansAreValid` need no
assumption on the heuristic; the last two leave out only the case that equal IDs
of two registries were mistaken for one state (section 4). `PlansAreCheapest` and
`FailuresAreRight` follow a cheapest plan through the orbits: the reached orbit
of least `Rank` on it is open, since distance and rank are the same for all states
of an orbit. Both have the hypothesis `IsAdmissible`, which `Init` leaves open:
the heuristics the run enumerates satisfy it or not.

**EnforcedHillClimbing_proofs.** `EHCInv` adds to the properties that every
entry starts in a reached node and that only the current node is open.
`BoundRespected` holds here for every cost type, because a node keeps its first
parent. `FailuresAreExhaustive` needs `FailureInv`: within a phase, every edge out
of a state that has been expanded below the current one is still queued, or was
found to lead to a node or a dead end (`PhaseIsExplored`, `EdgeIsKept`). A phase
that ends well clears the open list and with it the promise, but the state it
hands over has no descendants yet.

**LazySearch_proofs.** `LazyInv` says of each edge where it is: in the open list
(`EntriesOK`: it has passed the test of the bound, and the node it starts in has
only improved since), being followed (`FollowingOK`), or followed: then its
target is a dead end or, with reopening, has a label no larger than it offers.
That none is lost (`EdgesAreKept`, theorem `NoEdgeIsLost`) is a conjunct of the
invariant. `BoundRespected`
needs `NORMAL` costs as in eager search. `FailureIsCorrect` assumes in addition a
safe heuristic: were there a plan below the bound, the reached state of least
`Rank` on a cheapest plan would have an edge to a state that is not reached at
its distance, and that edge would still be in the open list, which is empty.
`Refinement`: lazy search implements label correction, too.

**FiniteDomainTask_proofs** holds the proofs of merge-and-shrink and of stubborn
sets, which share the facts about cheapest paths.

*Merge-and-shrink.* `MSInv` consists of `LabelsOK` (labels are disjoint sets
of operators of one cost), `FactorsOK` (each active factor keeps the transitions
and goals of all states it has not pruned), `IndicesOK`, `SequenceOK` and
`CreationOK`. It is preserved by label reduction, any shrinking, merging and pruning, in any order and whenever the
time limit strikes (`FactorsAreAbstractions`); `Homomorphic` follows. 
The distances come next. `ShortestPaths` is a recursive function over the number of
states settled, so nothing can be proved about it by unfolding; a first part of
the module shows that the function exists for every number of turns (`Iteration`)
and that what has been settled after `n` turns are the nearest states, each at
its distance (`SettledOK`). The result is the *greatest potential*: 0 at the
targets, no arc cheaper than the difference of its ends, and at least any other
such function (`ShortestPathsFacts`). Everything else uses only this.

`DistanceInv` adds to `MSInv` that each factor is a finite transition system
(`FactorShape`) that carries its own distances (`DistancesOK`), that every operator
has a label, and that a pruned initial state has ended the construction. The two
places where the code does *not* compute distances anew are the reason for the
proof: `apply_abstraction` carries them over if they agree within each class, and a
label reduction leaves them alone. For the first, `Quotient` says what a map
between graphs must satisfy for distances to be kept, and `DeadStates` that what is
pruned is reached from nothing but what is pruned or infinitely far away; for
the second, a reduced factor has the same arcs (`ReducedArcs`).
`DistancesStayCurrent` follows.

`AdmissibleInv` adds `PruningIsSafe`: a state the search can meet that some factor
prunes has no plan, and all its successors are pruned, too. It is preserved
because a state is pruned for being unreachable in the factor, which no reachable
state is (`InitBound`), or for having an infinite goal distance in the factor, which
is a lower bound of the real one (`GoalBound`) and infinite for all that follows.
`AlwaysAdmissible` follows: admissible and consistent, with any options, whether
the construction was completed or cut off. The theorems about distances, here and below, have
the hypothesis `PrunedIsNoPair`: the name of the pruned state is none the product
gives to its states, pairs of names. In the code these are numbers, and
`PRUNED_STATE` is -1; the model value of the runs satisfies it.

`AlwaysPerfect` is the opposite direction: nothing is lost, either. No factor alone
says so before the last merge, so `PerfectInv` speaks of all of them together
(`ExactOK`): if each factor has a transition of a label from where it maps a
reachable state to a state from which it can reach a goal (`Alive`), one operator of the
label makes all of these transitions (`StepsExact`); and where all are in goal
states the task is (`GoalsExact`). Each operation preserves it. For shrinking and
pruning, one factor is replaced by another that does, in alive states, nothing the
first could not do (`Lifts`); that of a bisimulation is the matching transition,
that of pruning the transition itself, because what pruning puts together is
dead. A merge puts two transitions together, and a state of the product is alive
only if both are. A label reduction may mix up transitions, but only if all other
factors cannot tell the labels apart (`ReductionExact`). In the atomic factors it
holds if these are deterministic (`Deterministic`). `LateOK` says that nothing has been
left out for lack of time, and `DoneOK` that the factor extracted is the only one
or unsolvable. One factor with this property has the distances of the task
(`ExactDistance`): the least upper bound of the distances of the states a state
stands for is a potential of the factor.
The attempt to prove it corrected the model in two places: `IsBisimulation` has to
tell goal states apart, as `initialize_groups` does (a random partition need
not), and the condition on the task was too weak (`PerfectIfFactored`, section 4).

`AlwaysReachesFixpoint` is about the loop of `LabelReduction::reduce`, whose counter
of iterations without a reduction starts anew at 1, not at 0, and counts merged
factors. `FixpointInv` adds to `MSInv` that the factors of that many last
iterations have nothing to reduce (`IterationsOK`): the one just reduced has not,
because a reduction is idempotent (`ReductionExhausts`), and an iteration without one
changes nothing. When there are as many as factors, each factor has had its turn:
the order is a permutation of more indices than there are factors (`SizeOK`), and
what is left of it after skipping has a place for each (`SystemOrderCovers`).

*Stubborn sets.* `PruningInv` is about the state of one call. `KnownOK` says that
what is remembered of enabling sets and written variables is true of this state and
this set: with `stubborn_sets_ec` it lives in members that have to be reset by every
call. `Closed` says of an operator in the set, once it has been handled, that
everything its rule demands is there: the operators it interferes with, or, if
it is not applicable, a *necessary enabling set*, the achievers of a precondition
that does not hold (`HasEnablingSet`); an operator not handled yet is `Waiting` on
one of the stacks. The lemma `BringsKeeps` is used for every rule: marking more operators
closes one operator and loses nothing of what is known of the others. With
`ec`, achievers count only if they are active, that is, not cut off from the state
by the transition graph of a variable (`Usable`, `ReachableValuesFacts`).

`PlansMeetTheSet` follows without any hypothesis: along a path that avoids the set
no guarded fact ever becomes true (`StaysOutside`), and one of those is a goal.
For `RemainingCommutes` and `PlanKept` this is not enough, and the proof shows what is
missing, in two conditions that the code does not check (`InterferenceIsFound`):
- `ConflictsAreFound`: the walk through two sorted lists finds every conflict
  there is. It does if no operator has two effects on one variable
  (`OneEffectIsCompared`), and may not otherwise (`StubbornSetsSwitch.cfg`).
- `ConditionsAreSeparate`: an operator that changes the truth of an *effect
  condition* of another interferes with it (`StubbornSetsConditional.cfg` has one
  that does not).

The task of `stubborn_sets` does not satisfy the second one, so what the run
shows of it goes beyond the theorems. Under both conditions the
first operator of the set on a cheapest plan with the fewest steps can be moved to
the front step by step (`Exchange`, `BeginsBefore`). `TightArc` and `LengthFacts` say what
the two recursive distance functions give: an arc on which both decrease.
Of the assumptions of `MergeAndShrink` these proofs use only that `Infty` is no number,
as in the runs of both.

**LandmarkCut_proofs** cites a few lemmas of `FiniteDomainTask_proofs` about iterated
functions and finite chains. The theorems hold for every task, with or without
conditional effects, all cost functions and all sequences of calls; a call
begins with whatever the calls before it have left, and h^max is defined
independently of the code by value iteration, whose fixpoint is reached after as
many rounds as there are propositions (`Converges`, `HMaxFacts`). `LandmarkInv` says:
- `ValuesOK`: the values of propositions are never below h^max for the current
  costs. This survives a cut because costs only fall (`CheaperCosts`) and
  everything enqueued is an upper bound (`OfferIsUpper`).
- `SupportersOK`: an operator with a supporter has preconditions no dearer than
  the supporter and effects no dearer than it allows (`Supports`). The remembered cost of
  the supporter is its current value, or the supporter waits in the queue with the lower
  value (`IsPending`): this is what justifies that the update looks only at operators
  whose supporter is popped.
- `FirstOK`: the first exploration settles propositions in the order of their
  values and counts for each operator the preconditions not settled.
- Hence, when the queue is empty, the values are also a lower estimate and
  therefore exact (`ValueIsExact`): `HMaxStaysExact`.
- `SecondOK`: no operator leads out of the region before the goal zone unless it
  is in the cut or its supporter is still queued, and everything in the zone is as
  dear as the goal. With an empty queue, what can be reached
  without the cut is before the zone (`CutFacts`): `CutsAreLandmarks`. A cut
  operator costs something, since a free one would have pulled its supporter into
  the zone.
- `CostsOK`: the remaining costs of a relaxed plan, in which an operator is paid once
  for all its effects, have lost at least what the cuts have cost (`CostReduced`);
  nothing has been lost as long as the cuts cost nothing. If no operator has two
  relaxed operators that can be reached (`UsedInOneWay`, true of every task of
  `lmcut`), what the cuts have cost plus h^max of the remaining costs is at least
  h^max of the original costs, because the goal falls by at most the cost of the
  cut (`GoalFallsByM`): `EstimatesAreBounded`. Without that condition the goal
  can fall by several times the cost of a cut, when one operator is used for one
  effect after the other, and the estimate can be below h^max; it is admissible
  all the same, and 0 only for states with h^max 0.
`Infty` is a model value here as well.

**Planner_proofs.** `PlannerInv` follows a plan from memory to the file that is
counted (`PlanOK`), for any number of engines. `Refinement`: the search component
implements `AnytimePlanner`, provided that at least one plan may be written
(`MaxPlans # 0`). `SolvedCorrect` needs `PlansAreSaved`: an iterated search passes
the bound on or goes on to its last phase whatever happens; otherwise section 4
describes how `SOLVED` is reported for a plan that was not saved. The
configurations of the repository satisfy it.

**Drivers_proofs, first part.** `DriverInv` describes the plan files at every step of
every loop: contiguous and decreasing, equal to the record below the number the
loop has reached, and in between those of the running process. It needs
`UsualTask`: the initial state is not a goal and the driver is not killed while
it deletes old plans (section 4 shows why). `NeverBogus`, `FilesAreRecorded`,
`ExitJustified` and `PlansAreKept` follow.
`AlwaysStopsInTime` needs none of this and holds without `UsualTask`: `TimeInv`
says only what kind of values the loops work with. A process is started with its
share of the time left, and its own relative time is one of those the share is
divided by, so that the share is at most all that is left; rounding up adds less
than one second, and a process has one more to die. The sum of the relative times is a recursive function; that it
exists, and is at least each of its terms, is proved first (`SumsExist`, `Adds`).

**Drivers_proofs, second part.** `DelfiInv` follows the task through the files: what a step of the
script has read when it started (`GraphOK`, `ImageOK`, `PlannerOK`), what it has
written, and who else may be writing to the same file (`OrphanFacts`): an orphaned
graph creation writes a graph nobody reads any more, an orphaned translator
writes the same text as the present one, and only the blind search, which has no
part in anything before the plan, can mix two texts. From it follow
`SelectionCorrect` and `PlanCorrect`, each with the exception of section 4 and no
other.

**Only model-checked:** all liveness (fairness and `ENABLED` are out of reach of
the proof system).

## 6. What the models leave out

- Heuristic values are a function of the state: path-dependent (landmark)
  heuristics and the re-evaluation in `fetch_next_node` are not modelled.
  Preferred operators only occur in enforced hill-climbing, and one open list
  stands for the alternation of several.
- The search of Bliss for generators, and the registrations of permuted states in
  the last loop of `trace_path_with_symmetries` (the states themselves are there).
- Merge strategies (any choice of a pair stands for them), the way bisimulation
  computes its partition, `shrink_fh`, and `run_opt`.
- Relaxed operators of one operator with the same preconditions and effects count
  once in `LandmarkCut`; to handle one of them twice changes nothing.
- An effect that is listed twice with the same conditions counts once (in the
  sorted lists of `StubbornSets` it would have two places).
- Two texts that were written to one file at the same time are taken to be either
  the complete one or recognised as incomplete.
- The ratio below which stubborn sets switch themselves off occurs in
  `EagerSearch` only.
- Numbers are unbounded; the 30-bit `g` is a hazard without a property.
- I/O errors other than truncation by a kill, and memory limits other than as a
  way to die.
- A killed driver takes its planner process with it (the limits of a competition
  apply to the process group). Delfi's own time limits do not work that way and
  are modelled as they are.
- The image, the network and what the planners compute in `Delfi`.

## 7. Plan

Done in this order: eager search with its proofs, label correction, the process
level (`AnytimePlanner`, `Planner`), plan manager and satisficing portfolio with
proofs, lazy search, enforced hill-climbing with proofs, Delfi, symmetry search
with both reconstructions, merge-and-shrink with its proofs, stubborn sets,
LM-cut with conditional effects, the proofs about lazy search, the search process, Delfi and symmetry
search, and those about distances, admissibility, perfection and label reduction of
merge-and-shrink, about stubborn sets and about LM-cut.

Next, models:

1. Landmark status and multi-path dependence with the re-insertion in
   `fetch_next_node`; it extends `EagerSearch`.
2. Open lists (alternation with priorities and boosts, tie-breaking buckets).
3. Algorithms checked against reference definitions: h2 of the preprocessor,
   state packing, pattern databases, CEGAR.

Next, proofs: that a reopening never happens with a consistent heuristic.
