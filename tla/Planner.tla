------------------------------ MODULE Planner -------------------------------
(***************************************************************************)
(* The search component as a process: main of planner.cc, the loop of      *)
(* SearchEngine::search with its timer, IteratedSearch (one engine after   *)
(* the other, the bound passed on) and save_plan, which writes the plans.  *)
(*                                                                         *)
(* What one engine does with one bound is a fixed outcome, because the     *)
(* engines are deterministic: a plan cheaper than the bound (BoundRespected *)
(* in EagerSearch_proofs), nothing, or the exit of enforced hill-climbing, *)
(* the heuristic of which takes the initial state for a dead end, rightly  *)
(* or not.  The model ranges over all such outcomes.                       *)
(***************************************************************************)
EXTENDS Integers

CONSTANTS
    Infinity,            \* numeric_limits<int>::max()
    MaxPlans,            \* the highest plan number, a bound of the model
    NumEngines,          \* engine_configs.size()
    SearchOptions,       \* the combinations of options considered
    InitiallyGoal,       \* test_goal holds in the initial state
    MayGiveUp            \* some engine's heuristic has unreliable dead ends

OptionName == {"iterated", "pass_bound", "repeat_last", "continue_on_fail",
               "continue_on_solve", "max_time"}

\* iterated(...) with its options, or a single engine; max_time may be set.
Options ==
    {o \in [OptionName -> BOOLEAN] :
        o.iterated \/ \A n \in OptionName \ {"max_time"} : ~o[n]}

ASSUME PlannerAssumption ==
    /\ Infinity \in Nat
    /\ MaxPlans \in Nat
    /\ NumEngines \in Nat \ {0}
    /\ SearchOptions \subseteq Options
    /\ InitiallyGoal \in BOOLEAN /\ MayGiveUp \in BOOLEAN

VARIABLES
    plans,               \* the costs of the plans of the task
    outcome,             \* what each engine finds below each bound
    options,             \* the options of the search, never changed
    best_bound,          \* IteratedSearch::best_bound, the bound of the engine
    phase,               \* IteratedSearch::phase
    last_phase_found_solution,
    iterated_found_solution,
    solution_found,      \* SearchEngine::solution_found
    plan,                \* the cost of SearchEngine::plan
    status,              \* SearchEngine::status
    pc,                  \* where the process is
    first,               \* the argument of --internal-previous-portfolio-plans
    counter,             \* g_num_previously_generated_plans
    files,               \* the numbered plan files
    writing,             \* the plan save_plan is writing, or NoCost
    exitcode             \* "running" or the exit code of the process

search_vars == <<phase, last_phase_found_solution, iterated_found_solution>>
file_vars == <<counter, files, writing>>
task_vars == <<plans, outcome, options>>
vars == <<task_vars, best_bound, search_vars, solution_found, plan,
          status, pc, first, file_vars, exitcode>>

NoCost == -1
Unsolvable == -2
GivesUp == -3
Incomplete == -1
Absent == -2
PlanCost == 0 .. (Infinity - 1)
BoundValue == 0 .. Infinity
PlanNumber == 1 .. MaxPlans
Engine == 1 .. NumEngines

\* The costs of the plans an engine may find below bound b.  An engine that
\* starts in a goal state returns the empty plan before it looks at b.
Findable(p, b) ==
    IF InitiallyGoal THEN {0}
    ELSE {c \in p : c < b} \cup {NoCost}
                           \cup (IF p = {} THEN {Unsolvable} ELSE {})
                           \cup (IF MayGiveUp THEN {GivesUp} ELSE {})

\* An engine that leaves the process does so before it looks at the bound.
Exits(f) ==
    \A b, c \in BoundValue : f[b] \in {Unsolvable, GivesUp} => f[c] = f[b]

Init ==
    /\ plans \in SUBSET PlanCost
    /\ InitiallyGoal => 0 \in plans
    /\ outcome \in [Engine ->
          {f \in [BoundValue -> Findable(plans, Infinity)] :
              Exits(f) /\ \A b \in BoundValue : f[b] \in Findable(plans, b)}]
    /\ options \in SearchOptions
    /\ best_bound \in BoundValue
    /\ phase = 0
    /\ last_phase_found_solution = FALSE
    /\ iterated_found_solution = FALSE
    /\ solution_found = FALSE
    /\ plan = NoCost
    /\ status = "IN_PROGRESS"
    /\ pc = "step"
    /\ first \in {0, 1}
    /\ counter = first
    /\ files = [n \in PlanNumber |-> Absent]
    /\ writing = NoCost
    /\ exitcode = "running"

-----------------------------------------------------------------------------
\* create_phase returns nullptr.
NoMoreEngines ==
    phase >= NumEngines /\ ~(options.repeat_last /\ last_phase_found_solution)

\* What the engine of this phase does with the bound it is given.
Result ==
    LET e == IF phase < NumEngines THEN phase + 1 ELSE NumEngines
        b == IF options.iterated /\ ~options.pass_bound THEN Infinity
             ELSE best_bound
    IN outcome[e][b]

\* The phase is only compared with NumEngines, where the model stops counting.
NextPhase == IF phase < NumEngines THEN phase + 1 ELSE phase

StepReturnValue(found, ever_found) ==
    IF found THEN IF options.continue_on_solve THEN "IN_PROGRESS" ELSE "SOLVED"
    ELSE IF options.continue_on_fail THEN "IN_PROGRESS"
    ELSE IF ever_found THEN "SOLVED" ELSE "FAILED"

Running(label) == exitcode = "running" /\ pc = label

\* IteratedSearch::step without an engine left.
StepWithoutEngine ==
    /\ Running("step") /\ options.iterated /\ NoMoreEngines
    /\ status' = IF solution_found THEN "SOLVED" ELSE "FAILED"
    /\ pc' = "timer"
    /\ UNCHANGED <<task_vars, best_bound, search_vars, solution_found,
                   plan, first, file_vars, exitcode>>

IsImprovement(c) == c < best_bound

\* IteratedSearch::step runs an engine that finds nothing worth saving.
StepWithoutPlan ==
    /\ Running("step") /\ options.iterated /\ ~NoMoreEngines
    /\ Result \notin {Unsolvable, GivesUp}
    /\ ~(Result # NoCost /\ IsImprovement(Result))
    /\ phase' = NextPhase
    /\ last_phase_found_solution' = (Result # NoCost)
    /\ iterated_found_solution' = (iterated_found_solution \/ Result # NoCost)
    /\ status' = StepReturnValue(Result # NoCost, iterated_found_solution')
    /\ pc' = "timer"
    /\ UNCHANGED <<task_vars, best_bound, solution_found, plan, first,
                   file_vars, exitcode>>

\* Mutant: the number of the plan is the number of the phase.
PlanFileNumber_OfPhase == first + phase + 1

\* save_plan opens the file of the next plan.
PlanFileNumber == counter + 1

OpenPlanFile(c) ==
    /\ PlanFileNumber \in PlanNumber
    /\ files' = [files EXCEPT ![PlanFileNumber] = Incomplete]
    /\ writing' = c
    /\ UNCHANGED counter

\* IteratedSearch::step runs an engine that finds a plan to save.
StepWithPlan ==
    /\ Running("step") /\ options.iterated /\ ~NoMoreEngines
    /\ Result \notin {NoCost, Unsolvable, GivesUp}
    /\ IsImprovement(Result)
    /\ OpenPlanFile(Result)
    /\ pc' = "save"
    /\ UNCHANGED <<task_vars, best_bound, search_vars, solution_found,
                   plan, status, first, exitcode>>

ClosePlanFile ==
    /\ files' = [files EXCEPT ![PlanFileNumber] = writing]
    /\ counter' = counter + 1
    /\ writing' = NoCost

\* Mutant: the bound of the next engine stays what it was.
NextBound_Unchanged == best_bound

NextBound == writing

\* The rest of that step, when save_plan has written the plan.
StepAfterSaving ==
    /\ Running("save") /\ options.iterated
    /\ ClosePlanFile
    /\ best_bound' = NextBound
    /\ solution_found' = TRUE
    /\ plan' = writing
    /\ phase' = NextPhase
    /\ last_phase_found_solution' = TRUE
    /\ iterated_found_solution' = TRUE
    /\ status' = StepReturnValue(TRUE, TRUE)
    /\ pc' = "timer"
    /\ UNCHANGED <<task_vars, first, exitcode>>

-----------------------------------------------------------------------------
\* A single engine: all its steps, with or without a plan; when it has a
\* time limit it may run into it before it gets as far as it would.
SingleEngine ==
    /\ Running("step") /\ ~options.iterated
    /\ Result \notin {Unsolvable, GivesUp}
    /\ \/ /\ Result # NoCost
          /\ status' = "SOLVED"
          /\ solution_found' = TRUE
          /\ plan' = Result
       \/ /\ Result = NoCost
          /\ status' = "FAILED"
          /\ UNCHANGED <<solution_found, plan>>
       \/ /\ options.max_time
          /\ UNCHANGED <<status, solution_found, plan>>
    /\ pc' = "timer"
    /\ UNCHANGED <<task_vars, best_bound, search_vars, first, file_vars,
                   exitcode>>

\* enforced hill-climbing leaves the process when its heuristic takes the
\* initial state for a dead end, with a code that says whether it is reliable.
EngineExits ==
    /\ Running("step") /\ (options.iterated => ~NoMoreEngines)
    /\ Result \in {Unsolvable, GivesUp}
    /\ exitcode' = IF Result = Unsolvable THEN "UNSOLVABLE"
                                          ELSE "UNSOLVED_INCOMPLETE"
    /\ UNCHANGED <<task_vars, best_bound, search_vars, solution_found,
                   plan, status, pc, first, file_vars>>

\* SearchEngine::search looks at the timer after every step.
TimerExpired ==
    /\ Running("timer") /\ options.max_time
    /\ status' = "TIMEOUT"
    /\ pc' = "finish"
    /\ UNCHANGED <<task_vars, best_bound, search_vars, solution_found,
                   plan, first, file_vars, exitcode>>

TimerNotExpired ==
    /\ Running("timer")
    /\ ~options.iterated => status # "IN_PROGRESS"
    /\ pc' = IF status = "IN_PROGRESS" THEN "step" ELSE "finish"
    /\ UNCHANGED <<task_vars, best_bound, search_vars, solution_found,
                   plan, status, first, file_vars, exitcode>>

\* main calls save_plan_if_necessary, which iterated search leaves empty ...
SavePlanIfNecessary ==
    /\ Running("finish")
    /\ IF ~options.iterated /\ solution_found
       THEN OpenPlanFile(plan) /\ pc' = "save"
       ELSE UNCHANGED file_vars /\ pc' = "exit"
    /\ UNCHANGED <<task_vars, best_bound, search_vars, solution_found,
                   plan, status, first, exitcode>>

FinishPlanFile ==
    /\ Running("save") /\ ~options.iterated
    /\ ClosePlanFile
    /\ best_bound' = writing
    /\ pc' = "exit"
    /\ UNCHANGED <<task_vars, search_vars, solution_found, plan, status,
                   first, exitcode>>

\* Mutant: the process reports what the search has returned.
ExitOfMain_ByStatus == IF status = "SOLVED" THEN "PLAN_FOUND" ELSE "UNSOLVED_INCOMPLETE"

\* ... and then leaves the process with what found_solution says.
ExitOfMain == IF solution_found THEN "PLAN_FOUND" ELSE "UNSOLVED_INCOMPLETE"

ExitProcess ==
    /\ Running("exit")
    /\ exitcode' = ExitOfMain
    /\ UNCHANGED <<task_vars, best_bound, search_vars, solution_found,
                   plan, status, pc, first, file_vars>>

\* The process runs into a limit: set_new_handler turns a failed allocation
\* into an exit, the signal handler raises SIGXCPU again, the hard limit and
\* the system kill it outright.
Killed ==
    /\ exitcode = "running"
    /\ exitcode' \in {"SIGXCPU", "OUT_OF_MEMORY", "SIGKILL"}
    /\ UNCHANGED <<task_vars, best_bound, search_vars, solution_found,
                   plan, status, pc, first, file_vars>>

\* Nothing happens any more once the process is gone.
Exited == exitcode # "running" /\ UNCHANGED vars

Step ==
    \/ StepWithoutEngine \/ StepWithoutPlan \/ StepWithPlan \/ StepAfterSaving
    \/ SingleEngine \/ EngineExits \/ TimerExpired \/ TimerNotExpired
    \/ SavePlanIfNecessary \/ FinishPlanFile \/ ExitProcess

Next == Step \/ Killed \/ Exited

\* The process is scheduled; it may be killed but need not be.
Spec == Init /\ [][Next]_vars /\ WF_vars(Step)

-----------------------------------------------------------------------------

\* step() reports SOLVED exactly if there is a plan: the phases that found
\* one (iterated_found_solution) and the plans saved (solution_found) agree.
\* When main ends the process itself, its code says whether a plan was written,
\* also if the timer has expired in the step that found it, and the status is
\* neither.
SolvedMeansPlan ==
    pc \in {"finish", "exit"} =>
       /\ status = "SOLVED" => solution_found
       /\ status = "FAILED" => ~solution_found
       /\ exitcode \in {"PLAN_FOUND", "UNSOLVED_INCOMPLETE"} =>
             (exitcode = "PLAN_FOUND" <=> first < counter)

\* The process ends, although it may repeat its last engine any number of
\* times and nothing kills it.
Terminates == <>(exitcode # "running")

\* The process keeps what AnytimePlanner promises to a portfolio.
Promise == INSTANCE AnytimePlanner WITH bound <- best_bound
ImplementsAnytimePlanner == Promise!PlannerSpec
=============================================================================
