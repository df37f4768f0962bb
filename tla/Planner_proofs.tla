--------------------------- MODULE Planner_proofs ---------------------------
(***************************************************************************)
(* Proofs about Planner for any number of engines, any plan costs and any  *)
(* options: the search component keeps the promise a portfolio relies on,  *)
(* and its search reports SOLVED exactly if a plan has been saved.         *)
(***************************************************************************)
EXTENDS Planner, TLAPS

TypeOK ==
    /\ plans \in SUBSET PlanCost /\ (InitiallyGoal => 0 \in plans)
    /\ options \in Options /\ options \in SearchOptions
    /\ best_bound \in BoundValue
    /\ phase \in 0 .. NumEngines
    /\ solution_found \in BOOLEAN
    /\ iterated_found_solution \in BOOLEAN
    /\ first \in Nat /\ counter \in Nat /\ first <= counter
    /\ pc \in {"step", "timer", "save", "finish", "exit"}

\* What the engines find, and what they may find.
OutcomeOK ==
    \A e \in Engine : \A b \in BoundValue : outcome[e][b] \in Findable(plans, b)

WritesAPlan(c) ==
    c \in plans /\ (c < best_bound \/ (InitiallyGoal /\ c = 0))

\* Where the plan is that has been found: in memory, on its way to the file,
\* or in the file and counted.
PlanOK ==
    /\ pc = "save" => writing # NoCost
    /\ pc # "save" => writing = NoCost
    /\ first < counter => plans # {}
    /\ options.iterated => (solution_found <=> first < counter)
    /\ ~options.iterated =>
          /\ pc = "step" => ~solution_found
          /\ pc # "exit" => counter = first
          /\ pc = "exit" => (solution_found <=> first < counter)
          /\ pc \in {"timer", "finish", "save"} /\ solution_found =>
                WritesAPlan(plan)
          /\ pc = "save" => solution_found
    /\ exitcode = "running" /\ pc = "save" => writing \in plans

PlannerInv == TypeOK /\ OutcomeOK /\ PlanOK

-----------------------------------------------------------------------------
LEMMA PlannerInvInit == Init => PlannerInv
<1> SUFFICES ASSUME Init PROVE PlannerInv
  OBVIOUS
<1>1. TypeOK
  <2>1. /\ plans \in SUBSET PlanCost /\ options \in SearchOptions
        /\ options \in Options /\ best_bound \in BoundValue
    BY PlannerAssumption DEF Init
  <2>2. phase \in 0 .. NumEngines
    BY PlannerAssumption DEF Init
  <2>3. /\ first \in Nat /\ counter \in Nat /\ first <= counter
        /\ InitiallyGoal => 0 \in plans
        /\ pc = "step" /\ solution_found = FALSE /\ iterated_found_solution = FALSE
    BY DEF Init
  <2> QED
    BY <2>1, <2>2, <2>3 DEF TypeOK
<1>2. OutcomeOK
  BY DEF Init, OutcomeOK
<1>3. PlanOK
  BY DEF Init, PlanOK, WritesAPlan
<1> QED
  BY <1>1, <1>2, <1>3 DEF PlannerInv

\* What is found below some bound is found below any.
LEMMA FindableBelow ==
  ASSUME plans \in SUBSET PlanCost, NEW x, NEW c \in Findable(plans, x)
  PROVE  c \in Findable(plans, Infinity)
<1>1. CASE InitiallyGoal
  BY <1>1 DEF Findable
<1>2. CASE ~InitiallyGoal
  <2>1. c \in {d \in plans : d < x} => c \in {d \in plans : d < Infinity}
    BY PlannerAssumption DEF PlanCost
  <2> QED
    BY <1>2, <2>1, Zenon DEF Findable
<1> QED
  BY <1>1, <1>2

\* What the engine of the phase finds respects the bound it is given.
LEMMA ResultFacts ==
  ASSUME PlannerInv
  PROVE  /\ Result \in Findable(plans, Infinity)
         /\ ~options.iterated \/ options.pass_bound =>
               Result \in Findable(plans, best_bound)
<1> DEFINE e == IF phase < NumEngines THEN phase + 1 ELSE NumEngines
           b == IF options.iterated /\ ~options.pass_bound THEN Infinity ELSE best_bound
<1>1. /\ phase \in 0 .. NumEngines /\ best_bound \in 0 .. Infinity
      /\ NumEngines \in Nat \ {0} /\ Infinity \in Nat /\ plans \in SUBSET (0 .. (Infinity - 1))
  BY PlannerAssumption DEF PlannerInv, TypeOK, BoundValue, PlanCost
<1>2. e \in Engine /\ b \in BoundValue
  BY <1>1 DEF Engine, BoundValue
<1>3. Result = outcome[e][b]
  BY DEF Result
<1>4. Result \in Findable(plans, b)
  BY <1>2, <1>3, Zenon DEF PlannerInv, OutcomeOK
<1>5. Result \in Findable(plans, Infinity)
  BY <1>4, FindableBelow DEF PlannerInv, TypeOK
<1> QED
  BY <1>4, <1>5

LEMMA FoundFacts ==
  ASSUME PlannerInv
  PROVE  /\ Result \notin {NoCost, Unsolvable, GivesUp} => Result \in plans
         /\ Result = Unsolvable => plans = {}
         /\ Result = GivesUp => MayGiveUp
         /\ ~options.iterated /\ Result \notin {NoCost, Unsolvable, GivesUp} =>
               WritesAPlan(Result)
<1>1. /\ plans \in SUBSET (0 .. (Infinity - 1)) /\ Infinity \in Nat
      /\ InitiallyGoal => 0 \in plans
  BY PlannerAssumption DEF PlannerInv, TypeOK, PlanCost
<1>2. /\ Result \notin {-1, -2, -3} => Result \in plans
      /\ Result = -2 => plans = {}
      /\ Result = -3 => MayGiveUp
  BY <1>1, ResultFacts DEF Findable, NoCost, Unsolvable, GivesUp
<1>3. ASSUME ~options.iterated, Result \notin {-1, -2, -3}
      PROVE  WritesAPlan(Result)
  <2>1. Result \in Findable(plans, best_bound)
    BY <1>3, ResultFacts
  <2> QED
    BY <1>1, <1>2, <1>3, <2>1
    DEF Findable, NoCost, Unsolvable, GivesUp, WritesAPlan
<1> QED
  BY <1>2, <1>3 DEF NoCost, Unsolvable, GivesUp

-----------------------------------------------------------------------------
\* A step leaves alone what the engines find.
LEMMA SameTask ==
  ASSUME PlannerInv, UNCHANGED <<plans, outcome>>
  PROVE  OutcomeOK'
BY DEF PlannerInv, OutcomeOK, Findable

\* What a step of the process does to phase, found flags and bound.
LEMMA TypeNext ==
  ASSUME PlannerInv, [Next]_vars
  PROVE  TypeOK'
<1>1. /\ TypeOK /\ NumEngines \in Nat /\ Infinity \in Nat
  BY PlannerAssumption DEF PlannerInv
<1>2. NextPhase \in 0 .. NumEngines /\ counter + 1 \in Nat /\ first <= counter + 1
  BY <1>1, PlannerAssumption DEF NextPhase, TypeOK
<1>3. Running("save") => writing \in BoundValue
  <2>1. Running("save") => writing \in plans
    BY DEF PlannerInv, PlanOK, Running
  <2>2. plans \subseteq BoundValue
    BY <1>1 DEF TypeOK, PlanCost, BoundValue
  <2> QED
    BY <2>1, <2>2
<1>4. CASE StepWithoutEngine \/ SingleEngine \/ TimerExpired \/ TimerNotExpired
          \/ ExitProcess \/ EngineExits \/ Killed \/ UNCHANGED vars
  BY <1>1, <1>4 DEF StepWithoutEngine, SingleEngine, TimerExpired, TimerNotExpired,
     ExitProcess, EngineExits, Killed, vars, task_vars, search_vars, file_vars, TypeOK
<1>5. CASE StepWithoutPlan
  BY <1>1, <1>2, <1>5 DEF StepWithoutPlan, task_vars, file_vars, TypeOK
<1>6. CASE StepWithPlan \/ SavePlanIfNecessary
  BY <1>1, <1>6 DEF StepWithPlan, SavePlanIfNecessary, OpenPlanFile, task_vars,
     search_vars, file_vars, TypeOK
<1>7. CASE StepAfterSaving \/ FinishPlanFile
  <2>1. /\ best_bound' = writing /\ writing \in BoundValue /\ counter' = counter + 1
        /\ UNCHANGED <<plans, options, first>>
        /\ phase' \in {phase, NextPhase}
        /\ pc' \in {"timer", "exit"}
        /\ solution_found' \in {solution_found, TRUE}
        /\ iterated_found_solution' \in {iterated_found_solution, TRUE}
    BY <1>3, <1>7 DEF StepAfterSaving, FinishPlanFile, ClosePlanFile, NextBound,
       task_vars, search_vars
  <2> QED
    BY <1>1, <1>2, <2>1 DEF TypeOK
<1> QED
  BY <1>4, <1>5, <1>6, <1>7 DEF Next, Step, Exited

LEMMA PlanNext ==
  ASSUME PlannerInv, [Next]_vars
  PROVE  PlanOK'
<1>1. /\ TypeOK /\ PlanOK /\ first \in Nat /\ counter \in Nat /\ first <= counter
      /\ solution_found \in BOOLEAN
  BY DEF PlannerInv, TypeOK
<1>2. ASSUME UNCHANGED <<plans, options, best_bound, solution_found, plan, first,
                         counter, writing>>,
             options.iterated, pc # "save", pc' # "save"
      PROVE  PlanOK'
  BY <1>1, <1>2 DEF PlanOK
<1>3. CASE StepWithoutEngine
  BY <1>2, <1>3 DEF StepWithoutEngine, Running, task_vars, file_vars
<1>4. CASE StepWithoutPlan
  BY <1>2, <1>4 DEF StepWithoutPlan, Running, task_vars, file_vars
<1>5. CASE StepWithPlan
  <2>1. /\ pc = "step" /\ pc' = "save" /\ options.iterated /\ writing' = Result
        /\ UNCHANGED <<plans, options, best_bound, solution_found, plan, first, counter>>
        /\ Result \notin {NoCost, Unsolvable, GivesUp}
    BY <1>5 DEF StepWithPlan, Running, OpenPlanFile, task_vars
  <2>2. Result \in plans
    BY <2>1, FoundFacts
  <2> QED
    BY <1>1, <2>1, <2>2 DEF PlanOK
<1>6. CASE StepAfterSaving
  <2>1. /\ pc = "save" /\ pc' = "timer" /\ options.iterated /\ writing' = NoCost
        /\ UNCHANGED <<plans, options, first>>
        /\ counter' = counter + 1 /\ solution_found' = TRUE
        /\ writing \in plans
    BY <1>1, <1>6 DEF StepAfterSaving, Running, ClosePlanFile, task_vars, PlanOK
  <2> QED
    BY <1>1, <2>1 DEF PlanOK
<1>7. CASE SingleEngine
  <2>1. /\ pc = "step" /\ pc' = "timer" /\ ~options.iterated
        /\ UNCHANGED <<plans, options, best_bound, first, counter, writing>>
        /\ Result \notin {Unsolvable, GivesUp}
        /\ \/ Result # NoCost /\ solution_found' = TRUE /\ plan' = Result
           \/ UNCHANGED <<solution_found, plan>>
    BY <1>7 DEF SingleEngine, Running, task_vars, file_vars
  <2>2. Result # NoCost => WritesAPlan(Result)
    BY <2>1, FoundFacts
  <2>3. solution_found' => WritesAPlan(plan')
    BY <1>1, <2>1, <2>2 DEF PlanOK
  <2> QED
    BY <1>1, <2>1, <2>3 DEF PlanOK, WritesAPlan
<1>8. CASE EngineExits \/ Killed \/ ExitProcess \/ UNCHANGED vars
  <2>1. /\ UNCHANGED <<plans, options, best_bound, solution_found, plan, first,
                       counter, writing, pc>>
        /\ exitcode' = "running" => exitcode = "running"
    BY <1>8 DEF EngineExits, Killed, ExitProcess, ExitOfMain, Running, vars,
       task_vars, file_vars
  <2> QED
    BY <1>1, <2>1 DEF PlanOK, WritesAPlan
<1>9. CASE TimerExpired \/ TimerNotExpired
  <2>1. /\ UNCHANGED <<plans, options, best_bound, solution_found, plan, first,
                       counter, writing>>
        /\ pc = "timer"
        /\ pc' = "finish" \/ (options.iterated /\ pc' = "step")
    BY <1>1, <1>9 DEF TimerExpired, TimerNotExpired, Running, task_vars, file_vars
  <2> QED
    BY <1>1, <2>1 DEF PlanOK, WritesAPlan
<1>10. CASE SavePlanIfNecessary
  <2>1. /\ pc = "finish"
        /\ UNCHANGED <<plans, options, best_bound, solution_found, plan, first, counter>>
        /\ \/ /\ ~options.iterated /\ solution_found
              /\ pc' = "save" /\ writing' = plan
           \/ /\ options.iterated \/ ~solution_found
              /\ pc' = "exit" /\ writing' = writing
    BY <1>10 DEF SavePlanIfNecessary, OpenPlanFile, Running, task_vars, file_vars
  <2>2. plan \in plans => plan # NoCost
    BY <1>1, PlannerAssumption DEF TypeOK, PlanCost, NoCost
  <2> QED
    BY <1>1, <2>1, <2>2 DEF PlanOK, WritesAPlan
<1>11. CASE FinishPlanFile
  <2>1. /\ pc = "save" /\ pc' = "exit" /\ ~options.iterated /\ writing' = NoCost
        /\ UNCHANGED <<plans, options, first, solution_found, plan>>
        /\ counter' = counter + 1 /\ solution_found /\ writing \in plans
    BY <1>1, <1>11 DEF FinishPlanFile, Running, ClosePlanFile, task_vars, PlanOK
  <2> QED
    BY <1>1, <2>1 DEF PlanOK
<1> QED
  BY <1>3, <1>4, <1>5, <1>6, <1>7, <1>8, <1>9, <1>10, <1>11 DEF Next, Step, Exited

LEMMA PlannerInvNext == PlannerInv /\ [Next]_vars => PlannerInv'
<1> SUFFICES ASSUME PlannerInv, [Next]_vars PROVE PlannerInv'
  OBVIOUS
<1>1. UNCHANGED <<plans, outcome>>
  BY DEF Next, Step, StepWithoutEngine, StepWithoutPlan, StepWithPlan,
     StepAfterSaving, SingleEngine, EngineExits, TimerExpired, TimerNotExpired,
     SavePlanIfNecessary, FinishPlanFile, ExitProcess, Killed, Exited, vars, task_vars
<1> QED
  BY <1>1, SameTask, TypeNext, PlanNext DEF PlannerInv

\* PlannerInv holds in every reachable state of the process.
THEOREM ProcessInvariant == Spec => []PlannerInv
  BY PlannerInvInit, PlannerInvNext, PTL DEF Spec

-----------------------------------------------------------------------------
\* A step of the process is a step of AnytimePlanner or one it does not see.
LEMMA KeepsThePromise ==
  ASSUME PlannerInv, [Next]_vars
  PROVE  [Promise!PlannerNext]_(Promise!planner_vars)
<1> DEFINE Unseen == UNCHANGED <<plans, best_bound, first, counter, files, writing,
                                 exitcode>>
<1>1. /\ TypeOK /\ PlanOK /\ first \in Nat /\ counter \in Nat /\ first <= counter
      /\ MaxPlans \in Nat
  BY PlannerAssumption DEF PlannerInv, TypeOK
<1>2. Unseen => UNCHANGED Promise!planner_vars
  BY DEF Promise!planner_vars
<1>3. CASE StepWithoutEngine \/ StepWithoutPlan \/ SingleEngine \/ TimerExpired
           \/ TimerNotExpired \/ UNCHANGED vars
  <2>1. Unseen
    BY <1>3 DEF StepWithoutEngine, StepWithoutPlan, SingleEngine, TimerExpired,
       TimerNotExpired, vars, task_vars, file_vars
  <2> QED
    BY <1>2, <2>1
<1>4. ASSUME NEW c \in plans, WritesAPlan(c), exitcode = "running", writing = NoCost,
             OpenPlanFile(c), UNCHANGED <<plans, best_bound, first, exitcode>>
      PROVE  Promise!PlannerNext
  <2>1. counter < MaxPlans /\ PlanFileNumber = counter + 1
    BY <1>1, <1>4 DEF OpenPlanFile, PlanFileNumber, PlanNumber
  <2>2. Promise!BeginPlan(c)
    BY <1>4, <2>1 DEF Promise!BeginPlan, WritesAPlan, OpenPlanFile, Incomplete,
       Promise!Incomplete, NoCost, Promise!NoCost
  <2> QED
    BY <2>2 DEF Promise!PlannerNext
<1>5. CASE StepWithPlan
  <2>1. /\ exitcode = "running" /\ pc = "step" /\ OpenPlanFile(Result)
        /\ Result \in plans /\ IsImprovement(Result)
        /\ UNCHANGED <<plans, best_bound, first, exitcode>>
    BY <1>5, FoundFacts DEF StepWithPlan, Running, task_vars
  <2> QED
    BY <1>1, <1>4, <2>1 DEF PlanOK, WritesAPlan, IsImprovement
<1>6. CASE SavePlanIfNecessary
  <2>1. /\ exitcode = "running" /\ pc = "finish"
        /\ UNCHANGED <<plans, best_bound, first, exitcode>>
    BY <1>6 DEF SavePlanIfNecessary, Running, task_vars
  <2>2. CASE ~options.iterated /\ solution_found
    <3>1. WritesAPlan(plan) /\ OpenPlanFile(plan)
      BY <1>1, <1>6, <2>1, <2>2 DEF PlanOK, SavePlanIfNecessary
    <3> QED
      BY <1>1, <1>4, <2>1, <3>1 DEF PlanOK, WritesAPlan
  <2>3. CASE options.iterated \/ ~solution_found
    BY <1>2, <1>6, <2>1, <2>3 DEF SavePlanIfNecessary, file_vars
  <2> QED
    BY <2>2, <2>3
<1>7. CASE StepAfterSaving \/ FinishPlanFile
  <2>1. /\ exitcode = "running" /\ pc = "save" /\ ClosePlanFile /\ best_bound' = writing
        /\ UNCHANGED <<plans, first, exitcode>>
    BY <1>7 DEF StepAfterSaving, FinishPlanFile, Running, task_vars, NextBound
  <2>2. Promise!EndPlan
    BY <1>1, <2>1 DEF Promise!EndPlan, ClosePlanFile, PlanFileNumber, PlanOK, NoCost,
       Promise!NoCost
  <2> QED
    BY <2>2 DEF Promise!PlannerNext
<1>8. CASE EngineExits
  <2>1. /\ exitcode = "running" /\ pc = "step" /\ writing = NoCost
        /\ UNCHANGED <<plans, best_bound, first, counter, files, writing>>
    BY <1>1, <1>8 DEF EngineExits, Running, task_vars, file_vars, PlanOK
  <2>2. \/ exitcode' = "UNSOLVABLE" /\ plans = {} /\ ~(first < counter)
        \/ exitcode' = "UNSOLVED_INCOMPLETE" /\ MayGiveUp
    BY <1>1, <1>8, FoundFacts DEF EngineExits, PlanOK
  <2>3. Promise!Exit(exitcode')
    BY <2>1, <2>2 DEF Promise!Exit, Promise!OwnExit, NoCost, Promise!NoCost
  <2>4. exitcode' \in Promise!OwnExit
    BY <2>2 DEF Promise!OwnExit
  <2> QED
    BY <2>3, <2>4 DEF Promise!PlannerNext
<1>9. CASE ExitProcess
  <2>1. /\ exitcode = "running" /\ pc = "exit" /\ writing = NoCost
        /\ UNCHANGED <<plans, best_bound, first, counter, files, writing>>
        /\ exitcode' = IF solution_found THEN "PLAN_FOUND" ELSE "UNSOLVED_INCOMPLETE"
    BY <1>1, <1>9 DEF ExitProcess, ExitOfMain, Running, task_vars, file_vars, PlanOK
  <2>2. solution_found <=> first < counter
    BY <1>1, <2>1 DEF PlanOK
  <2>3. Promise!Exit(exitcode') /\ exitcode' \in Promise!OwnExit
    BY <2>1, <2>2 DEF Promise!Exit, Promise!OwnExit, NoCost, Promise!NoCost
  <2> QED
    BY <2>3 DEF Promise!PlannerNext
<1>10. CASE Killed
  <2>1. exitcode' \in Promise!Signal /\ Promise!Killed(exitcode')
    BY <1>10 DEF Killed, task_vars, file_vars, Promise!Killed, Promise!Signal
  <2> QED
    BY <2>1 DEF Promise!PlannerNext
<1> QED
  BY <1>3, <1>5, <1>6, <1>7, <1>8, <1>9, <1>10 DEF Next, Step, Exited

\* The search component keeps the promise of AnytimePlanner, which is all that
\* SatPortfolio assumes of a planner process: consecutively numbered plan
\* files, each finished before the next is started, plans below the bound,
\* and EXIT_PLAN_FOUND exactly if one was written, whenever it is killed.
THEOREM Refinement ==
  ASSUME MaxPlans # 0
  PROVE  Spec => ImplementsAnytimePlanner
<1>1. Init => Promise!PlannerInit
  <2> SUFFICES ASSUME Init PROVE Promise!PlannerInit
    OBVIOUS
  <2>1. best_bound \in PlanCost \cup {Infinity} /\ first \in PlanNumber \cup {0}
    BY PlannerAssumption DEF Init, BoundValue, PlanCost, PlanNumber
  <2>2. Promise!StartedWith(best_bound, first)
    BY DEF Init, Promise!StartedWith, NoCost, Promise!NoCost
  <2>3. plans \in SUBSET PlanCost /\ files = [n \in PlanNumber |-> Absent]
    BY DEF Init
  <2> QED
    BY <2>1, <2>2, <2>3 DEF Promise!PlannerInit, Promise!PlanCost, PlanCost,
       Promise!PlanNumber, PlanNumber, Promise!Absent, Absent
<1>2. PlannerInv /\ [Next]_vars => [Promise!PlannerNext]_(Promise!planner_vars)
  BY KeepsThePromise
<1> QED
  BY <1>1, <1>2, ProcessInvariant, PTL
  DEF Spec, ImplementsAnytimePlanner, Promise!PlannerSpec

-----------------------------------------------------------------------------
\* What step() reports, as long as a plan that an engine finds is always one
\* that gets saved: the bound is passed on, or the phases go on to the end.
PlansAreSaved ==
    /\ ~InitiallyGoal
    /\ \A o \in SearchOptions :
          o.iterated => o.pass_bound \/ (o.continue_on_fail /\ o.continue_on_solve)

StatusOK ==
    /\ status = "SOLVED" => solution_found
    /\ status = "FAILED" => ~solution_found
    /\ options.iterated /\ options.pass_bound /\ pc # "save" =>
          (iterated_found_solution <=> solution_found)
    /\ pc \in {"step", "save"} /\ options.iterated => status = "IN_PROGRESS"

\* What the exit code of main says; an engine that exits does so in a step.
ExitOK ==
    exitcode \in {"PLAN_FOUND", "UNSOLVED_INCOMPLETE"} =>
       \/ pc = "step"
       \/ pc = "exit" /\ (exitcode = "PLAN_FOUND" <=> first < counter)

LEMMA ExitNext ==
  ASSUME PlannerInv, ExitOK, [Next]_vars
  PROVE  ExitOK'
<1>1. CASE UNCHANGED vars
  BY <1>1 DEF vars, file_vars, ExitOK
<1>2. CASE ExitProcess
  <2>1. /\ pc = "exit" /\ UNCHANGED <<pc, first, counter, solution_found>>
        /\ exitcode' = IF solution_found THEN "PLAN_FOUND" ELSE "UNSOLVED_INCOMPLETE"
    BY <1>2 DEF ExitProcess, ExitOfMain, Running, file_vars
  <2>2. solution_found <=> first < counter
    BY <2>1 DEF PlannerInv, PlanOK
  <2> QED
    BY <2>1, <2>2 DEF ExitOK
<1>3. CASE EngineExits
  BY <1>3 DEF EngineExits, Running, ExitOK
<1>4. CASE Killed
  BY <1>4 DEF Killed, ExitOK
<1>5. CASE \/ StepWithoutEngine \/ StepWithoutPlan \/ StepWithPlan \/ StepAfterSaving
           \/ SingleEngine \/ TimerExpired \/ TimerNotExpired
           \/ SavePlanIfNecessary \/ FinishPlanFile
  <2>1. exitcode' = "running"
    BY <1>5 DEF StepWithoutEngine, StepWithoutPlan, StepWithPlan, StepAfterSaving,
       SingleEngine, TimerExpired, TimerNotExpired, SavePlanIfNecessary,
       FinishPlanFile, Running
  <2> QED
    BY <2>1 DEF ExitOK
<1> QED
  BY <1>1, <1>2, <1>3, <1>4, <1>5 DEF Next, Step, Exited

LEMMA StatusNext ==
  ASSUME PlansAreSaved, PlannerInv, StatusOK, [Next]_vars
  PROVE  StatusOK'
<1>1. /\ TypeOK /\ PlanOK /\ solution_found \in BOOLEAN
      /\ iterated_found_solution \in BOOLEAN
      /\ options.iterated =>
            options.pass_bound \/ (options.continue_on_fail /\ options.continue_on_solve)
  BY DEF PlannerInv, TypeOK, PlansAreSaved
<1>2. CASE StepWithoutPlan
  <2>1. /\ options.iterated /\ ~NoMoreEngines /\ pc = "step" /\ pc' = "timer"
        /\ UNCHANGED <<options, solution_found>>
        /\ iterated_found_solution' = (iterated_found_solution \/ Result # NoCost)
        /\ status' = StepReturnValue(Result # NoCost, iterated_found_solution')
        /\ Result \notin {Unsolvable, GivesUp}
        /\ ~(Result # NoCost /\ IsImprovement(Result))
    BY <1>2 DEF StepWithoutPlan, Running, task_vars
  <2>2. CASE options.pass_bound
    <3>1. Result = NoCost
      BY <2>1, <2>2, ResultFacts
      DEF PlansAreSaved, Findable, IsImprovement, NoCost, Unsolvable, GivesUp
    <3>2. /\ iterated_found_solution' <=> solution_found
          /\ status' = IF options.continue_on_fail THEN "IN_PROGRESS"
                       ELSE IF iterated_found_solution' THEN "SOLVED" ELSE "FAILED"
      BY <1>1, <2>1, <2>2, <3>1 DEF StepReturnValue, StatusOK
    <3> QED
      BY <1>1, <2>1, <3>2 DEF StatusOK
  <2>3. CASE ~options.pass_bound
    <3>1. status' = "IN_PROGRESS"
      BY <1>1, <2>1, <2>3 DEF StepReturnValue
    <3> QED
      BY <2>1, <2>3, <3>1 DEF StatusOK
  <2> QED
    BY <2>2, <2>3
<1>3. CASE StepAfterSaving
  <2>1. /\ pc' = "timer" /\ solution_found' = TRUE /\ iterated_found_solution' = TRUE
        /\ status' \in {"IN_PROGRESS", "SOLVED"}
    BY <1>3 DEF StepAfterSaving, StepReturnValue
  <2> QED
    BY <2>1 DEF StatusOK
<1>4. CASE StepWithoutEngine
  BY <1>1, <1>4 DEF StepWithoutEngine, Running, task_vars, search_vars, StatusOK
<1>5. CASE StepWithPlan
  BY <1>5 DEF StepWithPlan, Running, task_vars, search_vars, StatusOK
<1>6. CASE SingleEngine
  BY <1>1, <1>6 DEF SingleEngine, Running, task_vars, search_vars, StatusOK, PlanOK
<1>7. CASE TimerExpired \/ TimerNotExpired
  BY <1>7 DEF TimerExpired, TimerNotExpired, Running, task_vars, search_vars, StatusOK
<1>8. CASE SavePlanIfNecessary
  BY <1>8 DEF SavePlanIfNecessary, Running, task_vars, search_vars, StatusOK
<1>9. CASE FinishPlanFile \/ EngineExits \/ ExitProcess \/ Killed \/ UNCHANGED vars
  BY <1>1, <1>9 DEF FinishPlanFile, EngineExits, ExitProcess, Killed, Running, vars,
     task_vars, search_vars, StatusOK
<1> QED
  BY <1>2, <1>3, <1>4, <1>5, <1>6, <1>7, <1>8, <1>9 DEF Next, Step, Exited

\* The search reports SOLVED only if a plan has been saved, and FAILED only if
\* none has, however many engines succeed or fail after that; and the exit code
\* of main says whether a plan was written, whatever the status.
THEOREM SolvedCorrect ==
  ASSUME PlansAreSaved
  PROVE  Spec => []SolvedMeansPlan
<1>1. Init => StatusOK /\ ExitOK
  BY DEF Init, StatusOK, ExitOK
<1>2. PlannerInv /\ (StatusOK /\ ExitOK) /\ [Next]_vars => (StatusOK /\ ExitOK)'
  BY StatusNext, ExitNext
<1>3. StatusOK /\ ExitOK => SolvedMeansPlan
  BY DEF StatusOK, ExitOK, SolvedMeansPlan
<1> QED
  BY <1>1, <1>2, <1>3, ProcessInvariant, PTL DEF Spec
=============================================================================
