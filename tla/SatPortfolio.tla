---------------------------- MODULE SatPortfolio ----------------------------
(***************************************************************************)
(* A satisficing portfolio: run_search of run_components.py up to the end  *)
(* of portfolio_runner.run, with run_sat as its control.  It composes the  *)
(* PlanManager, the division of time of DriverLimits and one planner       *)
(* process at a time, of which it knows what AnytimePlanner says.  Driver  *)
(* and process only share the plan files.  Either may be killed between    *)
(* any two steps; a killed driver takes the process with it and is         *)
(* started again.                                                          *)
(***************************************************************************)
EXTENDS PlanManager, DriverLimits

CONSTANTS
    Portfolios,       \* the portfolio files considered, see Portfolio
    GeneralCost,      \* the task does not have unit costs
    MaxCrashes,       \* bound of the model: how often the driver is killed
    CrashWhileDeleting  \* whether it may be killed in delete_existing_plans

\* A portfolio has configurations, which may follow the cost type, and may
\* have a final one (FINAL_CONFIG) or a way to make it (FINAL_CONFIG_BUILDER).
Config == [time : Nat \ {0}, adapts : BOOLEAN]
Portfolio ==
    [configs : Seq(Config) \ {<<>>}, final : {"none", "config", "builder"}]

ASSUME PortfolioAssumption ==
    /\ Portfolios \subseteq Portfolio
    /\ {GeneralCost, CrashWhileDeleting} \subseteq BOOLEAN
    /\ MaxCrashes \in Nat

VARIABLES
    portfolio,        \* the portfolio that is run, never changed
    phase,            \* where run_sat is
    round,            \* configs: what is run in this round
    pos,              \* the position in round
    next_round,       \* configs_next_round
    cost_type,        \* search_cost_type
    rerun,            \* it is the second run_sat_config of this position
    final,            \* it is the run of final_config
    exitcodes,        \* the exit codes yielded
    portfolio_exit,   \* what generate_portfolio_exitcode returns
    elapsed,          \* CPU time since the portfolio was started
    limit,            \* the CPU limit of the planner process
    crashes           \* how often the driver has been killed

control_vars == <<round, pos, next_round, cost_type, rerun, final>>
driver_vars ==
    <<phase, control_vars, exitcodes, portfolio_exit, elapsed, limit>>
vars == <<planner_vars, manager_vars, driver_vars, portfolio, crashes>>

Code == OwnExit \cup Signal
FinalRound == <<[time |-> 1, adapts |-> FALSE]>>

DriverInit ==
    /\ phase = "delete"
    /\ round = portfolio.configs
    /\ pos = 1
    /\ next_round = <<>>
    /\ cost_type = "one"
    /\ rerun = FALSE
    /\ final = FALSE
    /\ exitcodes = {}
    /\ portfolio_exit = "none"
    /\ elapsed = 0
    /\ limit = NoLimit

Init ==
    /\ plans \in SUBSET PlanCost
    /\ InitiallyGoal => 0 \in plans
    /\ files \in OldFiles
    /\ StartedWith(Infinity, 0)
    /\ ManagerInit
    /\ portfolio \in Portfolios
    /\ DriverInit
    /\ crashes = 0

-----------------------------------------------------------------------------
\* delete_existing_plans, and the start of run_sat.
Delete ==
    /\ phase = "delete"
    /\ DeletePlan \/ DeletionDone
    /\ phase' = IF scanning' = "no" THEN "config" ELSE "delete"
    /\ UNCHANGED <<plans, bound, first, counter, writing, exitcode,
                   control_vars, exitcodes, portfolio_exit, elapsed, limit,
                   portfolio, crashes>>

\* The configurations and the position run_sat_config is called with.
RunList == IF final THEN FinalRound ELSE round
RunPos == IF final THEN 1 ELSE pos

\* Mutant: run_sat does not ask whether time is left, as run_opt does not.
TimeIsUp_NotAsked == FALSE

\* run_time <= 0.
TimeIsUp == TimeLimit <= elapsed

\* Mutants: the planner is not told how many plans there are, or what the
\* best of them costs.
StartPlanner_FromOne ==
    /\ bound' = BestPlanCost
    /\ first' = 0
    /\ counter' = 0

StartPlanner_NoBound ==
    /\ bound' = Infinity
    /\ first' = PlanCounter
    /\ counter' = PlanCounter

\* adapt_args and --internal-previous-portfolio-plans.
StartPlanner ==
    /\ bound' = BestPlanCost
    /\ first' = PlanCounter
    /\ counter' = PlanCounter

\* run_sat_config, unless there is no time left: then it returns None, and
\* the generator ends.
RunConfig ==
    /\ phase = "config"
    /\ RunPos <= Len(RunList)
    /\ ~TimeIsUp
    /\ phase' = "run"
    /\ limit' = HardLimit(SoftLimit(RunList, RunPos, elapsed))
    /\ StartPlanner
    /\ writing' = NoCost
    /\ exitcode' = "running"
    /\ UNCHANGED <<plans, files, manager_vars, control_vars, exitcodes,
                   portfolio_exit, elapsed, portfolio, crashes>>

OutOfTime ==
    /\ phase = "config"
    /\ RunPos <= Len(RunList)
    /\ TimeIsUp
    /\ phase' = "exit"
    /\ UNCHANGED <<planner_vars, manager_vars, control_vars, exitcodes,
                   portfolio_exit, elapsed, limit, portfolio, crashes>>

\* The planner process, which the driver waits for.
PlannerRuns ==
    /\ phase = "run"
    /\ (\E c \in plans : BeginPlan(c)) \/ EndPlan
    /\ UNCHANGED <<manager_vars, driver_vars, portfolio, crashes>>

PlannerEnds ==
    /\ phase = "run"
    /\ (\E code \in OwnExit : Exit(code)) \/ (\E s \in Signal : Killed(s))
    /\ elapsed' \in EndTimes(elapsed, limit, exitcode')
    /\ phase' = "process"
    /\ StartProcessing
    /\ UNCHANGED <<control_vars, exitcodes, portfolio_exit, limit, portfolio,
                   crashes>>

\* process_new_plans; bogus_plan ends the driver with a RuntimeError.
Process ==
    /\ phase = "process"
    /\ ProcessingDone \/ DeleteIncomplete \/ RecordPlan \/ BogusPlan
    /\ phase' = IF bogus' THEN "raised"
                ELSE IF scanning' = "no" THEN "yield" ELSE "process"
    /\ UNCHANGED <<plans, bound, first, counter, writing, exitcode,
                   control_vars, exitcodes, portfolio_exit, elapsed, limit,
                   portfolio, crashes>>

-----------------------------------------------------------------------------
\* Mutant: every configuration takes part in the next round.
Succeeded_Always == TRUE

Succeeded == exitcode = "PLAN_FOUND"

\* The result of the run has been yielded: the generator ends after the final
\* configuration or if the task is unsolvable.
YieldLast ==
    /\ phase = "yield"
    /\ final \/ exitcode = "UNSOLVABLE"
    /\ exitcodes' = exitcodes \cup {exitcode}
    /\ phase' = "exit"
    /\ UNCHANGED <<planner_vars, manager_vars, control_vars, portfolio_exit,
                   elapsed, limit, portfolio, crashes>>

Yield ==
    /\ phase = "yield"
    /\ ~final /\ exitcode # "UNSOLVABLE"
    /\ exitcodes' = exitcodes \cup {exitcode}
    /\ phase' = "config"
    /\ UNCHANGED <<planner_vars, manager_vars, portfolio_exit, elapsed, limit,
                   portfolio, crashes>>

CanSwitchCosts ==
    ~rerun /\ cost_type = "one" /\ round[pos].adapts /\ GeneralCost

NextRound ==
    IF ~rerun /\ Succeeded THEN Append(next_round, round[pos]) ELSE next_round

\* "Switch to real costs and repeat last run."
SwitchCosts ==
    /\ Yield
    /\ Succeeded /\ CanSwitchCosts
    /\ cost_type' = "normal"
    /\ rerun' = TRUE
    /\ next_round' = NextRound
    /\ UNCHANGED <<round, pos, final>>

\* "Build final config."
BuildFinalConfig ==
    /\ Yield
    /\ rerun \/ (Succeeded /\ ~CanSwitchCosts)
    /\ portfolio.final = "builder"
    /\ final' = TRUE
    /\ next_round' = NextRound
    /\ UNCHANGED <<round, pos, cost_type, rerun>>

\* Neither of them: the body of the for loop is done.
ConfigDone ==
    /\ Yield
    /\ portfolio.final = "builder" => ~rerun /\ ~Succeeded
    /\ Succeeded => ~CanSwitchCosts
    /\ rerun' = FALSE

\* The for loop goes on to the next configuration ...
NextConfig ==
    /\ ConfigDone
    /\ pos < Len(round)
    /\ pos' = pos + 1
    /\ next_round' = NextRound
    /\ UNCHANGED <<round, cost_type, final>>

FirstPosition == 1

\* ... or ends, and the while loop starts the next round or is left.
EndRound ==
    /\ ConfigDone
    /\ pos = Len(round)
    /\ pos' = FirstPosition
    /\ round' = NextRound
    /\ next_round' = <<>>
    /\ final' = (portfolio.final = "config")
    /\ UNCHANGED cost_type

\* The while loop ends with an empty list of configurations.
NoConfigLeft ==
    /\ phase = "config"
    /\ RunPos > Len(RunList)
    /\ phase' = "exit"
    /\ UNCHANGED <<planner_vars, manager_vars, control_vars, exitcodes,
                   portfolio_exit, elapsed, limit, portfolio, crashes>>

GenerateExitcode ==
    /\ phase = "exit"
    /\ portfolio_exit' = PortfolioExit(exitcodes)
    /\ phase' = "done"
    /\ UNCHANGED <<planner_vars, manager_vars, control_vars, exitcodes,
                   elapsed, limit, portfolio, crashes>>

\* The driver is killed, or has ended, and is started once more.
Restart ==
    /\ crashes < MaxCrashes
    /\ phase = "delete" => CrashWhileDeleting
    /\ crashes' = crashes + 1
    /\ bound' = Infinity /\ first' = 0 /\ counter' = 0
    /\ writing' = NoCost /\ exitcode' = "running"
    /\ plan_costs' = <<>> /\ scanning' = "delete" /\ number' = 1
    /\ had_incomplete' = FALSE /\ bogus' = FALSE
    /\ phase' = "delete"
    /\ round' = portfolio.configs /\ pos' = 1 /\ next_round' = <<>>
    /\ cost_type' = "one" /\ rerun' = FALSE /\ final' = FALSE
    /\ exitcodes' = {} /\ portfolio_exit' = "none"
    /\ elapsed' = 0 /\ limit' = NoLimit
    /\ UNCHANGED <<plans, files, portfolio>>

Finished == phase \in {"done", "raised"} /\ UNCHANGED vars

Driver ==
    \/ Delete \/ RunConfig \/ OutOfTime \/ Process
    \/ YieldLast \/ SwitchCosts \/ BuildFinalConfig \/ NextConfig \/ EndRound
    \/ NoConfigLeft \/ GenerateExitcode

Next == Driver \/ PlannerRuns \/ PlannerEnds \/ Restart \/ Finished

\* The driver runs, and a planner process ends sooner or later.
Spec == Init /\ [][Next]_vars /\ WF_vars(Driver) /\ WF_vars(PlannerEnds)

-----------------------------------------------------------------------------
\* What the processes and the plan manager share, and the phase.
FilesTypeOK ==
    /\ plans \subseteq PlanCost
    /\ bound \in 0 .. Infinity
    /\ first \in 0 .. MaxPlans /\ counter \in 0 .. MaxPlans
    /\ files \in [PlanNumber -> PlanCost \cup {Absent, Incomplete}]
    /\ writing \in PlanCost \cup {NoCost}
    /\ exitcode \in Code \cup {"running"}
    /\ plan_costs \in Seq(PlanCost)
    /\ PlanCounter <= MaxPlans
    /\ scanning \in {"no", "delete", "process"}
    /\ number \in 1 .. (MaxPlans + 1)
    /\ phase \in {"delete", "config", "run", "process", "yield", "exit",
                  "done", "raised"}
    /\ exitcodes \subseteq Code

\* bogus_plan is never called: no process writes a plan that is not cheaper
\* than the plans recorded, and none follows a plan that was left incomplete,
\* whenever processes are killed and however often the driver is restarted.
NothingBogus == ~bogus

\* Whenever no process is running, the numbered plan files are exactly the
\* plans recorded: complete, without a gap, nothing left over from a process
\* that was killed or from an earlier run of the driver.
FilesMatchRecord ==
    phase \in {"config", "yield", "exit", "done"} =>
       \A n \in PlanNumber :
          files[n] = IF n <= PlanCounter THEN plan_costs[n] ELSE Absent

\* A complete plan file is neither overwritten nor deleted, except by
\* delete_existing_plans.
PlansKept ==
    [][\A n \in PlanNumber :
          files[n] >= 0 /\ scanning # "delete" => files'[n] = files[n]]_vars

\* A portfolio that reports a plan has recorded one, whichever processes
\* failed; one that reports an unsolvable task is right.
ExitIsJustified ==
    phase = "done" =>
       /\ portfolio_exit = "PLAN_FOUND" => plan_costs # <<>>
       /\ portfolio_exit = "UNSOLVABLE" => plans = {}

\* The portfolio stops less than two seconds after its time limit: the limit
\* of a process is rounded up to seconds, and it has one more to die.
StopsInTime == elapsed < TimeLimit + 2 * Tick

\* The rounds come to an end, even if no time passes: a configuration only
\* runs again if it has lowered the cost of the best plan.
Terminates == <>[](phase \in {"done", "raised"})

-----------------------------------------------------------------------------
(* The inductive invariant behind NothingBogus, FilesMatchRecord and        *)
(* ExitIsJustified.                                                         *)

\* A plan file from number k on is there only if those before it are, and
\* they are complete and dearer.
ContiguousFrom(k) ==
    \A m, n \in PlanNumber :
       k <= m /\ m < n /\ files[n] # Absent =>
          files[m] >= 0 /\ files[m] > files[n]

PhaseOK ==
    /\ (phase = "delete") <=> (scanning = "delete")
    /\ (phase = "process") <=> (scanning = "process" /\ ~bogus)
    /\ ~bogus /\ phase # "raised"

\* The loop of delete_existing_plans has deleted what is before number.
DeletionOK ==
    phase = "delete" =>
       /\ plan_costs = <<>>
       /\ exitcodes = {}
       /\ \A n \in PlanNumber : n < number => files[n] = Absent
       /\ ContiguousFrom(number)

FilesContiguous == phase # "delete" => ContiguousFrom(1)

PlansRecorded ==
    phase # "delete" => \A n \in 1 .. PlanCounter : files[n] = plan_costs[n]

NothingUnrecorded ==
    phase \in {"config", "yield", "exit", "done"} =>
       \A n \in PlanNumber : n > PlanCounter => files[n] = Absent

\* The files of the process that is running.
ProcessOK ==
    phase = "run" =>
       /\ first = PlanCounter /\ first <= counter
       /\ exitcode = "running"
       /\ \A n \in PlanNumber :
             /\ n <= counter => files[n] >= 0
             /\ n = counter + 1 =>
                   files[n] = IF writing = NoCost THEN Absent ELSE Incomplete
             /\ n > counter + 1 => files[n] = Absent
       /\ bound = IF counter = 0 THEN Infinity ELSE files[counter]
       /\ writing # NoCost =>
             writing \in 0 .. (bound - 1) /\ counter < MaxPlans

\* The loop of process_new_plans has recorded what is before number.
ProcessingOK ==
    phase = "process" =>
       /\ ~had_incomplete => number = PlanCounter + 1
       /\ had_incomplete =>
             /\ number = PlanCounter + 2
             /\ \A n \in PlanNumber : n > PlanCounter => files[n] = Absent

\* Exit codes that say something about the task are right.
PlanExists == 1 \in PlanNumber /\ files[1] >= 0

ExitcodesOK ==
    /\ phase \in {"process", "yield"} =>
          /\ exitcode \in Code
          /\ exitcode = "PLAN_FOUND" => PlanExists
          /\ exitcode = "UNSOLVABLE" => plans = {}
    /\ "PLAN_FOUND" \in exitcodes => PlanExists
    /\ "UNSOLVABLE" \in exitcodes => plans = {}
    /\ phase = "done" => portfolio_exit = PortfolioExit(exitcodes)

DriverInv ==
    /\ FilesTypeOK
    /\ PhaseOK
    /\ DeletionOK
    /\ FilesContiguous
    /\ PlansRecorded
    /\ NothingUnrecorded
    /\ ProcessOK
    /\ ProcessingOK
    /\ ExitcodesOK

(* The inductive invariant behind StopsInTime. *)
ControlTypeOK ==
    /\ portfolio \in Portfolios
    /\ round \in Seq(Config)
    /\ next_round \in Seq(Config)
    /\ pos \in Nat \ {0}

\* There is a configuration whose result is awaited.
PositionOK == phase \in {"run", "process", "yield"} /\ ~final => pos <= Len(round)

\* No process is started that may live too long.
LimitOK ==
    phase = "run" => limit \in Nat /\ elapsed + limit < TimeLimit + 2 * Tick

TimeInv ==
    /\ ControlTypeOK
    /\ PositionOK
    /\ elapsed \in Nat
    /\ LimitOK
    /\ StopsInTime
=============================================================================
