--------------------------- MODULE AnytimePlanner ---------------------------
(***************************************************************************)
(* What a portfolio relies on when it starts the search component: the     *)
(* process numbers its plan files consecutively, finishes one before it    *)
(* starts the next, writes only plans that are cheaper than the bound it   *)
(* was given and than the plans it wrote before, and exits with            *)
(* EXIT_PLAN_FOUND only if it wrote one.  It may be killed at any time,    *)
(* which can leave the file it is writing without its last line.           *)
(*                                                                         *)
(* There are two exceptions.  In a task the initial state of which is a    *)
(* goal an engine returns the empty plan before it looks at the bound.     *)
(* And an engine that takes the initial state for a dead end leaves the    *)
(* process with EXIT_UNSOLVED_INCOMPLETE, whatever has been written.       *)
(***************************************************************************)
EXTENDS Integers

CONSTANTS
    Infinity,        \* the bound "infinity", above every plan cost
    MaxPlans,        \* the highest plan number, a bound of the model
    InitiallyGoal,   \* test_goal holds in the initial state
    MayGiveUp        \* some engine's heuristic has unreliable dead ends

ASSUME CostAssumption ==
    /\ Infinity \in Nat /\ MaxPlans \in Nat
    /\ InitiallyGoal \in BOOLEAN /\ MayGiveUp \in BOOLEAN

VARIABLES
    plans,           \* the costs of the plans of the task, never changed
    bound,           \* what the next plan must be cheaper than
    first,           \* how many plans there were when the process started
    counter,         \* g_num_previously_generated_plans
    files,           \* the numbered plan files: Absent, Incomplete or a cost
    writing,         \* the cost of the plan being written, or NoCost
    exitcode         \* "running" or the exit code of the process

planner_vars == <<plans, bound, first, counter, files, writing, exitcode>>

NoCost == -1
Incomplete == -1
Absent == -2
PlanCost == 0 .. (Infinity - 1)
PlanNumber == 1 .. MaxPlans
Signal == {"SIGXCPU", "OUT_OF_MEMORY", "SIGKILL"}
OwnExit == {"PLAN_FOUND", "UNSOLVED_INCOMPLETE", "UNSOLVABLE"}

StartedWith(b, n) ==
    /\ bound = b
    /\ first = n
    /\ counter = n
    /\ writing = NoCost
    /\ exitcode = "running"

\* The process opens the next plan file for a plan below the bound ...
BeginPlan(c) ==
    /\ exitcode = "running"
    /\ writing = NoCost
    /\ c \in plans
    /\ c < bound \/ (InitiallyGoal /\ c = 0)
    /\ counter < MaxPlans
    /\ writing' = c
    /\ files' = [files EXCEPT ![counter + 1] = Incomplete]
    /\ UNCHANGED <<plans, bound, first, counter, exitcode>>

\* ... and closes it with the line that holds the cost of the plan.
EndPlan ==
    /\ exitcode = "running"
    /\ writing # NoCost
    /\ files' = [files EXCEPT ![counter + 1] = writing]
    /\ counter' = counter + 1
    /\ bound' = writing
    /\ writing' = NoCost
    /\ UNCHANGED <<plans, first, exitcode>>

\* The process ends by itself; nothing else is said about when it gives up.
Exit(code) ==
    /\ exitcode = "running"
    /\ writing = NoCost
    /\ code \in OwnExit
    /\ code = "PLAN_FOUND" => first < counter
    /\ first < counter => code = "PLAN_FOUND" \/ MayGiveUp
    /\ code = "UNSOLVABLE" => plans = {}
    /\ exitcode' = code
    /\ UNCHANGED <<plans, bound, first, counter, files, writing>>

\* The process is killed, or exits because it cannot allocate memory.
Killed(signal) ==
    /\ exitcode = "running"
    /\ signal \in Signal
    /\ exitcode' = signal
    /\ UNCHANGED <<plans, bound, first, counter, files, writing>>

PlannerInit ==
    /\ plans \in SUBSET PlanCost
    /\ \E b \in PlanCost \cup {Infinity} : \E n \in PlanNumber \cup {0} :
          StartedWith(b, n)
    /\ files = [n \in PlanNumber |-> Absent]

PlannerNext ==
    \/ \E c \in plans : BeginPlan(c)
    \/ EndPlan
    \/ \E code \in OwnExit : Exit(code)
    \/ \E signal \in Signal : Killed(signal)

PlannerSpec == PlannerInit /\ [][PlannerNext]_planner_vars
=============================================================================
