---------------------------- MODULE PlanManager -----------------------------
(***************************************************************************)
(* PlanManager (src/driver/plan_manager.py): the record the driver keeps   *)
(* of the numbered plan files, and its two passes over them, one that      *)
(* deletes the files of earlier runs and one that reads what a planner     *)
(* process has left.  Each pass looks at one file per step, because        *)
(* either can be interrupted between two files.                            *)
(***************************************************************************)
EXTENDS AnytimePlanner, Sequences

VARIABLES
    plan_costs,       \* _plan_costs: the costs of the plans recorded
    scanning,         \* the loop the manager is in: "no", "delete", "process"
    number,           \* the plan number the loop has got to
    had_incomplete,   \* had_incomplete_plan
    bogus             \* bogus_plan has raised a RuntimeError

manager_vars == <<plan_costs, scanning, number, had_incomplete, bogus>>

PlanCounter == Len(plan_costs)
BestPlanCost == IF plan_costs = <<>> THEN Infinity ELSE plan_costs[PlanCounter]

\* os.path.exists of the file with this number.
Exists(n) == n \in PlanNumber /\ files[n] # Absent

\* What an earlier run can leave behind: complete plans of decreasing cost,
\* and possibly one more that it was writing when it was killed.
OldFiles ==
    {f \in [PlanNumber -> PlanCost \cup {Incomplete, Absent}] :
        \A m, n \in PlanNumber :
            m < n /\ f[n] # Absent => f[m] >= 0 /\ f[m] > f[n]}

ManagerInit ==
    /\ plan_costs = <<>>
    /\ scanning = "delete"
    /\ number = 1
    /\ had_incomplete = FALSE
    /\ bogus = FALSE

-----------------------------------------------------------------------------
\* delete_existing_plans: get_existing_plans yields the next number as long
\* as there is a file with it, and the file is removed at once.
DeletePlan ==
    /\ scanning = "delete"
    /\ Exists(number)
    /\ files' = [files EXCEPT ![number] = Absent]
    /\ number' = number + 1
    /\ UNCHANGED <<plan_costs, scanning, had_incomplete, bogus>>

DeletionDone ==
    /\ scanning = "delete"
    /\ ~Exists(number)
    /\ scanning' = "no"
    /\ UNCHANGED <<files, plan_costs, number, had_incomplete, bogus>>

\* process_new_plans starts after the last plan recorded.
StartProcessing ==
    /\ scanning' = "process"
    /\ number' = PlanCounter + 1
    /\ had_incomplete' = FALSE
    /\ UNCHANGED <<plan_costs, bogus>>

\* The loop ends at the first number without a file.
ProcessingDone ==
    /\ scanning = "process" /\ ~bogus
    /\ ~Exists(number)
    /\ scanning' = "no"
    /\ UNCHANGED <<files, plan_costs, number, had_incomplete, bogus>>

\* Mutant: the incomplete file is left where it is.
DeleteIncomplete_KeepsFile ==
    /\ scanning = "process" /\ ~bogus
    /\ Exists(number) /\ ~had_incomplete
    /\ files[number] = Incomplete
    /\ had_incomplete' = TRUE
    /\ number' = number + 1
    /\ UNCHANGED <<files, plan_costs, scanning, bogus>>

\* A file without the cost line is deleted.
DeleteIncomplete ==
    /\ scanning = "process" /\ ~bogus
    /\ Exists(number) /\ ~had_incomplete
    /\ files[number] = Incomplete
    /\ had_incomplete' = TRUE
    /\ files' = [files EXCEPT ![number] = Absent]
    /\ number' = number + 1
    /\ UNCHANGED <<plan_costs, scanning, bogus>>

RecordPlan ==
    /\ scanning = "process" /\ ~bogus
    /\ Exists(number) /\ ~had_incomplete
    /\ files[number] # Incomplete
    /\ plan_costs # <<>> => files[number] < BestPlanCost
    /\ plan_costs' = Append(plan_costs, files[number])
    /\ number' = number + 1
    /\ UNCHANGED <<files, scanning, had_incomplete, bogus>>

\* "plan found after incomplete plan", "plan quality has not improved".
BogusPlan ==
    /\ scanning = "process" /\ ~bogus
    /\ Exists(number)
    /\ \/ had_incomplete
       \/ /\ files[number] # Incomplete
          /\ plan_costs # <<>>
          /\ files[number] >= BestPlanCost
    /\ bogus' = TRUE
    /\ UNCHANGED <<files, plan_costs, scanning, number, had_incomplete>>

=============================================================================
