--------------------------- MODULE Drivers_proofs ---------------------------
(***************************************************************************)
(* Proofs about the scripts that run planners as processes.                *)
(*                                                                         *)
(* Satisficing portfolios: for every number of plans, configurations and   *)
(* restarts the plan files are what the plan manager has recorded, and no  *)
(* RuntimeError is raised.  The assumptions are those of the model: the    *)
(* initial state is not a goal, and the driver is not killed while it      *)
(* deletes the plans of an earlier run.  Without them, for every time      *)
(* limit and all relative times, the portfolio stops in time: the second   *)
(* part, with TimeInv.                                                     *)
(*                                                                         *)
(* Delfi: the invariant follows the task through the files: what each step *)
(* of the script has read, what it has written, and what an orphan can     *)
(* still do to it.                                                         *)
(***************************************************************************)
EXTENDS SatPortfolio, Delfi, SequenceTheorems, WellFoundedInduction, TLAPS

UsualTask == ~InitiallyGoal /\ ~CrashWhileDeleting

LEMMA InitInv == ASSUME Init PROVE DriverInv
<1>. USE CostAssumption DEF CostAssumption
<1>1. plan_costs = <<>>
  BY DEF Init, ManagerInit
<1>2. plan_costs \in Seq(PlanCost) /\ PlanCounter <= MaxPlans
  <2>1. plan_costs \in Seq(PlanCost)
    BY <1>1
  <2>2. PlanCounter <= MaxPlans
    BY <1>1 DEF PlanCounter, CostAssumption
  <2>. QED
    BY <2>1, <2>2
<1>3. files \in [PlanNumber -> PlanCost \cup {Absent, Incomplete}]
  BY DEF Init, OldFiles
<1>4. FilesTypeOK
  <2>1. plans \subseteq PlanCost
    BY DEF Init
  <2>2. /\ bound \in 0 .. Infinity
        /\ first \in 0 .. MaxPlans /\ counter \in 0 .. MaxPlans
        /\ writing \in PlanCost \cup {NoCost}
        /\ exitcode \in Code \cup {"running"}
    BY DEF Init, StartedWith
  <2>3. /\ scanning \in {"no", "delete", "process"}
        /\ number \in 1 .. (MaxPlans + 1)
    BY DEF Init, ManagerInit
  <2>4. /\ phase \in {"delete", "config", "run", "process", "yield", "exit",
                      "done", "raised"}
        /\ exitcodes \subseteq Code
    BY DEF Init, DriverInit
  <2>. QED
    BY <1>2, <1>3, <2>1, <2>2, <2>3, <2>4 DEF FilesTypeOK
<1>. USE DEF Init, StartedWith, ManagerInit, DriverInit, OldFiles, PlanCost,
         PlanNumber, NoCost, Absent, Incomplete
<1>5. DeletionOK
  BY <1>3 DEF DeletionOK, ContiguousFrom
<1>. QED
  BY <1>4, <1>5
  DEF DriverInv, PhaseOK, FilesContiguous, PlansRecorded, NothingUnrecorded,
      ProcessOK, ProcessingOK, ExitcodesOK

-----------------------------------------------------------------------------
\* Steps of the planner process.  What the driver holds does not change; the
\* cases are the file opened and the file completed.
LEMMA BeginPlanInv ==
  ASSUME UsualTask, DriverInv, PlannerRuns, NEW c \in plans, BeginPlan(c)
  PROVE  DriverInv'
<1>. USE CostAssumption DEF CostAssumption
<1>1. phase = "run" /\ FilesTypeOK /\ PhaseOK /\ ContiguousFrom(1) /\ PlansRecorded
      /\ ProcessOK /\ ExitcodesOK /\ ~InitiallyGoal
  BY DEF DriverInv, PlannerRuns, FilesContiguous, UsualTask
<1>2. UNCHANGED <<phase, scanning, number, bogus, had_incomplete, plan_costs,
                  exitcodes, portfolio_exit, plans, first, counter, exitcode, bound>>
  BY DEF PlannerRuns, BeginPlan, manager_vars, driver_vars
<1>3. /\ files' = [files EXCEPT ![counter + 1] = Incomplete]
      /\ counter + 1 \in PlanNumber
      /\ writing' = c /\ c \in 0 .. (bound - 1)
      /\ files[counter + 1] = Absent
  BY <1>1 DEF BeginPlan, ProcessOK, FilesTypeOK, PlanCost, PlanNumber, NoCost
<1>4. FilesTypeOK'
  BY <1>1, <1>2, <1>3 DEF FilesTypeOK, PlanCounter
<1>5. ContiguousFrom(1)'
  <2>. SUFFICES ASSUME NEW m \in PlanNumber, NEW n \in PlanNumber,
                       m < n, files'[n] # Absent
                PROVE  files'[m] >= 0 /\ files'[m] > files'[n]
    BY DEF ContiguousFrom
  <2>1. n <= counter + 1
    BY <1>1, <1>3 DEF ProcessOK, FilesTypeOK, PlanNumber
  <2>2. m <= counter /\ files'[m] = files[m] /\ files[m] >= 0
    BY <1>1, <1>3, <2>1 DEF ProcessOK, FilesTypeOK, PlanNumber
  <2>3. CASE n = counter + 1
    <3>1. files'[n] = -1
      BY <1>1, <1>3, <2>3 DEF FilesTypeOK, Incomplete
    <3>2. files[m] \in Int
      BY <1>1 DEF FilesTypeOK, PlanCost, Incomplete, Absent
    <3>. QED
      BY <2>2, <3>1, <3>2
  <2>4. CASE n <= counter
    BY <1>1, <1>3, <2>2, <2>4 DEF ContiguousFrom, FilesTypeOK, PlanNumber
  <2>. QED
    BY <1>1, <2>1, <2>3, <2>4 DEF FilesTypeOK, PlanNumber
<1>6. PlansRecorded'
  BY <1>1, <1>2, <1>3
  DEF PlansRecorded, ProcessOK, FilesTypeOK, PlanCounter, PlanNumber
<1>7. ProcessOK'
  BY <1>1, <1>2, <1>3
  DEF ProcessOK, FilesTypeOK, PlanNumber, PlanCost, PlanCounter, NoCost,
      Absent, Incomplete
<1>8. ExitcodesOK'
  BY <1>1, <1>2, <1>3 DEF ExitcodesOK, PlanExists, PlanNumber, FilesTypeOK,
     ProcessOK, Absent, PlanCost
<1>. QED
  BY <1>1, <1>2, <1>4, <1>5, <1>6, <1>7, <1>8
  DEF DriverInv, PhaseOK, DeletionOK, FilesContiguous, NothingUnrecorded,
      ProcessingOK

LEMMA EndPlanInv ==
  ASSUME UsualTask, DriverInv, PlannerRuns, EndPlan
  PROVE  DriverInv'
<1>. USE CostAssumption DEF CostAssumption
<1>1. phase = "run" /\ FilesTypeOK /\ PhaseOK /\ ContiguousFrom(1) /\ PlansRecorded
      /\ ProcessOK /\ ExitcodesOK
  BY DEF DriverInv, PlannerRuns, FilesContiguous
<1>2. UNCHANGED <<phase, scanning, number, bogus, had_incomplete, plan_costs,
                  exitcodes, portfolio_exit, plans, first, exitcode>>
  BY DEF PlannerRuns, EndPlan, manager_vars, driver_vars
<1>3. /\ files' = [files EXCEPT ![counter + 1] = writing]
      /\ counter + 1 \in PlanNumber
      /\ counter' = counter + 1
      /\ bound' = writing
      /\ writing \in 0 .. (bound - 1)
      /\ writing' = NoCost
      /\ files[counter + 1] = Incomplete
  BY <1>1 DEF EndPlan, ProcessOK, FilesTypeOK, PlanCost, PlanNumber, NoCost
<1>4. FilesTypeOK'
  BY <1>1, <1>2, <1>3 DEF FilesTypeOK, PlanCounter, PlanNumber, PlanCost, NoCost
<1>5. ContiguousFrom(1)'
  <2>1. ASSUME NEW m \in PlanNumber, m <= counter
        PROVE  files[m] \in Nat /\ files[m] >= bound
    <3>1. counter \in PlanNumber /\ files[counter] >= 0 /\ files[m] >= 0
      BY <1>1, <2>1 DEF ProcessOK, FilesTypeOK, PlanNumber
    <3>2. bound = files[counter] /\ files[m] \in Int /\ files[counter] \in Int
      BY <1>1, <2>1, <3>1
      DEF ProcessOK, FilesTypeOK, PlanNumber, PlanCost, Absent, Incomplete
    <3>3. m < counter => files[m] > files[counter]
      BY <1>1, <3>1, <3>2 DEF ContiguousFrom, Absent, PlanNumber
    <3>. QED
      BY <1>1, <2>1, <3>1, <3>2, <3>3 DEF FilesTypeOK, PlanNumber
  <2>2. ASSUME NEW m \in PlanNumber, NEW n \in PlanNumber,
               m < n, files'[n] # Absent
        PROVE  files'[m] >= 0 /\ files'[m] > files'[n]
    <3>1. n <= counter + 1
      BY <1>1, <1>3, <2>2 DEF ProcessOK, FilesTypeOK, PlanNumber
    <3>2. m <= counter /\ files'[m] = files[m] /\ files[m] \in Nat
      BY <1>1, <1>3, <2>1, <2>2, <3>1 DEF FilesTypeOK, PlanNumber
    <3>3. CASE n = counter + 1
      BY <1>1, <1>3, <2>1, <3>2, <3>3 DEF FilesTypeOK, PlanNumber
    <3>4. CASE n <= counter
      BY <1>1, <1>3, <2>2, <3>2, <3>4 DEF ContiguousFrom, FilesTypeOK, PlanNumber
    <3>. QED
      BY <1>1, <2>2, <3>1, <3>3, <3>4 DEF FilesTypeOK, PlanNumber
  <2>. QED
    BY <2>2 DEF ContiguousFrom
<1>6. PlansRecorded'
  BY <1>1, <1>2, <1>3
  DEF PlansRecorded, ProcessOK, FilesTypeOK, PlanCounter, PlanNumber
<1>7. ProcessOK'
  BY <1>1, <1>2, <1>3
  DEF ProcessOK, FilesTypeOK, PlanNumber, PlanCost, PlanCounter, NoCost,
      Absent, Incomplete
<1>8. ExitcodesOK'
  BY <1>1, <1>2, <1>3 DEF ExitcodesOK, PlanExists, PlanNumber, FilesTypeOK,
     ProcessOK, Incomplete, PlanCost
<1>. QED
  BY <1>1, <1>2, <1>4, <1>5, <1>6, <1>7, <1>8
  DEF DriverInv, PhaseOK, DeletionOK, FilesContiguous, NothingUnrecorded,
      ProcessingOK

\* The process ends: whatever its exit code, process_new_plans starts at the
\* first plan that is not recorded.
LEMMA PlannerEndsInv ==
  ASSUME DriverInv, PlannerEnds
  PROVE  DriverInv'
<1>. USE CostAssumption DEF CostAssumption
<1>1. phase = "run" /\ FilesTypeOK /\ PhaseOK /\ ContiguousFrom(1) /\ PlansRecorded
      /\ ProcessOK /\ ExitcodesOK
  BY DEF DriverInv, PlannerEnds, FilesContiguous
<1>2. UNCHANGED <<bogus, plan_costs, exitcodes, portfolio_exit, plans, first,
                  counter, bound, files, writing>>
  BY DEF PlannerEnds, StartProcessing, Exit, Killed
<1>3. /\ phase' = "process" /\ scanning' = "process"
      /\ number' = PlanCounter + 1 /\ had_incomplete' = FALSE
  BY DEF PlannerEnds, StartProcessing
<1>4. /\ exitcode' \in Code
      /\ exitcode' = "PLAN_FOUND" => first < counter
      /\ exitcode' = "UNSOLVABLE" => plans = {}
  BY DEF PlannerEnds, Exit, Killed, Code, OwnExit, Signal
<1>5. FilesTypeOK'
  BY <1>1, <1>2, <1>3, <1>4 DEF FilesTypeOK, PlanCounter
<1>6. ExitcodesOK'
  <2>1. exitcode' = "PLAN_FOUND" => PlanExists'
    BY <1>1, <1>2, <1>4 DEF ProcessOK, PlanExists, PlanNumber, FilesTypeOK
  <2>. QED
    BY <1>1, <1>2, <1>3, <1>4, <2>1 DEF ExitcodesOK, PlanExists
<1>7. ContiguousFrom(1)' /\ PlansRecorded'
  BY <1>1, <1>2, <1>3 DEF ContiguousFrom, PlansRecorded, PlanCounter
<1>. QED
  BY <1>1, <1>2, <1>3, <1>5, <1>6, <1>7
  DEF DriverInv, PhaseOK, DeletionOK, FilesContiguous, NothingUnrecorded,
      ProcessOK, ProcessingOK, PlanCounter

-----------------------------------------------------------------------------
\* delete_existing_plans.
LEMMA DeleteInv ==
  ASSUME DriverInv, Delete
  PROVE  DriverInv'
<1>. USE CostAssumption DEF CostAssumption
<1>1. phase = "delete" /\ FilesTypeOK /\ PhaseOK /\ DeletionOK /\ ExitcodesOK
  BY DEF DriverInv, Delete
<1>2. UNCHANGED <<bogus, plan_costs, exitcodes, portfolio_exit, plans, first,
                  counter, bound, writing, had_incomplete, exitcode>>
  BY DEF Delete, DeletePlan, DeletionDone
<1>3. plan_costs = <<>> /\ PlanCounter = 0
  BY <1>1 DEF DeletionOK, PlanCounter
<1>4. CASE DeletePlan
  <2>1. /\ number \in PlanNumber /\ number' = number + 1
        /\ files' = [files EXCEPT ![number] = Absent]
        /\ phase' = "delete" /\ scanning' = scanning
    BY <1>1, <1>4 DEF Delete, DeletePlan, Exists
  <2>2. FilesTypeOK'
    BY <1>1, <1>2, <2>1 DEF FilesTypeOK, PlanCounter, PlanNumber
  <2>3. DeletionOK'
    BY <1>1, <1>2, <2>1 DEF DeletionOK, ContiguousFrom, FilesTypeOK, PlanNumber
  <2>4. ExitcodesOK'
    BY <1>1, <1>2, <2>1 DEF ExitcodesOK, DeletionOK
  <2>. QED
    BY <1>1, <1>2, <2>1, <2>2, <2>3, <2>4
    DEF DriverInv, PhaseOK, FilesContiguous, PlansRecorded, NothingUnrecorded,
        ProcessOK, ProcessingOK
<1>5. CASE DeletionDone
  <2>1. /\ number \notin PlanNumber \/ files[number] = Absent
        /\ UNCHANGED <<files, number>>
        /\ phase' = "config" /\ scanning' = "no"
    BY <1>1, <1>5 DEF Delete, DeletionDone, Exists
  <2>2. \A n \in PlanNumber : files[n] = Absent
    BY <1>1, <2>1
    DEF DeletionOK, ContiguousFrom, FilesTypeOK, PlanNumber, Absent
  <2>3. FilesTypeOK'
    BY <1>1, <1>2, <2>1 DEF FilesTypeOK, PlanCounter
  <2>4. ContiguousFrom(1)' /\ PlansRecorded' /\ NothingUnrecorded'
    BY <1>2, <1>3, <2>1, <2>2
    DEF ContiguousFrom, PlansRecorded, NothingUnrecorded, PlanCounter
  <2>5. ExitcodesOK'
    BY <1>1, <1>2, <2>1 DEF ExitcodesOK, DeletionOK
  <2>. QED
    BY <1>1, <1>2, <2>1, <2>3, <2>4, <2>5
    DEF DriverInv, PhaseOK, DeletionOK, FilesContiguous, ProcessOK, ProcessingOK
<1>. QED
  BY <1>4, <1>5 DEF Delete

\* process_new_plans: nothing is bogus, because the plans are cheaper one
\* after the other and nothing follows an incomplete one.
LEMMA ProcessInv ==
  ASSUME DriverInv, Process
  PROVE  DriverInv'
<1>. USE CostAssumption DEF CostAssumption
<1>1. /\ phase = "process" /\ scanning = "process" /\ ~bogus
      /\ FilesTypeOK /\ PhaseOK /\ ContiguousFrom(1) /\ PlansRecorded
      /\ ProcessingOK /\ ExitcodesOK
  BY DEF DriverInv, Process, FilesContiguous, PhaseOK
<1>2. UNCHANGED <<exitcodes, portfolio_exit, plans, first, counter, bound,
                  writing, exitcode>>
  BY DEF Process
<1>3. \A n \in PlanNumber : files[n] \in PlanCost \cup {Absent, Incomplete}
  BY <1>1 DEF FilesTypeOK
<1>4. PlanCounter \in Nat /\ PlanCounter <= MaxPlans /\ plan_costs \in Seq(PlanCost)
  BY <1>1 DEF FilesTypeOK, PlanCounter
<1>5. CASE ProcessingDone
  <2>1. /\ number \notin PlanNumber \/ files[number] = Absent
        /\ phase' = "yield" /\ scanning' = "no"
        /\ UNCHANGED <<files, plan_costs, number, had_incomplete, bogus>>
    BY <1>1, <1>5 DEF Process, ProcessingDone, Exists
  <2>2. NothingUnrecorded'
    <3>1. ASSUME NEW n \in PlanNumber, n > PlanCounter PROVE files[n] = Absent
      <4>1. CASE had_incomplete
        BY <1>1, <3>1, <4>1 DEF ProcessingOK
      <4>2. CASE ~had_incomplete
        <5>1. number = PlanCounter + 1 /\ number \in PlanNumber
          BY <1>1, <1>4, <3>1, <4>2 DEF ProcessingOK, PlanNumber
        <5>2. files[number] = Absent
          BY <2>1, <5>1
        <5>3. n = number \/ number < n
          BY <1>4, <3>1, <5>1 DEF PlanNumber
        <5>. QED
          BY <1>1, <3>1, <5>1, <5>2, <5>3 DEF ContiguousFrom, Absent, PlanNumber
      <4>. QED
        BY <4>1, <4>2
    <3>. QED
      BY <2>1, <3>1 DEF NothingUnrecorded, PlanCounter
  <2>3. FilesTypeOK'
    BY <1>1, <1>2, <2>1 DEF FilesTypeOK, PlanCounter
  <2>4. ContiguousFrom(1)' /\ PlansRecorded'
    BY <1>1, <2>1 DEF ContiguousFrom, PlansRecorded, PlanCounter
  <2>5. ExitcodesOK'
    BY <1>1, <1>2, <2>1 DEF ExitcodesOK, PlanExists
  <2>. QED
    BY <1>1, <2>1, <2>2, <2>3, <2>4, <2>5
    DEF DriverInv, PhaseOK, DeletionOK, FilesContiguous, ProcessOK, ProcessingOK
<1>6. CASE DeleteIncomplete
  <2>1. /\ number \in PlanNumber /\ ~had_incomplete
        /\ files[number] = Incomplete
        /\ files' = [files EXCEPT ![number] = Absent]
        /\ number' = number + 1 /\ had_incomplete' = TRUE
        /\ phase' = "process"
        /\ UNCHANGED <<plan_costs, scanning, bogus>>
    BY <1>1, <1>6 DEF Process, DeleteIncomplete, Exists
  <2>2. number = PlanCounter + 1
    BY <1>1, <2>1 DEF ProcessingOK
  <2>3. \A n \in PlanNumber : n > number => files[n] = Absent
    BY <1>1, <2>1 DEF ContiguousFrom, Incomplete, PlanNumber
  <2>4. FilesTypeOK'
    BY <1>1, <1>2, <2>1 DEF FilesTypeOK, PlanCounter, PlanNumber
  <2>5. ContiguousFrom(1)'
    BY <1>1, <1>3, <2>1, <2>3 DEF ContiguousFrom, FilesTypeOK, Absent, PlanNumber
  <2>6. PlansRecorded'
    BY <1>1, <1>4, <2>1, <2>2 DEF PlansRecorded, FilesTypeOK, PlanCounter, PlanNumber
  <2>7. ProcessingOK'
    BY <1>1, <1>4, <2>1, <2>2, <2>3
    DEF ProcessingOK, FilesTypeOK, PlanCounter, PlanNumber
  <2>8. ExitcodesOK'
    BY <1>1, <1>2, <2>1 DEF ExitcodesOK, PlanExists, FilesTypeOK, Incomplete, PlanNumber
  <2>. QED
    BY <1>1, <2>1, <2>4, <2>5, <2>6, <2>7, <2>8
    DEF DriverInv, PhaseOK, DeletionOK, FilesContiguous, NothingUnrecorded, ProcessOK
<1>7. CASE RecordPlan
  <2>1. /\ number \in PlanNumber /\ ~had_incomplete
        /\ files[number] # Absent /\ files[number] # Incomplete
        /\ plan_costs' = Append(plan_costs, files[number])
        /\ number' = number + 1
        /\ phase' = "process"
        /\ UNCHANGED <<files, had_incomplete, scanning, bogus>>
    BY <1>1, <1>7 DEF Process, RecordPlan, Exists
  <2>2. number = PlanCounter + 1 /\ files[number] \in PlanCost
    BY <1>1, <1>3, <2>1 DEF ProcessingOK
  <2>3. /\ plan_costs' \in Seq(PlanCost)
        /\ PlanCounter' = PlanCounter + 1
        /\ PlanCounter' <= MaxPlans
        /\ \A n \in 1 .. PlanCounter : plan_costs'[n] = plan_costs[n]
        /\ plan_costs'[PlanCounter + 1] = files[number]
    BY <1>4, <2>1, <2>2 DEF PlanCounter, PlanNumber
  <2>4. FilesTypeOK'
    BY <1>1, <1>2, <2>1, <2>3 DEF FilesTypeOK, PlanNumber
  <2>5. ContiguousFrom(1)'
    BY <1>1, <2>1 DEF ContiguousFrom
  <2>6. PlansRecorded'
    <3>1. ASSUME NEW n \in 1 .. (PlanCounter + 1) PROVE files[n] = plan_costs'[n]
      <4>1. CASE n = PlanCounter + 1
        BY <2>2, <2>3, <4>1
      <4>2. CASE n \in 1 .. PlanCounter
        BY <1>1, <2>3, <4>2 DEF PlansRecorded
      <4>. QED
        BY <1>4, <4>1, <4>2
    <3>. QED
      BY <2>1, <2>3, <3>1 DEF PlansRecorded
  <2>7. ProcessingOK'
    BY <1>1, <1>4, <2>1, <2>2, <2>3 DEF ProcessingOK
  <2>8. ExitcodesOK'
    BY <1>1, <1>2, <2>1 DEF ExitcodesOK, PlanExists
  <2>. QED
    BY <1>1, <2>1, <2>4, <2>5, <2>6, <2>7, <2>8
    DEF DriverInv, PhaseOK, DeletionOK, FilesContiguous, NothingUnrecorded, ProcessOK
<1>8. ~BogusPlan
  <2>1. SUFFICES ASSUME BogusPlan PROVE FALSE
    OBVIOUS
  <2>2. number \in PlanNumber /\ files[number] # Absent
    BY <2>1 DEF BogusPlan, Exists
  <2>3. ~had_incomplete /\ number = PlanCounter + 1
    BY <1>1, <1>4, <2>2 DEF ProcessingOK
  <2>4. plan_costs # <<>> /\ files[number] >= BestPlanCost
    BY <2>1, <2>3 DEF BogusPlan
  <2>5. PlanCounter \in 1 .. PlanCounter /\ BestPlanCost = plan_costs[PlanCounter]
    <3>1. PlanCounter # 0
      BY <1>4, <2>4, EmptySeq DEF PlanCounter
    <3>. QED
      BY <1>4, <2>4, <3>1 DEF BestPlanCost
  <2>6. PlanCounter \in PlanNumber /\ files[PlanCounter] = plan_costs[PlanCounter]
    BY <1>1, <1>4, <2>5 DEF PlansRecorded, PlanNumber
  <2>7. files[PlanCounter] > files[number]
    BY <1>1, <1>4, <2>2, <2>3, <2>6 DEF ContiguousFrom, PlanNumber
  <2>. QED
    BY <1>3, <2>2, <2>4, <2>5, <2>6, <2>7 DEF PlanCost, Absent, Incomplete
<1>. QED
  BY <1>5, <1>6, <1>7, <1>8 DEF Process

-----------------------------------------------------------------------------
\* Steps of run_sat leave the plan files and the record as they are.
LEMMA QuietInv ==
  ASSUME DriverInv,
         UNCHANGED <<planner_vars, manager_vars>>,
         phase \in {"config", "yield", "exit", "done", "raised"},
         phase' \in {"config", "exit", "done"},
         exitcodes' = exitcodes \/ (phase = "yield" /\ exitcodes' = exitcodes \cup {exitcode}),
         phase' = "done" => portfolio_exit' = PortfolioExit(exitcodes')
  PROVE  DriverInv'
<1>. USE DEF planner_vars, manager_vars
<1>1. /\ FilesTypeOK /\ PhaseOK /\ ContiguousFrom(1) /\ PlansRecorded
      /\ ExitcodesOK /\ NothingUnrecorded
  BY DEF DriverInv, FilesContiguous
<1>2. phase # "raised"
  BY <1>1 DEF PhaseOK
<1>3. FilesTypeOK'
  BY <1>1 DEF FilesTypeOK, PlanCounter, ExitcodesOK
<1>4. /\ ContiguousFrom(1)' /\ PlansRecorded' /\ NothingUnrecorded'
  BY <1>1, <1>2
  DEF ContiguousFrom, PlansRecorded, NothingUnrecorded, PlanCounter
<1>5. ExitcodesOK'
  BY <1>1 DEF ExitcodesOK, PlanExists
<1>6. PhaseOK'
  BY <1>1, <1>2 DEF PhaseOK
<1>. QED
  BY <1>3, <1>4, <1>5, <1>6
  DEF DriverInv, DeletionOK, FilesContiguous, ProcessOK, ProcessingOK

LEMMA RunConfigInv ==
  ASSUME DriverInv, RunConfig
  PROVE  DriverInv'
<1>. USE CostAssumption DEF CostAssumption
<1>1. /\ FilesTypeOK /\ PhaseOK /\ ContiguousFrom(1) /\ PlansRecorded
      /\ ExitcodesOK /\ NothingUnrecorded /\ phase = "config"
  BY DEF DriverInv, FilesContiguous, RunConfig
<1>2. /\ UNCHANGED <<plans, files, plan_costs, scanning, number, bogus,
                     had_incomplete, exitcodes, portfolio_exit>>
      /\ bound' = BestPlanCost /\ first' = PlanCounter /\ counter' = PlanCounter
      /\ writing' = NoCost /\ exitcode' = "running" /\ phase' = "run"
  BY DEF RunConfig, StartPlanner, manager_vars
<1>3. /\ PlanCounter \in 0 .. MaxPlans /\ plan_costs \in Seq(PlanCost)
      /\ PlanCounter # 0 => plan_costs # <<>>
      /\ plan_costs # <<>> => PlanCounter \in 1 .. PlanCounter
  BY <1>1, EmptySeq DEF FilesTypeOK, PlanCounter
<1>4. \A n \in 1 .. PlanCounter : plan_costs[n] \in PlanCost
  BY <1>3 DEF PlanCounter
<1>5. bound' = IF PlanCounter = 0 THEN Infinity ELSE plan_costs[PlanCounter]
  BY <1>2, <1>3 DEF BestPlanCost
<1>6. bound' \in 0 .. Infinity
  BY <1>3, <1>4, <1>5 DEF PlanCost
<1>7. FilesTypeOK'
  BY <1>1, <1>2, <1>3, <1>6 DEF FilesTypeOK, PlanCounter
<1>8. ContiguousFrom(1)' /\ PlansRecorded'
  BY <1>1, <1>2 DEF ContiguousFrom, PlansRecorded, PlanCounter
<1>9. ProcessOK'
  <2>1. \A n \in PlanNumber : n <= PlanCounter => files[n] >= 0
    BY <1>1, <1>3, <1>4 DEF PlansRecorded, PlanNumber, PlanCost
  <2>2. \A n \in PlanNumber : n > PlanCounter => files[n] = Absent
    BY <1>1 DEF NothingUnrecorded
  <2>3. PlanCounter # 0 => files[PlanCounter] = plan_costs[PlanCounter]
    BY <1>1, <1>3 DEF PlansRecorded
  <2>4. PlanCounter' = PlanCounter
    BY <1>2 DEF PlanCounter
  <2>. QED
    BY <1>2, <1>3, <1>5, <2>1, <2>2, <2>3, <2>4 DEF ProcessOK, PlanNumber
<1>10. ExitcodesOK'
  BY <1>1, <1>2 DEF ExitcodesOK, PlanExists
<1>. QED
  BY <1>1, <1>2, <1>7, <1>8, <1>9, <1>10
  DEF DriverInv, PhaseOK, DeletionOK, FilesContiguous, NothingUnrecorded,
      ProcessingOK

\* The driver starts again with whatever plan files there are, but for a run
\* of delete_existing_plans that was cut short.
LEMMA RestartInv ==
  ASSUME UsualTask, DriverInv, Restart
  PROVE  DriverInv'
<1>. USE CostAssumption DEF CostAssumption
<1>1. FilesTypeOK /\ ContiguousFrom(1) /\ phase # "delete"
  BY DEF DriverInv, FilesContiguous, Restart, UsualTask
<1>2. plan_costs' = <<>> /\ UNCHANGED <<plans, files>>
  BY DEF Restart
<1>3. plan_costs' \in Seq(PlanCost)
  BY <1>2
<1>4. PlanCounter' <= MaxPlans
  BY <1>2 DEF PlanCounter
<1>5. /\ bound' \in 0 .. Infinity
      /\ first' \in 0 .. MaxPlans /\ counter' \in 0 .. MaxPlans
      /\ writing' \in PlanCost \cup {NoCost}
      /\ exitcode' \in Code \cup {"running"}
  BY DEF Restart
<1>6. /\ scanning' \in {"no", "delete", "process"}
      /\ number' \in 1 .. (MaxPlans + 1)
  BY DEF Restart
<1>7. /\ phase' \in {"delete", "config", "run", "process", "yield", "exit",
                     "done", "raised"}
      /\ exitcodes' \subseteq Code
  BY DEF Restart
<1>8. FilesTypeOK'
  BY <1>1, <1>2, <1>3, <1>4, <1>5, <1>6, <1>7 DEF FilesTypeOK
<1>9. DeletionOK'
  BY <1>1, <1>2 DEF Restart, DeletionOK, ContiguousFrom, PlanNumber
<1>10. ExitcodesOK' /\ PhaseOK'
  BY DEF Restart, ExitcodesOK, PhaseOK
<1>. QED
  BY <1>8, <1>9, <1>10
  DEF Restart, DriverInv, FilesContiguous, PlansRecorded, NothingUnrecorded,
      ProcessOK, ProcessingOK

-----------------------------------------------------------------------------
LEMMA NextInv == ASSUME UsualTask, DriverInv, [Next]_vars PROVE DriverInv'
<1>1. CASE Delete
  BY <1>1, DeleteInv
<1>2. CASE RunConfig
  BY <1>2, RunConfigInv
<1>3. CASE Process
  BY <1>3, ProcessInv
<1>4. CASE OutOfTime \/ NoConfigLeft
  BY <1>4, QuietInv DEF OutOfTime, NoConfigLeft
<1>5. CASE YieldLast
  BY <1>5, QuietInv DEF YieldLast
<1>6. CASE Yield
  BY <1>6, QuietInv DEF Yield
<1>7. CASE GenerateExitcode
  BY <1>7, QuietInv DEF GenerateExitcode
<1>8. CASE PlannerRuns
  BY <1>8, BeginPlanInv, EndPlanInv DEF PlannerRuns
<1>9. CASE PlannerEnds
  BY <1>9, PlannerEndsInv
<1>10. CASE Restart
  BY <1>10, RestartInv
<1>11. CASE UNCHANGED vars
  BY <1>11
  DEF vars, planner_vars, manager_vars, driver_vars, control_vars, DriverInv,
      FilesTypeOK, PhaseOK, DeletionOK, FilesContiguous, ContiguousFrom,
      PlansRecorded, NothingUnrecorded, ProcessOK, ProcessingOK, ExitcodesOK,
      PlanExists, PlanCounter
<1>. QED
  BY <1>1, <1>2, <1>3, <1>4, <1>5, <1>6, <1>7, <1>8, <1>9, <1>10, <1>11
  DEF Next, Driver, SwitchCosts, BuildFinalConfig, NextConfig, EndRound,
      ConfigDone, Finished

\* The inductive invariant: what process, plan manager and run_sat agree on.
THEOREM DriverInvariant == ASSUME UsualTask PROVE Spec => []DriverInv
<1>1. Init => DriverInv
  BY InitInv
<1>2. DriverInv /\ [Next]_vars => DriverInv'
  BY NextInv
<1>. QED
  BY <1>1, <1>2, PTL DEF Spec

\* No RuntimeError is raised by process_new_plans, however processes and
\* driver are killed.
THEOREM NeverBogus == ASSUME UsualTask PROVE Spec => []NothingBogus
<1>1. DriverInv => NothingBogus
  BY DEF DriverInv, PhaseOK, NothingBogus
<1>. QED
  BY <1>1, DriverInvariant, PTL

\* Between two processes the plan files are exactly the recorded plans.
THEOREM FilesAreRecorded == ASSUME UsualTask PROVE Spec => []FilesMatchRecord
<1>1. DriverInv => FilesMatchRecord
  <2>1. SUFFICES ASSUME DriverInv, phase \in {"config", "yield", "exit", "done"},
                        NEW n \in PlanNumber
                 PROVE  files[n] = IF n <= PlanCounter THEN plan_costs[n] ELSE Absent
    BY DEF FilesMatchRecord
  <2>2. n \in Int /\ n >= 1 /\ PlanCounter \in Int
    BY <2>1, CostAssumption
    DEF CostAssumption, PlanNumber, DriverInv, FilesTypeOK, PlanCounter
  <2>3. CASE n <= PlanCounter
    BY <2>1, <2>2, <2>3 DEF DriverInv, PlansRecorded
  <2>4. CASE n > PlanCounter
    BY <2>1, <2>2, <2>4 DEF DriverInv, NothingUnrecorded
  <2>. QED
    BY <2>2, <2>3, <2>4
<1>. QED
  BY <1>1, DriverInvariant, PTL

\* The exit code of a portfolio does not claim more than it has recorded.
THEOREM ExitJustified == ASSUME UsualTask PROVE Spec => []ExitIsJustified
<1>1. ASSUME DriverInv, phase = "done" PROVE
         /\ portfolio_exit = "PLAN_FOUND" => plan_costs # <<>>
         /\ portfolio_exit = "UNSOLVABLE" => plans = {}
  <2>1. portfolio_exit = PortfolioExit(exitcodes)
    BY <1>1 DEF DriverInv, ExitcodesOK
  <2>2. /\ portfolio_exit = "PLAN_FOUND" => "PLAN_FOUND" \in exitcodes
        /\ portfolio_exit = "UNSOLVABLE" => "UNSOLVABLE" \in exitcodes
    <3>1. exitcodes \subseteq Code
      BY <1>1 DEF DriverInv, FilesTypeOK
    <3>. QED
      BY <2>1, <3>1 DEF PortfolioExit, ExpectedExit
  <2>3. "PLAN_FOUND" \in exitcodes => PlanCounter >= 1
    BY <1>1, CostAssumption
    DEF CostAssumption, DriverInv, ExitcodesOK, PlanExists, NothingUnrecorded,
        FilesTypeOK, PlanCounter, PlanNumber, Absent
  <2>4. PlanCounter >= 1 => plan_costs # <<>>
    BY DEF PlanCounter
  <2>. QED
    BY <1>1, <2>2, <2>3, <2>4 DEF DriverInv, ExitcodesOK
<1>2. DriverInv => ExitIsJustified
  BY <1>1 DEF ExitIsJustified
<1>. QED
  BY <1>2, DriverInvariant, PTL

\* A complete plan file is only ever touched by delete_existing_plans.
THEOREM PlansAreKept == ASSUME UsualTask PROVE Spec => PlansKept
<1>1. ASSUME DriverInv, [Next]_vars, NEW n \in PlanNumber,
             files[n] >= 0, scanning # "delete"
      PROVE  files'[n] = files[n]
  <2>1. FilesTypeOK
    BY <1>1 DEF DriverInv
  <2>2. CASE PlannerRuns
    <3>1. ProcessOK
      BY <1>1 DEF DriverInv
    <3>2. n <= counter
      BY <1>1, <2>1, <2>2, <3>1, CostAssumption
      DEF CostAssumption, PlannerRuns, ProcessOK, FilesTypeOK, PlanNumber,
          Absent, Incomplete
    <3>. QED
      BY <2>1, <2>2, <3>2, CostAssumption
      DEF CostAssumption, PlannerRuns, BeginPlan, EndPlan, FilesTypeOK, PlanNumber
  <2>3. CASE Delete
    BY <1>1, <2>3 DEF Delete, DeletePlan, DeletionDone
  <2>4. CASE Process
    <3>1. CASE DeleteIncomplete
      BY <1>1, <2>1, <3>1, CostAssumption
      DEF CostAssumption, DeleteIncomplete, FilesTypeOK, Incomplete, PlanNumber
    <3>2. CASE ProcessingDone \/ RecordPlan \/ BogusPlan
      BY <3>2 DEF ProcessingDone, RecordPlan, BogusPlan
    <3>. QED
      BY <2>4, <3>1, <3>2 DEF Process
  <2>5. CASE PlannerEnds
    BY <2>5 DEF PlannerEnds, Exit, Killed
  <2>6. CASE RunConfig \/ Restart
    BY <2>6 DEF RunConfig, Restart
  <2>7. CASE OutOfTime \/ NoConfigLeft \/ YieldLast \/ Yield \/ GenerateExitcode
    BY <2>7 DEF OutOfTime, NoConfigLeft, YieldLast, Yield, GenerateExitcode,
                planner_vars
  <2>8. CASE UNCHANGED vars
    BY <2>8 DEF vars, planner_vars
  <2>. QED
    BY <1>1, <2>2, <2>3, <2>4, <2>5, <2>6, <2>7, <2>8
    DEF Next, Driver, SwitchCosts, BuildFinalConfig, NextConfig, EndRound,
        ConfigDone, Finished
<1>2. DriverInv /\ [Next]_vars =>
        [\A n \in PlanNumber :
            files[n] >= 0 /\ scanning # "delete" => files'[n] = files[n]]_vars
  BY <1>1
<1>. QED
  BY <1>2, DriverInvariant, PTL DEF Spec, PlansKept

-----------------------------------------------------------------------------
(***************************************************************************)
(* Time                                                                    *)
(***************************************************************************)
\* Every set of numbers that is not empty has a least element.
LEMMA LeastNumber ==
  ASSUME NEW S \in SUBSET Nat, S # {}
  PROVE  \E n \in S : \A m \in S : n <= m
<1>1. PICK n \in S : \A m \in S : <<m, n>> \notin OpToRel(<, Nat)
  BY NatLessThanWellFounded, WFMin
<1>2. \A m \in S : ~(m < n)
  BY <1>1 DEF OpToRel
<1>. QED
  BY <1>2

\* Sums exist: G[1] + ... + G[N], added one after the other.
Sums(f, G, N) == f = [n \in 0 .. N |-> IF n = 0 THEN 0 ELSE f[n - 1] + G[n]]

FirstSums(f, G, n) ==
    f \in [0 .. n -> Nat] /\ f[0] = 0 /\ \A i \in 1 .. n : f[i] = f[i - 1] + G[i]

LEMMA SumsExist ==
  ASSUME NEW N \in Nat, NEW G \in [1 .. N -> Nat]
  PROVE  \E f : Sums(f, G, N) /\ f \in [0 .. N -> Nat]
<1>. DEFINE Bad == {n \in 0 .. N : ~ \E f : FirstSums(f, G, n)}
<1>1. Bad = {}
  <2>. SUFFICES ASSUME Bad # {} PROVE FALSE
    OBVIOUS
  <2>1. PICK n \in Bad : \A m \in Bad : n <= m
    <3>1. Bad \in SUBSET Nat
      OBVIOUS
    <3>. HIDE DEF Bad
    <3>. QED
      BY <3>1, LeastNumber
  <2>2. n # 0
    <3>1. FirstSums([i \in 0 .. 0 |-> 0], G, 0)
      BY DEF FirstSums
    <3>. QED
      BY <2>1, <3>1
  <2>3. n \in 1 .. N /\ n - 1 \in 0 .. N /\ n - 1 \notin Bad
    BY <2>1, <2>2
  <2>4. PICK f : FirstSums(f, G, n - 1)
    BY <2>3
  <2>5. PICK v : v = f[n - 1] + G[n]
    OBVIOUS
  <2>6. v \in Nat
    BY <2>3, <2>4, <2>5 DEF FirstSums
  <2>7. PICK e : e = [i \in 0 .. n |-> IF i = n THEN v ELSE f[i]]
    OBVIOUS
  <2>8. e \in [0 .. n -> Nat] /\ e[0] = 0
    BY <2>3, <2>4, <2>6, <2>7 DEF FirstSums
  <2>9. ASSUME NEW i \in 1 .. n PROVE e[i] = e[i - 1] + G[i]
    <3>1. e[i - 1] = f[i - 1]
      BY <2>3, <2>7
    <3>2. CASE i = n
      BY <2>3, <2>5, <2>7, <3>1, <3>2
    <3>3. CASE i # n
      BY <2>3, <2>4, <2>7, <3>1, <3>3 DEF FirstSums
    <3>. QED
      BY <3>2, <3>3
  <2>10. FirstSums(e, G, n)
    BY <2>8, <2>9 DEF FirstSums
  <2>. QED
    BY <2>1, <2>10
<1>2. PICK f : FirstSums(f, G, N)
  <2>1. N \notin Bad
    <3>. HIDE DEF Bad
    <3>. QED
      BY <1>1
  <2>2. N \in 0 .. N
    OBVIOUS
  <2>. QED
    BY <2>1, <2>2
<1>3. \A n \in 0 .. N : f[n] = IF n = 0 THEN 0 ELSE f[n - 1] + G[n]
  BY <1>2 DEF FirstSums
<1>4. f \in [0 .. N -> Nat]
  BY <1>2 DEF FirstSums
<1>5. Sums(f, G, N)
  BY <1>3, <1>4 DEF Sums
<1>. QED
  BY <1>4, <1>5

\* The sum in compute_run_time.
Adds(f, configs) ==
    f = [n \in 0 .. Len(configs) |->
            IF n = 0 THEN 0 ELSE f[n - 1] + configs[Len(configs) - n + 1].time]

\* The time of a configuration is part of the time that remains.
LEMMA RemainingTime ==
  ASSUME NEW configs \in Seq(Config), NEW p \in 1 .. Len(configs)
  PROVE  /\ configs[p].time \in Nat \ {0}
         /\ RemainingRelativeTime(configs, p) \in Nat
         /\ configs[p].time <= RemainingRelativeTime(configs, p)
<1>1. PICK N \in Nat : N = Len(configs)
  OBVIOUS
<1>2. PICK G : G = [n \in 1 .. N |-> configs[N - n + 1].time]
  OBVIOUS
<1>3. \A i \in 1 .. N : configs[i].time \in Nat \ {0}
  <2>1. \A i \in 1 .. N : configs[i] \in Config
    BY <1>1
  <2>. QED
    BY <2>1 DEF Config
<1>4. G \in [1 .. N -> Nat]
  <2>1. \A n \in 1 .. N : N - n + 1 \in 1 .. N
    OBVIOUS
  <2>. QED
    BY <1>2, <1>3, <2>1
<1>5. PICK last : Sums(last, G, N) /\ last \in [0 .. N -> Nat]
  BY <1>4, SumsExist
<1>6. Adds(last, configs)
  <2>1. \A n \in 0 .. N : n # 0 => G[n] = configs[N - n + 1].time
    BY <1>2
  <2>2. last = [n \in 0 .. N |-> IF n = 0 THEN 0 ELSE last[n - 1] + configs[N - n + 1].time]
    BY <1>5, <2>1 DEF Sums
  <2>. QED
    BY <1>1, <2>2 DEF Adds
<1>7. PICK f : f = CHOOSE g : Adds(g, configs)
  OBVIOUS
<1>8. f = [n \in 0 .. N |-> IF n = 0 THEN 0 ELSE f[n - 1] + configs[N - n + 1].time]
  <2>1. Adds(f, configs)
    BY <1>6, <1>7
  <2>. QED
    BY <1>1, <2>1 DEF Adds
<1>9. RemainingRelativeTime(configs, p) = f[N - p + 1]
  BY <1>1, <1>7 DEF RemainingRelativeTime, Adds
<1>10. PICK k : k = N - p + 1
  OBVIOUS
<1>11. k \in 1 .. N /\ N - k + 1 = p /\ k - 1 \in 0 .. N
  BY <1>1, <1>10
<1>12. \A g : Adds(g, configs) => g = last
  <2>. SUFFICES ASSUME NEW g, Adds(g, configs), g # last PROVE FALSE
    OBVIOUS
  <2>1. g = [n \in 0 .. N |-> IF n = 0 THEN 0 ELSE g[n - 1] + configs[N - n + 1].time]
    BY <1>1 DEF Adds
  <2>2. last = [n \in 0 .. N |-> IF n = 0 THEN 0 ELSE last[n - 1] + configs[N - n + 1].time]
    BY <1>1, <1>6 DEF Adds
  <2>. DEFINE Differ == {n \in 0 .. N : g[n] # last[n]}
  <2>3. PICK n \in Differ : \A m \in Differ : n <= m
    <3>1. g = [n \in 0 .. N |-> g[n]] /\ last = [n \in 0 .. N |-> last[n]]
      BY <2>1, <2>2
    <3>2. \E n \in 0 .. N : g[n] # last[n]
      BY <3>1
    <3>3. Differ \in SUBSET Nat /\ Differ # {}
      BY <3>2
    <3>. HIDE DEF Differ
    <3>. QED
      BY <3>3, LeastNumber
  <2>4. n \in 0 .. N /\ g[n] # last[n]
    BY <2>3
  <2>5. n # 0
    BY <2>1, <2>2, <2>4
  <2>6. n - 1 \in 0 .. N /\ n - 1 \notin Differ
    BY <2>3, <2>4, <2>5
  <2>7. g[n - 1] = last[n - 1]
    BY <2>6
  <2>8. g[n] = g[n - 1] + configs[N - n + 1].time
    BY <2>1, <2>4, <2>5
  <2>9. last[n] = last[n - 1] + configs[N - n + 1].time
    BY <2>2, <2>4, <2>5
  <2>. QED
    BY <2>4, <2>7, <2>8, <2>9
<1>13. f = last
  BY <1>6, <1>7, <1>12
<1>14. last[k] = last[k - 1] + configs[p].time /\ last[k - 1] \in Nat
  <2>1. last[k] = last[k - 1] + configs[N - k + 1].time
    BY <1>8, <1>11, <1>13
  <2>. QED
    BY <1>5, <1>11, <2>1
<1>15. configs[p].time \in Nat \ {0}
  BY <1>1, <1>3
<1>. QED
  BY <1>9, <1>10, <1>13, <1>14, <1>15

LEMMA Rounding ==
  ASSUME NEW a \in Int, NEW b \in Int, b > 0
  PROVE  Ceil(a, b) \in Int /\ (Ceil(a, b) - 1) * b < a /\ a <= Ceil(a, b) * b
<1>1. PICK q \in Int : q = (-a) \div b
  OBVIOUS
<1>2. q * b <= -a /\ -a < (q + 1) * b
  BY <1>1
<1>3. Ceil(a, b) = -q
  BY <1>1 DEF Ceil
<1>. QED
  BY <1>2, <1>3

LEMMA Cancelled ==
  ASSUME NEW s \in Nat, s > 0, NEW x \in Int, NEW y \in Int, x * s < y * s
  PROVE  x < y
OBVIOUS

LEMMA Scaled ==
  ASSUME NEW s \in Nat, NEW t \in Nat, t <= s, NEW r \in Nat
  PROVE  r * t <= r * s
OBVIOUS

\* A process started in time is gone less than two seconds after the limit.
LEMMA ProcessEndsInTime ==
  ASSUME NEW configs \in Seq(Config), NEW p \in 1 .. Len(configs),
         NEW e \in Nat, e < TimeLimit,
         NEW hard, hard = HardLimit(SoftLimit(configs, p, e))
  PROVE  hard \in Nat /\ e + hard < TimeLimit + 2 * Tick
<1>1. PICK t \in Nat, s \in Nat :
        t = configs[p].time /\ s = RemainingRelativeTime(configs, p) /\ 0 < t /\ t <= s
  BY RemainingTime
<1>2. PICK r \in Nat : r = TimeLimit - e /\ r > 0
  BY TimeAssumption
<1>3. PICK soft : soft = SoftLimit(configs, p, e)
  OBVIOUS
<1>4. Tick \in Nat /\ Tick > 0 /\ s * Tick \in Nat /\ s * Tick > 0 /\ r * t \in Nat /\ r * t > 0
  BY <1>1, <1>2, TimeAssumption
<1>5. soft = Ceil(r * t, s * Tick)
  BY <1>1, <1>2, <1>3 DEF SoftLimit
<1>6. soft \in Int /\ (soft - 1) * (s * Tick) < r * t /\ r * t <= soft * (s * Tick)
  BY <1>4, <1>5, Rounding
<1>7. soft >= 0
  BY <1>4, <1>6
<1>8. (soft - 1) * Tick < r
  <2>1. r * t <= r * s
    BY <1>1, Scaled
  <2>2. PICK x \in Int : x = (soft - 1) * Tick
    BY <1>4, <1>6
  <2>3. (soft - 1) * (s * Tick) = x * s
    BY <1>4, <1>6, <2>2
  <2>4. PICK a \in Int, b \in Int, c \in Int :
          a = x * s /\ b = r * s /\ c = r * t
    BY <2>2
  <2>5. a < c /\ c <= b
    BY <1>6, <2>1, <2>3, <2>4
  <2>6. x * s < r * s
    BY <2>4, <2>5
  <2>. QED
    BY <1>1, <2>2, <2>6, Cancelled
<1>9. hard = (soft + 1) * Tick
  <2>1. ~(soft < 0)
    BY <1>6, <1>7
  <2>. QED
    BY <1>3, <2>1 DEF HardLimit
<1>10. (soft + 1) * Tick = (soft - 1) * Tick + 2 * Tick /\ (soft + 1) * Tick \in Nat
  BY <1>4, <1>6, <1>7
<1>11. e + r = TimeLimit
  BY <1>2, TimeAssumption
<1>12. PICK m \in Int : m = (soft - 1) * Tick
  BY <1>4, <1>6
<1>. QED
  BY <1>4, <1>8, <1>9, <1>10, <1>11, <1>12, TimeAssumption

LEMMA InitTime == ASSUME Init PROVE TimeInv
<1>1. portfolio.configs \in Seq(Config)
  BY PortfolioAssumption DEF Init, Portfolio
<1>. QED
  BY <1>1, TimeAssumption
  DEF Init, DriverInit, TimeInv, ControlTypeOK, PositionOK, LimitOK, StopsInTime

LEMMA RunConfigTime == ASSUME TimeInv, RunConfig PROVE TimeInv'
<1>1. UNCHANGED <<control_vars, portfolio, elapsed>> /\ phase = "config" /\ phase' = "run"
  BY DEF RunConfig
<1>2. ControlTypeOK' /\ elapsed' \in Nat /\ StopsInTime'
  BY <1>1 DEF TimeInv, ControlTypeOK, control_vars, StopsInTime
<1>3. PositionOK'
  BY <1>1 DEF RunConfig, RunPos, RunList, PositionOK, control_vars
<1>4. LimitOK'
  <2>1. RunList \in Seq(Config) /\ RunPos \in 1 .. Len(RunList)
    <3>1. FinalRound \in Seq(Config)
      BY DEF FinalRound, Config
    <3>2. round \in Seq(Config) /\ pos \in Nat \ {0}
      BY DEF TimeInv, ControlTypeOK
    <3>3. RunList \in Seq(Config) /\ RunPos \in Nat \ {0} /\ RunPos <= Len(RunList)
      BY <3>1, <3>2 DEF RunConfig, RunList, RunPos
    <3>. QED
      BY <3>3
  <2>2. elapsed \in Nat /\ elapsed < TimeLimit
    BY TimeAssumption DEF TimeInv, RunConfig, TimeIsUp
  <2>3. PICK c, p, h : c = RunList /\ p = RunPos /\ h = HardLimit(SoftLimit(c, p, elapsed))
    OBVIOUS
  <2>4. h \in Nat /\ elapsed + h < TimeLimit + 2 * Tick
    BY <2>1, <2>2, <2>3, ProcessEndsInTime
  <2>5. limit' = h
    BY <2>3 DEF RunConfig
  <2>. QED
    BY <1>1, <2>4, <2>5 DEF LimitOK
<1>. QED
  BY <1>2, <1>3, <1>4 DEF TimeInv

LEMMA PlannerEndsTime == ASSUME TimeInv, PlannerEnds PROVE TimeInv'
<1>1. UNCHANGED <<control_vars, portfolio>> /\ phase = "run" /\ phase' = "process"
  BY DEF PlannerEnds
<1>2. elapsed \in Nat /\ limit \in Nat /\ elapsed + limit < TimeLimit + 2 * Tick
  BY <1>1 DEF TimeInv, LimitOK
<1>3. elapsed' \in elapsed .. AtMost(elapsed + limit, MaxElapsed)
  BY <1>2 DEF PlannerEnds, EndTimes, NoLimit
<1>4. elapsed' \in Nat /\ elapsed' <= elapsed + limit
  BY <1>2, <1>3, TimeAssumption DEF AtMost
<1>5. StopsInTime'
  BY <1>2, <1>4, TimeAssumption DEF StopsInTime
<1>. QED
  BY <1>1, <1>4, <1>5 DEF TimeInv, ControlTypeOK, PositionOK, LimitOK, control_vars

\* What is taken into the next round has been run in this one.
LEMMA YieldTime ==
  ASSUME TimeInv, SwitchCosts \/ BuildFinalConfig \/ NextConfig \/ EndRound
  PROVE  TimeInv'
<1>1. Yield
  BY DEF SwitchCosts, BuildFinalConfig, NextConfig, EndRound, ConfigDone
<1>2. UNCHANGED <<portfolio, elapsed>> /\ phase' = "config" /\ phase = "yield" /\ ~final
  BY <1>1 DEF Yield
<1>3. /\ round \in Seq(Config) /\ next_round \in Seq(Config) /\ portfolio \in Portfolios
      /\ pos \in Nat \ {0} /\ pos <= Len(round)
  BY <1>2 DEF TimeInv, ControlTypeOK, PositionOK
<1>4. round[pos] \in Config
  BY <1>3
<1>5. NextRound \in Seq(Config)
  BY <1>3, <1>4 DEF NextRound
<1>6. /\ round' \in {round, NextRound} /\ next_round' \in {NextRound, <<>>}
      /\ pos' \in {pos, pos + 1, 1}
  BY DEF SwitchCosts, BuildFinalConfig, NextConfig, EndRound, FirstPosition
<1>7. ControlTypeOK'
  <2>1. round' \in Seq(Config) /\ next_round' \in Seq(Config)
    <3>1. <<>> \in Seq(Config)
      OBVIOUS
    <3>. QED
      BY <1>3, <1>5, <1>6, <3>1, Zenon
  <2>2. pos' \in Nat \ {0}
    BY <1>3, <1>6
  <2>. QED
    BY <1>2, <1>3, <2>1, <2>2 DEF ControlTypeOK
<1>8. elapsed' \in Nat /\ StopsInTime'
  BY <1>2 DEF TimeInv, StopsInTime
<1>. QED
  BY <1>2, <1>7, <1>8 DEF TimeInv, PositionOK, LimitOK

LEMMA RestartTime == ASSUME TimeInv, Restart PROVE TimeInv'
<1>1. portfolio.configs \in Seq(Config) /\ portfolio' = portfolio
  BY PortfolioAssumption DEF TimeInv, ControlTypeOK, Portfolio, Restart
<1>. QED
  BY <1>1, TimeAssumption
  DEF Restart, TimeInv, ControlTypeOK, PositionOK, LimitOK, StopsInTime

\* Steps within a phase or to one in which no process runs.
LEMMA QuietTime ==
  ASSUME TimeInv, UNCHANGED <<control_vars, portfolio, elapsed, limit>>,
         phase' \in {"run", "process", "yield"} => phase \in {"run", "process", "yield"},
         phase' = "run" => phase = "run"
  PROVE  TimeInv'
BY DEF TimeInv, ControlTypeOK, PositionOK, LimitOK, StopsInTime, control_vars

LEMMA NextTime == ASSUME TimeInv, [Next]_vars PROVE TimeInv'
<1>1. CASE Delete \/ OutOfTime \/ NoConfigLeft \/ GenerateExitcode
  BY <1>1, QuietTime DEF Delete, OutOfTime, NoConfigLeft, GenerateExitcode
<1>2. CASE Process \/ YieldLast \/ PlannerRuns
  BY <1>2, QuietTime DEF Process, YieldLast, PlannerRuns, driver_vars
<1>3. CASE UNCHANGED vars
  BY <1>3, QuietTime DEF vars, driver_vars
<1>. QED
  BY <1>1, <1>2, <1>3, RunConfigTime, PlannerEndsTime, YieldTime, RestartTime
  DEF Next, Driver, Finished

\* A portfolio stops less than two seconds after its time limit: the last
\* process it starts (run_sat_config) gets no more than the share of the time
\* left that compute_run_time gives it, rounded up, and a second to die.
THEOREM AlwaysStopsInTime == Spec => []StopsInTime
<1>1. Init => TimeInv
  BY InitTime
<1>2. TimeInv /\ [Next]_vars => TimeInv'
  BY NextTime
<1>3. TimeInv => StopsInTime
  BY DEF TimeInv
<1>. QED
  BY <1>1, <1>2, <1>3, PTL DEF Spec

-----------------------------------------------------------------------------
(***************************************************************************)
(* Delfi                                                                   *)
(***************************************************************************)
TypeOK ==
    /\ image_from_lifted_task \in BOOLEAN
    /\ stale_files \in BOOLEAN
    /\ script \in {"graph", "start_image", "image", "select", "fallback",
                   "planner", "done", "raised"}
    /\ selected \in Planner
    /\ component \in Component
    /\ input \in Content
    /\ progress \in {"start", "writing", "written"}
    /\ orphan \in {"none", "translate", "graph_creator", "blind"}
    /\ orphan_progress \in {"start", "writing", "written"}
    /\ file \in [File -> Content]
    /\ mixed \in BOOLEAN

\* Between two processes nothing runs, and only then may there be an orphan.
IdleOK ==
    /\ script \notin {"graph", "image", "planner"} =>
          component = "none" /\ progress = "start"
    /\ script \in {"graph", "start_image", "image", "select"}
          \/ selected \in {"h2", "plain", "symba"} => orphan = "none"
    /\ orphan = "none" => orphan_progress = "start" /\ ~mixed
    /\ script \in {"planner", "done"} \/ selected = "none"

\* The graph is that of the task, unless the search of the graph creator has
\* gone on without writing it: then it is what was there before.
GraphOf(content) ==
    \/ content = "right"
    \/ ~image_from_lifted_task /\ (stale_files \/ content = "absent")

GraphOK ==
    /\ script = "graph" =>
          /\ input = "right"
          /\ component \in IF image_from_lifted_task THEN {"module"}
                           ELSE {"translate", "graph_creator", "blind"}
          /\ progress = "written" => file[OutputOf(component)] = "right"
          /\ component = "graph_creator" /\ progress = "start" =>
                GraphOf(file["graph"])
          /\ component \in {"translate", "blind"} => GraphOf(file["graph"])
    /\ script = "start_image" => GraphOf(file["graph"])

ImageIsRight ==
    \/ file["image"] = "right"
    \/ stale_files /\ ~image_from_lifted_task /\ file["graph"] # "right"

ImageOK ==
    /\ script = "image" =>
          /\ component = "image" /\ GraphOf(input)
          /\ input = file["graph"]
          /\ progress # "start" => input # "absent"
          /\ progress = "written" => ImageIsRight
    /\ script = "select" => ImageIsRight
    /\ selected \in {"h2", "plain", "symba"} => ImageIsRight

\* A planner reads an output.sas that an orphan may be rewriting: complete or
\* not, it is of this task.
TaskIsRight(content) == content \in {"partial", "right"}

PlannerOK ==
    /\ script = "planner" =>
          /\ selected # "none"
          /\ component \in IF selected = "symba" THEN {"symba"}
                           ELSE {"translate", "preprocess", "search"}
          /\ component = "translate" => input = "right"
          /\ component \in {"preprocess", "search"} =>
                TaskIsRight(input) /\ TaskIsRight(file["task"])
          /\ component = "translate" /\ progress # "start" =>
                TaskIsRight(file["task"])
          /\ component # "symba" /\ progress # "start" => input = "right"
          /\ component = "search" /\ progress # "start" /\ mixed =>
                orphan = "blind"
          /\ component = "search" /\ progress = "written" =>
                file["plan"] = "right" \/ PlanIsShared
    /\ script = "done" => selected # "none"

DelfiInv ==
    /\ TypeOK /\ IdleOK /\ GraphOK /\ ImageOK /\ PlannerOK
    /\ PlanIsOfThisTask

-----------------------------------------------------------------------------
LEMMA OutputFacts ==
  /\ \A c \in Component : OutputOf(c) \in File
  /\ OutputOf("module") = "graph" /\ OutputOf("graph_creator") = "graph"
  /\ OutputOf("translate") = "task" /\ OutputOf("preprocess") = "task"
  /\ OutputOf("image") = "image"
  /\ OutputOf("search") = "plan" /\ OutputOf("symba") = "plan"
  /\ OutputOf("blind") = "plan"
BY DEF Component, File, OutputOf

LEMMA DelfiInvInit == DelfiInit => DelfiInv
<1> SUFFICES ASSUME DelfiInit PROVE DelfiInv
  OBVIOUS
<1>1. file \in [File -> Content] /\ file["graph"] \in Content
  BY DEF DelfiInit, File, Content
<1>2. TypeOK
  BY <1>1 DEF DelfiInit, TypeOK, Planner, Component, Content
<1>3. ~stale_files => file["graph"] = "absent"
  BY DEF DelfiInit, File
<1>4. IdleOK /\ GraphOK /\ ImageOK /\ PlannerOK /\ PlanIsOfThisTask
  BY <1>2, <1>3 DEF DelfiInit, IdleOK, GraphOK, GraphOf, ImageOK, PlannerOK,
     PlanIsOfThisTask, TypeOK
<1> QED
  BY <1>2, <1>4 DEF DelfiInv

\* What a file that is opened and one that is closed hold.
LEMMA OpensFacts ==
  ASSUME TypeOK, NEW f \in File, NEW shared \in BOOLEAN, Opens(f, shared)
  PROVE  /\ file' \in [File -> Content]
         /\ file'[f] = "partial"
         /\ \A g \in File \ {f} : file'[g] = file[g]
         /\ mixed' = (shared /\ component # orphan)
BY DEF TypeOK, Opens, Content

LEMMA ClosesFacts ==
  ASSUME TypeOK, NEW f \in File, NEW text \in Content, NEW shared \in BOOLEAN,
         Closes(f, text, shared)
  PROVE  /\ file' \in [File -> Content]
         /\ file'[f] = text \/ ((mixed \/ shared) /\ file'[f] = "partial")
         /\ \A g \in File \ {f} : file'[g] = file[g]
         /\ mixed' = mixed
<1>1. PICK content \in {text} \cup (IF mixed \/ shared THEN {"partial"} ELSE {}) :
         file' = [file EXCEPT ![f] = content]
  BY DEF Closes
<1>2. content = text \/ ((mixed \/ shared) /\ content = "partial")
  BY <1>1
<1>3. content \in Content
  BY <1>2 DEF Content
<1> QED
  BY <1>1, <1>2, <1>3 DEF TypeOK, Closes

LEMMA OrphanFacts ==
  ASSUME DelfiInv, OrphanWritesTo("plan")
  PROVE  orphan = "blind" /\ orphan_progress = "writing"
<1>1. orphan # "none" /\ orphan_progress = "writing"
  BY DEF DelfiInv, IdleOK, OrphanWritesTo
<1> QED
  BY <1>1, OutputFacts DEF DelfiInv, TypeOK, OrphanWritesTo

LEMMA OpenFileKeeps ==
  ASSUME DelfiInv, OpenFile
  PROVE  DelfiInv'
<1>1. TypeOK /\ IdleOK /\ GraphOK /\ ImageOK /\ PlannerOK /\ PlanIsOfThisTask
  BY DEF DelfiInv
<1> DEFINE f == OutputOf(component)
           shared == OrphanWritesTo(f)
<1>2. f \in File /\ shared \in BOOLEAN /\ Opens(f, shared)
  BY <1>1, OutputFacts DEF OpenFile, TypeOK, OrphanWritesTo
<1>3. /\ file' \in [File -> Content]
      /\ file'[f] = "partial"
      /\ \A g \in File \ {f} : file'[g] = file[g]
      /\ mixed' = (shared /\ component # orphan)
  BY <1>1, <1>2, OpensFacts
<1>4. TypeOK'
  BY <1>1, <1>3 DEF OpenFile, setting, script_vars, orphan_vars, TypeOK,
     OrphanWritesTo
<1>5. IdleOK'
  BY <1>1, <1>3 DEF OpenFile, script_vars, orphan_vars, IdleOK, OrphanWritesTo
<1>6. GraphOK'
  BY <1>1, <1>3, OutputFacts DEF OpenFile, setting, script_vars, IdleOK, GraphOK,
     GraphOf, File
<1>7. ImageOK'
  BY <1>1, <1>3, OutputFacts DEF OpenFile, Works, setting, script_vars, IdleOK,
     GraphOf, ImageOK, ImageIsRight, PlannerOK, File
<1>8. PlannerOK'
  <2>1. component = "search" /\ mixed' => orphan = "blind"
    BY <1>3, OutputFacts, OrphanFacts
  <2> QED
    BY <1>1, <1>3, <2>1, OutputFacts DEF OpenFile, Works, script_vars, orphan_vars,
       TypeOK, PlannerOK, TaskIsRight, File
<1>9. PlanIsOfThisTask'
  BY <1>1 DEF OpenFile, script_vars, IdleOK, PlanIsOfThisTask
<1> QED
  BY <1>4, <1>5, <1>6, <1>7, <1>8, <1>9 DEF DelfiInv

LEMMA CloseFileKeeps ==
  ASSUME DelfiInv, CloseFile
  PROVE  DelfiInv'
<1>1. TypeOK /\ IdleOK /\ GraphOK /\ ImageOK /\ PlannerOK /\ PlanIsOfThisTask
  BY DEF DelfiInv
<1> DEFINE f == OutputOf(component)
           text == IF input = "right" THEN "right" ELSE "wrong"
           shared == OrphanWritesTo(f)
<1>2. f \in File /\ text \in Content /\ shared \in BOOLEAN /\ Closes(f, text, shared)
  BY <1>1, OutputFacts DEF CloseFile, TypeOK, OrphanWritesTo, Content
<1>3. /\ file' \in [File -> Content]
      /\ file'[f] = text \/ ((mixed \/ shared) /\ file'[f] = "partial")
      /\ \A g \in File \ {f} : file'[g] = file[g]
      /\ mixed' = mixed
  BY <1>1, <1>2, ClosesFacts
<1>4. TypeOK'
  BY <1>1, <1>3 DEF CloseFile, setting, script_vars, orphan_vars, TypeOK
<1>5. IdleOK'
  BY <1>1, <1>3 DEF CloseFile, script_vars, orphan_vars, IdleOK
<1>6. script \in {"graph", "image"} => file'[f] = text
  BY <1>1, <1>3 DEF IdleOK, OrphanWritesTo
<1>7. GraphOK'
  BY <1>1, <1>3, <1>6, OutputFacts DEF CloseFile, setting, script_vars, TypeOK,
     IdleOK, GraphOK, GraphOf, File
<1>8. ImageOK'
  BY <1>1, <1>3, <1>6, OutputFacts DEF CloseFile, setting, script_vars, TypeOK,
     IdleOK, GraphOf, ImageOK, ImageIsRight, PlannerOK, File
<1>9. PlannerOK'
  <2>1. ASSUME script = "planner", component = "search"
        PROVE  file'["plan"] = "right" \/ PlanIsShared'
    <3>1. file'["plan"] = "right" \/ mixed \/ OrphanWritesTo("plan")
      BY <1>1, <1>3, <2>1, OutputFacts DEF CloseFile, PlannerOK
    <3>2. OrphanWritesTo("plan") => orphan = "blind" /\ orphan_progress = "writing"
      BY OrphanFacts
    <3>3. mixed => orphan = "blind" 
      BY <1>1, <2>1 DEF CloseFile, PlannerOK
    <3> QED
      BY <1>3, <3>1, <3>2, <3>3 DEF CloseFile, orphan_vars, PlanIsShared
  <2>2. component # "symba" /\ script = "planner" => text = "right"
    BY <1>1 DEF CloseFile, PlannerOK
  <2> QED
    BY <1>1, <1>3, <2>1, <2>2, OutputFacts DEF CloseFile, script_vars, orphan_vars,
       TypeOK, PlannerOK, TaskIsRight, File
<1>10. PlanIsOfThisTask'
  BY <1>1 DEF CloseFile, script_vars, IdleOK, PlanIsOfThisTask
<1> QED
  BY <1>4, <1>5, <1>7, <1>8, <1>9, <1>10 DEF DelfiInv

LEMMA OrphanWritesKeeps ==
  ASSUME DelfiInv, OrphanWrites
  PROVE  DelfiInv'
<1>1. TypeOK /\ IdleOK /\ GraphOK /\ ImageOK /\ PlannerOK /\ PlanIsOfThisTask
  BY DEF DelfiInv
<1> DEFINE f == OutputOf(orphan)
           shared == ComponentWrites(f)
<1>2. f \in {"task", "graph", "plan"} /\ (f = "plan" <=> orphan = "blind")
  BY <1>1, OutputFacts DEF OrphanWrites, TypeOK
<1>3. shared \in BOOLEAN /\ f \in File /\ "right" \in Content
  BY <1>2 DEF ComponentWrites, File, Content
<1>4. /\ script \notin {"graph", "start_image", "image", "select"}
      /\ selected \notin {"h2", "plain", "symba"}
  BY <1>1 DEF OrphanWrites, IdleOK
<1>5. /\ file' \in [File -> Content]
      /\ \A g \in File \ {f} : file'[g] = file[g]
      /\ orphan_progress' = "writing" => file'[f] = "partial"
      /\ orphan_progress' \in {"writing", "written"}
      /\ orphan_progress' = "written" =>
            \/ file'[f] = "right"
            \/ (mixed' \/ shared) /\ file'[f] = "partial"
      /\ mixed' => mixed \/ shared
      /\ mixed' \in BOOLEAN
  <2>1. CASE orphan_progress' = "writing" /\ Opens(f, shared)
    BY <1>1, <1>3, <2>1, OpensFacts
  <2>2. CASE orphan_progress' = "written" /\ Closes(f, "right", shared)
    BY <1>1, <1>3, <2>2, ClosesFacts DEF TypeOK
  <2> QED
    BY <2>1, <2>2 DEF OrphanWrites
<1>6. shared => progress = "writing" /\ OutputOf(component) = f
  BY DEF ComponentWrites
<1>7. (file["plan"] = "right" \/ PlanIsShared) /\ progress # "writing" =>
         file'["plan"] = "right" \/ PlanIsShared'
  <2>1. CASE f = "plan"
    BY <1>2, <1>3, <1>5, <1>6, <2>1 DEF OrphanWrites, PlanIsShared
  <2>2. CASE f # "plan"
    BY <1>2, <1>5, <2>2 DEF PlanIsShared, File
  <2> QED
    BY <2>1, <2>2
<1>8. TypeOK'
  BY <1>1, <1>5 DEF OrphanWrites, setting, script_vars, component_vars, TypeOK
<1>9. IdleOK'
  BY <1>1, <1>4 DEF OrphanWrites, script_vars, component_vars, IdleOK
<1>10. GraphOK'
  BY <1>4 DEF OrphanWrites, script_vars, GraphOK
<1>11. ImageOK'
  BY <1>4 DEF OrphanWrites, script_vars, ImageOK
<1>12. PlannerOK'
  <2>1. TaskIsRight(file["task"]) => TaskIsRight(file'["task"])
    BY <1>2, <1>5 DEF TaskIsRight, File
  <2>2. ASSUME script = "planner", component = "search", progress # "start", mixed'
        PROVE  orphan = "blind"
    BY <1>1, <1>2, <1>5, <1>6, <2>2, OutputFacts DEF PlannerOK
  <2> QED
    BY <1>1, <1>7, <2>1, <2>2 DEF OrphanWrites, script_vars, component_vars,
       PlannerOK
<1>13. PlanIsOfThisTask'
  <2>1. script = "done" => progress = "start"
    BY <1>1 DEF IdleOK
  <2> QED
    BY <1>1, <1>7, <2>1 DEF OrphanWrites, script_vars, PlanIsOfThisTask
<1> QED
  BY <1>8, <1>9, <1>10, <1>11, <1>12, <1>13 DEF DelfiInv

LEMMA SearchAfterGraphKeeps ==
  ASSUME DelfiInv, SearchAfterGraph
  PROVE  DelfiInv'
<1>1. TypeOK /\ IdleOK /\ GraphOK /\ ImageOK /\ PlannerOK /\ PlanIsOfThisTask
  BY DEF DelfiInv
<1>2. TypeOK'
  BY <1>1 DEF SearchAfterGraph, setting, script_vars, orphan_vars, file_vars,
     TypeOK, Component
<1>3. IdleOK'
  BY <1>1 DEF SearchAfterGraph, script_vars, orphan_vars, file_vars, IdleOK
<1>4. GraphOK'
  BY <1>1 DEF SearchAfterGraph, setting, script_vars, file_vars, IdleOK, GraphOK,
     GraphOf
<1>5. ImageOK'
  BY <1>1 DEF SearchAfterGraph, setting, script_vars, file_vars, ImageOK,
     ImageIsRight
<1>6. PlannerOK'
  BY <1>1 DEF SearchAfterGraph, script_vars, PlannerOK
<1>7. PlanIsOfThisTask'
  BY <1>1 DEF SearchAfterGraph, script_vars, orphan_vars, file_vars,
     PlanIsOfThisTask, PlanIsShared
<1> QED
  BY <1>2, <1>3, <1>4, <1>5, <1>6, <1>7 DEF DelfiInv

LEMMA OrphanSearchesKeeps ==
  ASSUME DelfiInv, OrphanSearches
  PROVE  DelfiInv'
<1>1. TypeOK /\ IdleOK /\ GraphOK /\ ImageOK /\ PlannerOK /\ PlanIsOfThisTask
  BY DEF DelfiInv
<1>2. TypeOK'
  BY <1>1 DEF OrphanSearches, setting, script_vars, component_vars, file_vars,
     TypeOK
<1>3. IdleOK'
  BY <1>1 DEF OrphanSearches, script_vars, component_vars, file_vars, IdleOK
<1>4. GraphOK'
  BY <1>1 DEF OrphanSearches, script_vars, IdleOK, GraphOK
<1>5. ImageOK'
  BY <1>1 DEF OrphanSearches, setting, script_vars, component_vars, file_vars,
     IdleOK, ImageOK, ImageIsRight
<1>6. PlannerOK'
  BY <1>1 DEF OrphanSearches, script_vars, component_vars, file_vars, PlannerOK,
     PlanIsShared
<1>7. PlanIsOfThisTask'
  BY <1>1 DEF OrphanSearches, script_vars, file_vars, PlanIsOfThisTask,
     PlanIsShared
<1> QED
  BY <1>2, <1>3, <1>4, <1>5, <1>6, <1>7 DEF DelfiInv

LEMMA DriverContinuesKeeps ==
  ASSUME DelfiInv, NEW code \in {0, 1}, DriverContinues(code)
  PROVE  DelfiInv'
<1>1. TypeOK /\ IdleOK /\ GraphOK /\ ImageOK /\ PlannerOK /\ PlanIsOfThisTask
  BY DEF DelfiInv
<1>2. /\ file' \in [File -> Content]
      /\ file'["task"] = file["task"] /\ file'["graph"] = file["graph"]
      /\ file'["image"] = file["image"]
      /\ orphan_progress' \in {"start", "writing", "written"}
      /\ orphan_progress = "start" => orphan_progress' = "start"
  BY <1>1 DEF DriverContinues, DeletePlans, OrphanWritesTo, TypeOK, File, Content
<1>3. TypeOK'
  BY <1>1, <1>2 DEF DriverContinues, NextComponent, InputOf, setting,
     script_vars, TypeOK, Component, Content, File
<1>4. IdleOK'
  BY <1>1, <1>2 DEF DriverContinues, script_vars, IdleOK
<1>5. GraphOK'
  BY <1>1, <1>2, OutputFacts DEF DriverContinues, MayEnd, GoesOn, NextComponent,
     InputOf, setting, script_vars, GraphOK, GraphOf
<1>6. ImageOK'
  BY <1>1, <1>2 DEF DriverContinues, GoesOn, setting, script_vars, ImageOK,
     ImageIsRight
<1>7. PlannerOK'
  BY <1>1, <1>2 DEF DriverContinues, MayEnd, GoesOn, NextComponent, InputOf,
     script_vars, PlannerOK
<1>8. PlanIsOfThisTask'
  BY <1>1 DEF DriverContinues, script_vars, IdleOK, PlanIsOfThisTask
<1> QED
  BY <1>3, <1>4, <1>5, <1>6, <1>7, <1>8 DEF DelfiInv

LEMMA GraphComputedKeeps ==
  ASSUME DelfiInv, NEW code \in {0, 1}, GraphComputed(code)
  PROVE  DelfiInv'
<1>1. TypeOK /\ IdleOK /\ GraphOK /\ ImageOK /\ PlannerOK /\ PlanIsOfThisTask
  BY DEF DelfiInv
<1>2. TypeOK'
  BY <1>1 DEF GraphComputed, ProcessEnds, setting, orphan_vars, file_vars,
     TypeOK,
     Component, Content
<1>3. IdleOK'
  BY <1>1 DEF GraphComputed, ProcessEnds, orphan_vars, file_vars, IdleOK
<1>4. GraphOK'
  BY <1>1, OutputFacts DEF GraphComputed, ProcessEnds, MayEnd, Succeeds,
     setting, file_vars, GraphOK, GraphOf
<1>5. ImageOK'
  BY <1>1 DEF GraphComputed, IdleOK, ImageOK
<1>6. PlannerOK'
  BY <1>1 DEF GraphComputed, PlannerOK
<1>7. PlanIsOfThisTask'
  BY <1>1 DEF GraphComputed, PlanIsOfThisTask
<1> QED
  BY <1>2, <1>3, <1>4, <1>5, <1>6, <1>7 DEF DelfiInv

LEMMA CreateImageKeeps ==
  ASSUME DelfiInv, CreateImage
  PROVE  DelfiInv'
<1>1. TypeOK /\ IdleOK /\ GraphOK /\ ImageOK /\ PlannerOK /\ PlanIsOfThisTask
  BY DEF DelfiInv
<1>2. TypeOK'
  BY <1>1 DEF CreateImage, Start, InputOf, setting, orphan_vars, file_vars,
     TypeOK,
     Component, File
<1>3. IdleOK'
  BY <1>1 DEF CreateImage, orphan_vars, file_vars, IdleOK
<1>4. GraphOK'
  BY <1>1 DEF CreateImage, GraphOK
<1>5. ImageOK'
  BY <1>1 DEF CreateImage, Start, InputOf, setting, file_vars, IdleOK, GraphOK, GraphOf,
     ImageOK
<1>6. PlannerOK'
  BY <1>1 DEF CreateImage, PlannerOK
<1>7. PlanIsOfThisTask'
  BY <1>1 DEF CreateImage, PlanIsOfThisTask
<1> QED
  BY <1>2, <1>3, <1>4, <1>5, <1>6, <1>7 DEF DelfiInv

LEMMA ImageCreatedKeeps ==
  ASSUME DelfiInv, NEW code \in {0, 1}, ImageCreated(code)
  PROVE  DelfiInv'
<1>1. TypeOK /\ IdleOK /\ GraphOK /\ ImageOK /\ PlannerOK /\ PlanIsOfThisTask
  BY DEF DelfiInv
<1>2. TypeOK'
  BY <1>1 DEF ImageCreated, ProcessEnds, setting, orphan_vars, file_vars,
     TypeOK,
     Component, Content
<1>3. IdleOK'
  BY <1>1 DEF ImageCreated, ProcessEnds, orphan_vars, file_vars, IdleOK
<1>4. GraphOK'
  BY <1>1 DEF ImageCreated, GraphOK
<1>5. ImageOK'
  BY <1>1 DEF ImageCreated, ProcessEnds, MayEnd, Succeeds, setting, file_vars, ImageOK,
     ImageIsRight
<1>6. PlannerOK'
  BY <1>1 DEF ImageCreated, PlannerOK
<1>7. PlanIsOfThisTask'
  BY <1>1 DEF ImageCreated, PlanIsOfThisTask
<1> QED
  BY <1>2, <1>3, <1>4, <1>5, <1>6, <1>7 DEF DelfiInv

LEMMA StepFailsKeeps ==
  ASSUME DelfiInv, NEW code \in {0, 1}, StepFails(code)
  PROVE  DelfiInv'
<1>1. TypeOK /\ IdleOK /\ GraphOK /\ ImageOK /\ PlannerOK /\ PlanIsOfThisTask
  BY DEF DelfiInv
<1>2. TypeOK'
  BY <1>1 DEF StepFails, ProcessEnds, setting, orphan_vars, file_vars,
     TypeOK, Component,
     Content
<1>3. IdleOK'
  BY <1>1 DEF StepFails, ProcessEnds, orphan_vars, file_vars,
     IdleOK
<1>4. GraphOK'
  BY <1>1 DEF StepFails, GraphOK
<1>5. ImageOK'
  BY <1>1 DEF StepFails, IdleOK, ImageOK
<1>6. PlannerOK'
  BY <1>1 DEF StepFails, PlannerOK
<1>7. PlanIsOfThisTask'
  BY <1>1 DEF StepFails, PlanIsOfThisTask
<1> QED
  BY <1>2, <1>3, <1>4, <1>5, <1>6, <1>7 DEF DelfiInv

LEMMA TimeLimitReachedKeeps ==
  ASSUME DelfiInv, TimeLimitReached
  PROVE  DelfiInv'
<1>1. TypeOK /\ IdleOK /\ GraphOK /\ ImageOK /\ PlannerOK /\ PlanIsOfThisTask
  BY DEF DelfiInv
<1>2. TypeOK'
  BY <1>1 DEF TimeLimitReached, setting, orphan_vars, file_vars,
     TypeOK, GraphOK,
     Component, Content
<1>3. IdleOK'
  BY <1>1 DEF TimeLimitReached, HasTimeLimit, TypeOK, GraphOK, orphan_vars, file_vars,
     IdleOK
<1>4. GraphOK'
  BY <1>1 DEF TimeLimitReached, GraphOK
<1>5. ImageOK'
  BY <1>1 DEF TimeLimitReached, HasTimeLimit, IdleOK, ImageOK
<1>6. PlannerOK'
  BY <1>1 DEF TimeLimitReached, PlannerOK
<1>7. PlanIsOfThisTask'
  BY <1>1 DEF TimeLimitReached, PlanIsOfThisTask
<1> QED
  BY <1>2, <1>3, <1>4, <1>5, <1>6, <1>7 DEF DelfiInv

LEMMA SelectPlannerKeeps ==
  ASSUME DelfiInv, SelectPlanner
  PROVE  DelfiInv'
<1>1. TypeOK /\ IdleOK /\ GraphOK /\ ImageOK /\ PlannerOK /\ PlanIsOfThisTask
  BY DEF DelfiInv
<1>2. TypeOK'
  BY <1>1 DEF SelectPlanner, CallPlanner, Start, InputOf, setting, file_vars, orphan_vars,
     TypeOK, Component, Content
<1>3. IdleOK'
  BY <1>1 DEF SelectPlanner, CallPlanner, orphan_vars, file_vars,
     IdleOK
<1>4. GraphOK'
  BY <1>1 DEF SelectPlanner, CallPlanner, GraphOK
<1>5. ImageOK'
  BY <1>1 DEF SelectPlanner, CallPlanner, setting, file_vars, ImageOK, ImageIsRight
<1>6. PlannerOK'
  BY <1>1 DEF SelectPlanner, CallPlanner, Start, InputOf, PlannerOK
<1>7. PlanIsOfThisTask'
  BY <1>1 DEF SelectPlanner, CallPlanner, PlanIsOfThisTask
<1> QED
  BY <1>2, <1>3, <1>4, <1>5, <1>6, <1>7 DEF DelfiInv

LEMMA SelectionRaisesKeeps ==
  ASSUME DelfiInv, SelectionRaises
  PROVE  DelfiInv'
<1>1. TypeOK /\ IdleOK /\ GraphOK /\ ImageOK /\ PlannerOK /\ PlanIsOfThisTask
  BY DEF DelfiInv
<1>2. TypeOK'
  BY <1>1 DEF SelectionRaises, setting, component_vars, orphan_vars, file_vars,
     TypeOK
<1>3. IdleOK'
  BY <1>1 DEF SelectionRaises, component_vars, orphan_vars, file_vars,
     IdleOK
<1>4. GraphOK'
  BY <1>1 DEF SelectionRaises, GraphOK
<1>5. ImageOK'
  BY <1>1 DEF SelectionRaises, IdleOK, ImageOK
<1>6. PlannerOK'
  BY <1>1 DEF SelectionRaises, PlannerOK
<1>7. PlanIsOfThisTask'
  BY <1>1 DEF SelectionRaises, PlanIsOfThisTask
<1> QED
  BY <1>2, <1>3, <1>4, <1>5, <1>6, <1>7 DEF DelfiInv

LEMMA RunFallbackKeeps ==
  ASSUME DelfiInv, RunFallback
  PROVE  DelfiInv'
<1>1. TypeOK /\ IdleOK /\ GraphOK /\ ImageOK /\ PlannerOK /\ PlanIsOfThisTask
  BY DEF DelfiInv
<1>2. TypeOK'
  BY <1>1 DEF RunFallback, CallPlanner, Start, InputOf, setting, file_vars, orphan_vars,
     TypeOK, Planner, Component, Content
<1>3. IdleOK'
  BY <1>1 DEF RunFallback, CallPlanner, orphan_vars, file_vars,
     IdleOK
<1>4. GraphOK'
  BY <1>1 DEF RunFallback, CallPlanner, GraphOK
<1>5. ImageOK'
  BY <1>1 DEF RunFallback, CallPlanner, ImageOK
<1>6. PlannerOK'
  BY <1>1 DEF RunFallback, CallPlanner, Start, InputOf, PlannerOK
<1>7. PlanIsOfThisTask'
  BY <1>1 DEF RunFallback, CallPlanner, PlanIsOfThisTask
<1> QED
  BY <1>2, <1>3, <1>4, <1>5, <1>6, <1>7 DEF DelfiInv

LEMMA PlannerDoneKeeps ==
  ASSUME DelfiInv, NEW code \in {0, 1}, PlannerDone(code)
  PROVE  DelfiInv'
<1>1. TypeOK /\ IdleOK /\ GraphOK /\ ImageOK /\ PlannerOK /\ PlanIsOfThisTask
  BY DEF DelfiInv
<1>2. TypeOK'
  BY <1>1 DEF PlannerDone, ProcessEnds, setting, orphan_vars, file_vars,
     TypeOK, Component,
     Content
<1>3. IdleOK'
  BY <1>1 DEF PlannerDone, ProcessEnds, orphan_vars, file_vars,
     IdleOK
<1>4. GraphOK'
  BY <1>1 DEF PlannerDone, GraphOK
<1>5. ImageOK'
  BY <1>1 DEF PlannerDone, setting, file_vars, ImageOK, ImageIsRight
<1>6. PlannerOK'
  BY <1>1 DEF PlannerDone, PlannerOK
<1>7. PlanIsOfThisTask'
  BY <1>1 DEF PlannerDone, ProcessEnds, MayEnd, GoesOn, PlannerOK, orphan_vars, file_vars,
     PlanIsShared,
     PlanIsOfThisTask
<1> QED
  BY <1>2, <1>3, <1>4, <1>5, <1>6, <1>7 DEF DelfiInv

LEMMA NothingKeeps ==
  ASSUME DelfiInv, UNCHANGED delfi_vars
  PROVE  DelfiInv'
BY DEF DelfiInv, delfi_vars, setting, script_vars, component_vars, orphan_vars, file_vars,
   TypeOK,
   IdleOK, GraphOK, GraphOf, ImageOK, ImageIsRight, PlannerOK, TaskIsRight,
   PlanIsOfThisTask, PlanIsShared

LEMMA DelfiInvNext == DelfiInv /\ [DelfiNext]_delfi_vars => DelfiInv'
BY OpenFileKeeps, CloseFileKeeps, OrphanWritesKeeps, SearchAfterGraphKeeps,
   OrphanSearchesKeeps,
   DriverContinuesKeeps, GraphComputedKeeps, CreateImageKeeps, ImageCreatedKeeps,
   StepFailsKeeps, TimeLimitReachedKeeps, SelectPlannerKeeps, SelectionRaisesKeeps,
   RunFallbackKeeps, PlannerDoneKeeps, NothingKeeps
DEF DelfiNext, Script, EndOfProcess, DelfiFinished

\* DelfiInv holds in every reachable state.
THEOREM ScriptInvariant == DelfiSpec => []DelfiInv
  BY DelfiInvInit, DelfiInvNext, PTL DEF DelfiSpec

\* A planner is only selected with an image of this task, whatever earlier
\* runs, failed and killed processes have left in the working directory, with
\* the exception of a ground graph of an earlier run that was not replaced.
THEOREM SelectionCorrect == DelfiSpec => []SelectedForThisTask
<1>1. DelfiInv => SelectedForThisTask
  BY DEF DelfiInv, ImageOK, ImageIsRight, SelectedForThisTask
<1> QED
  BY <1>1, ScriptInvariant, PTL

\* A planner that reports a plan has solved this task, although an orphan may
\* rewrite the file of the task while it is being read, and the plan is in its
\* file unless the search of an orphan saves another one at the same time.
THEOREM PlanCorrect == DelfiSpec => []PlanIsOfThisTask
<1>1. DelfiInv => PlanIsOfThisTask
  BY DEF DelfiInv
<1> QED
  BY <1>1, ScriptInvariant, PTL
=============================================================================
