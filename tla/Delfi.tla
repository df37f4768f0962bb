-------------------------------- MODULE Delfi --------------------------------
(***************************************************************************)
(* The planner Delfi (plan-ipc.py): it has the task turned into a graph,   *)
(* the graph into an image, asks the learned model which planner suits the *)
(* image, and runs that planner, or its fallback planner if any of this    *)
(* has failed.  The steps communicate by files of the working directory    *)
(* with fixed names.                                                       *)
(*                                                                         *)
(* A step is a process: a script that works alone, or fast-downward.py,    *)
(* which runs one component after the other (driver/main.py).  The time    *)
(* limits of plan-ipc.py kill the process they started and not what this   *)
(* has started in turn, so the component survives as an orphan.            *)
(***************************************************************************)
EXTENDS Naturals

VARIABLES
    image_from_lifted_task,
    stale_files,      \* earlier runs have used the working directory
    script,           \* the step plan-ipc.py has got to
    selected,         \* selected_planner
    returned,         \* what determine_and_run_planner has returned
    component,        \* the component that runs in this step
    input,            \* what the file it reads held when it was started
    progress,         \* how far it is with the file it writes
    orphan,           \* a component that has outlived its driver
    orphan_progress,
    file,             \* what the files hold
    mixed,            \* texts that differ have gone to one file at once
    returncode        \* the exit code of the last process, 0 or 1 (not 0)

setting == <<image_from_lifted_task, stale_files>>
script_vars == <<script, selected, returned>>
component_vars == <<component, input, progress>>
orphan_vars == <<orphan, orphan_progress>>
file_vars == <<file, mixed>>
delfi_vars == <<setting, script_vars, component_vars, orphan_vars, file_vars,
                returncode>>

\* output.sas, the file of the graph, graph-gs-L-bolded-cs.png, the plan: the
\* name Delfi is given for it is that of the graph creation, sas_plan.
File == {"task", "graph", "image", "plan"}

\* "right" and "wrong" are complete; the latter is not of the present task.
\* What two processes that write at once leave behind is "partial", too.
Content == {"absent", "partial", "wrong", "right"}

\* "blind" is the search of the graph creator.
Component == {"none", "module", "translate", "graph_creator", "blind", "image",
              "preprocess", "search", "symba"}
Planner == {"none", "h2", "plain", "symba", "fallback"}

OutputOf(c) ==
    IF c \in {"translate", "preprocess"} THEN "task"
    ELSE IF c \in {"module", "graph_creator"} THEN "graph"
    ELSE IF c = "image" THEN "image"
    ELSE "plan"

\* What the component c reads; the domain and the problem are always right.
InputOf(c, files) ==
    IF c = "image" THEN files["graph"]
    ELSE IF c \in {"preprocess", "graph_creator", "search"} THEN files["task"]
    ELSE "right"

DelfiInit ==
    /\ image_from_lifted_task \in BOOLEAN
    /\ stale_files \in BOOLEAN
    /\ script = "graph"
    /\ selected = "none"
    /\ returned = "nothing"
    /\ component = IF image_from_lifted_task THEN "module" ELSE "translate"
    /\ input = "right"
    /\ progress = "start"
    /\ orphan = "none"
    /\ orphan_progress = "start"
    /\ file \in [File -> IF stale_files THEN {"absent", "partial", "wrong"}
                                        ELSE {"absent"}]
    /\ mixed = FALSE
    /\ returncode = 0

-----------------------------------------------------------------------------
\* A component works only on a complete input; create-image-from-graph.py
\* does not notice that lines are missing.
Works == IF component = "image" THEN input # "absent"
                                ELSE input \in {"wrong", "right"}

ComponentWrites(f) == progress = "writing" /\ OutputOf(component) = f
OrphanWritesTo(f) == orphan_progress = "writing" /\ OutputOf(orphan) = f

\* A file that is opened loses what it held, but not the other process that
\* writes to it.  A translator that has outlived its driver writes what the
\* present one writes; the output of the preprocessor and the plan of another
\* search differ.
Opens(f, shared) ==
    /\ file' = [file EXCEPT ![f] = "partial"]
    /\ mixed' = (shared /\ component # orphan)

\* Whoever closes a file has not completed it if the other process has only
\* begun to write, or has written something else in between.
Closes(f, text, shared) ==
    /\ \E content \in {text} \cup (IF mixed \/ shared THEN {"partial"} ELSE {}) :
          file' = [file EXCEPT ![f] = content]
    /\ UNCHANGED mixed

\* The component opens its file and completes it ...
OpenFile ==
    /\ component # "none" /\ Works
    /\ progress = "start"
    /\ progress' = "writing"
    /\ Opens(OutputOf(component), OrphanWritesTo(OutputOf(component)))
    /\ UNCHANGED <<setting, script_vars, component, input, orphan_vars,
                   returncode>>

CloseFile ==
    /\ progress = "writing"
    /\ progress' = "written"
    /\ Closes(OutputOf(component), IF input = "right" THEN "right" ELSE "wrong",
              OrphanWritesTo(OutputOf(component)))
    /\ UNCHANGED <<setting, script_vars, component, input, orphan_vars,
                   returncode>>

\* ... and so does an orphan, which has read its input long ago.
OrphanWrites ==
    /\ orphan # "none"
    /\ \/ /\ orphan_progress = "start"
          /\ orphan_progress' = "writing"
          /\ Opens(OutputOf(orphan), ComponentWrites(OutputOf(orphan)))
       \/ /\ orphan_progress = "writing"
          /\ orphan_progress' = "written"
          /\ Closes(OutputOf(orphan), "right", ComponentWrites(OutputOf(orphan)))
    /\ UNCHANGED <<setting, script_vars, component_vars, orphan, returncode>>

\* plan-ipc.py has the graph creator write the graph and stop then.  If it has
\* run out of memory before (BlissMemoryOut), its blind search goes on
\* nevertheless, without the graph, and saves a plan when it finds one ...
SearchAfterGraph ==
    /\ component = "graph_creator" /\ Works
    /\ progress = "start"
    /\ component' = "blind"
    /\ UNCHANGED <<setting, script_vars, input, progress, orphan_vars, file_vars,
                   returncode>>

\* ... even if plan-ipc.py no longer waits for it.
OrphanSearches ==
    /\ orphan = "graph_creator"
    /\ orphan_progress = "start"
    /\ orphan' = "blind"
    /\ UNCHANGED <<setting, script_vars, component_vars, orphan_progress,
                   file_vars, returncode>>

\* When a component may end with which exit code.  Any may fail; symba.py
\* does not look at the exit code of the planner.
MayEnd(code) ==
    \/ code = 1
    \/ component = "symba"
    \/ progress = "written"

\* Mutant: the driver goes on after a component that has failed.
GoesOn_Always(code) == component \in {"translate", "preprocess"}

\* driver/main.py goes on to the next component.
GoesOn(code) == code = 0 /\ component \in {"translate", "preprocess"}

NextComponent ==
    IF component = "preprocess" THEN "search"
    ELSE IF script = "graph" THEN "graph_creator"
    ELSE IF selected = "plain" THEN "search"
    ELSE "preprocess"

\* run_search deletes the plans of earlier runs.  A process that is writing
\* one does not notice; its text is lost.
DeletePlans(c) ==
    IF c \in {"search", "graph_creator"}
    THEN /\ file' = [file EXCEPT !["plan"] = "absent"]
         /\ orphan_progress' = IF OrphanWritesTo("plan") THEN "written"
                               ELSE orphan_progress
    ELSE UNCHANGED <<file, orphan_progress>>

DriverContinues(code) ==
    /\ component # "none" /\ MayEnd(code) /\ GoesOn(code)
    /\ component' = NextComponent
    /\ input' = InputOf(NextComponent, file)
    /\ progress' = "start"
    /\ DeletePlans(NextComponent)
    /\ UNCHANGED <<setting, script_vars, orphan, mixed, returncode>>

\* The process of the step ends: its script, or the driver with the exit
\* code of its last component.
ProcessEnds(code) ==
    /\ component # "none" /\ MayEnd(code) /\ ~GoesOn(code)
    /\ returncode' = code
    /\ component' = "none"
    /\ input' = "absent"
    /\ progress' = "start"

-----------------------------------------------------------------------------
\* The process that is started: symba.py, or fast-downward.py.
Start(c) ==
    /\ component' = c
    /\ input' = InputOf(c, file)
    /\ progress' = "start"

CallPlanner(p) ==
    /\ script' = "planner"
    /\ selected' = p
    /\ Start(IF p = "symba" THEN "symba" ELSE "translate")

\* Mutant: the exit code of the process is not looked at.
Succeeds_Unchecked(code) == TRUE

\* check_call does not raise CalledProcessError.
Succeeds(code) == code = 0

\* The graph has been computed: the image comes next ...
GraphComputed(code) ==
    /\ script = "graph"
    /\ ProcessEnds(code)
    /\ Succeeds(code)
    /\ script' = "start_image"
    /\ UNCHANGED <<setting, selected, returned, orphan_vars, file_vars>>

CreateImage ==
    /\ script = "start_image"
    /\ script' = "image"
    /\ Start("image")
    /\ UNCHANGED <<setting, selected, returned, orphan_vars, file_vars,
                   returncode>>

\* ... and then the model.
ImageCreated(code) ==
    /\ script = "image"
    /\ ProcessEnds(code)
    /\ Succeeds(code)
    /\ script' = "select"
    /\ UNCHANGED <<setting, selected, returned, orphan_vars, file_vars>>

\* Either of them has failed: determine_and_run_planner returns False.
StepFails(code) ==
    /\ script \in {"graph", "image"}
    /\ ProcessEnds(code)
    /\ ~Succeeds(code)
    /\ script' = "fallback"
    /\ returned' = "False"
    /\ UNCHANGED <<setting, selected, orphan_vars, file_vars>>

\* Mutant: the creation of the image has no time limit.
HasTimeLimit_GraphOnly == script = "graph"

HasTimeLimit == script \in {"graph", "image"}

\* TimeoutExpired: the process is killed.
TimeLimitReached ==
    /\ HasTimeLimit
    /\ script' = "fallback"
    /\ returned' = "False"
    /\ returncode' = 1
    /\ component' = "none"
    /\ input' = "absent"
    /\ progress' = "start"
    /\ IF script = "graph" /\ ~image_from_lifted_task /\ Works
       THEN orphan' = component /\ orphan_progress' = progress
       ELSE UNCHANGED orphan_vars
    /\ UNCHANGED <<setting, selected, file_vars>>

\* The assertion that the image exists, and select_algorithm_from_model,
\* either of which may raise an exception nobody handles.
SelectPlanner ==
    /\ script = "select"
    /\ file["image"] # "absent"
    /\ \E p \in Planner \ {"none", "fallback"} : CallPlanner(p)
    /\ UNCHANGED <<setting, returned, orphan_vars, file_vars,
                   returncode>>

SelectionRaises ==
    /\ script = "select"
    /\ script' = "raised"
    /\ UNCHANGED <<setting, selected, returned, component_vars, orphan_vars,
                   file_vars, returncode>>

RunFallback ==
    /\ script = "fallback"
    /\ CallPlanner("fallback")
    /\ UNCHANGED <<setting, returned, orphan_vars, file_vars,
                   returncode>>

\* subprocess.call waits for the planner, whatever its exit code is.
PlannerDone(code) ==
    /\ script = "planner"
    /\ ProcessEnds(code)
    /\ script' = "done"
    /\ returned' = IF selected = "fallback" THEN returned ELSE "True"
    /\ UNCHANGED <<setting, selected, orphan_vars, file_vars>>

-----------------------------------------------------------------------------
DelfiFinished == script \in {"done", "raised"} /\ UNCHANGED delfi_vars

Script ==
    \/ CreateImage \/ TimeLimitReached \/ SelectPlanner \/ SelectionRaises
    \/ RunFallback

EndOfProcess ==
    \E code \in {0, 1} :
        \/ DriverContinues(code) \/ GraphComputed(code) \/ ImageCreated(code)
        \/ StepFails(code) \/ PlannerDone(code)

DelfiNext ==
    \/ Script \/ EndOfProcess
    \/ OpenFile \/ CloseFile \/ SearchAfterGraph
    \/ OrphanWrites \/ OrphanSearches
    \/ DelfiFinished

\* plan-ipc.py runs, its time limits are enforced, and the planner it waits
\* for without one ends; the other processes need not.
DelfiSpec ==
    /\ DelfiInit /\ [][DelfiNext]_delfi_vars
    /\ WF_delfi_vars(Script)
    /\ WF_delfi_vars(script = "planner" /\ EndOfProcess)

-----------------------------------------------------------------------------
\* The model is never asked about another task, or a part of this one: a
\* planner is only selected with an image that was made from the complete
\* graph of the task, whatever processes that failed or were killed and earlier
\* runs have left in the working directory.  The exception is the graph of an
\* earlier run that the graph creator has not replaced (BlissMemoryOut).
SelectedForThisTask ==
    selected \in {"h2", "plain", "symba"} =>
       \/ file["image"] = "right"
       \/ stale_files /\ ~image_from_lifted_task /\ file["graph"] # "right"

\* The blind search that has outlived the graph creation is just writing its
\* plan, or has done so while the planner did.
PlanIsShared == orphan = "blind" /\ (orphan_progress = "writing" \/ mixed)

\* A planner of fast-downward.py that reports a plan has written a plan of
\* this task: neither an output.sas of an earlier run nor one that is only
\* half written, by an orphan for example, is ever solved instead, and nothing
\* but a second plan of this task, written at the same time, spoils the plan.
PlanIsOfThisTask ==
    script = "done" /\ returncode = 0 /\ selected # "symba" =>
       file["plan"] = "right" \/ PlanIsShared

\* Delfi ends if the planner it runs does: nothing else can keep it waiting.
DelfiTerminates == <>(script \in {"done", "raised"})

\* "We catch all exceptions [...] to make sure that if we cannot
\* automatically select a planner, we still run our fallback planner."
FallsBack == script \in {"done", "raised"} => selected # "none"
=============================================================================
