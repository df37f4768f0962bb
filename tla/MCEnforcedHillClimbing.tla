----------------------- MODULE MCEnforcedHillClimbing -----------------------
(* EnforcedHillClimbing on the tasks of ExampleTasks.                      *)
EXTENDS EnforcedHillClimbing, ExampleTasks
=============================================================================
