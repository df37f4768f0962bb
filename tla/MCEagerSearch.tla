--------------------------- MODULE MCEagerSearch ---------------------------
(* EagerSearch on the tasks of ExampleTasks.                               *)
EXTENDS EagerSearch, ExampleTasks
=============================================================================
