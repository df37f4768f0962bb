---------------------------- MODULE MCLazySearch ----------------------------
(* LazySearch on the tasks of ExampleTasks.                                *)
EXTENDS LazySearch, ExampleTasks
=============================================================================
