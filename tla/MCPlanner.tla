----------------------------- MODULE MCPlanner ------------------------------
(* Two engines, plan costs 0 to 2 (the bound "infinity" is 3), and the     *)
(* combinations of options that lead to different ends of the search.      *)
EXTENDS Planner

With(names) == [o \in OptionName |-> o \in names]

Anytime == {"iterated", "pass_bound", "repeat_last", "continue_on_fail",
            "continue_on_solve"}

SomeOptions ==
    {With(Anytime), With((Anytime \ {"continue_on_fail"}) \cup {"max_time"}),
     With(Anytime \ {"pass_bound", "repeat_last"}), With({"max_time"})}
=============================================================================
