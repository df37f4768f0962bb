--------------------------- MODULE MCSatPortfolio ---------------------------
(* Portfolios of two configurations, the first of which follows the cost   *)
(* type, with and without a final one; plan costs 0 to 2 (the bound        *)
(* "infinity" is 3).                                                       *)
EXTENDS SatPortfolio

TwoConfigs == <<[time |-> 1, adapts |-> TRUE], [time |-> 2, adapts |-> FALSE]>>

AllFinals == {[configs |-> TwoConfigs, final |-> f] :
                 f \in {"none", "config", "builder"}}
=============================================================================
