-------------------------- MODULE MCStateManager --------------------------
(* Instances of StateManager for TLC. *)
EXTENDS StateManager

(* Every value of every option, and both a For of two intervals and none   *)
(* with ExecErrState Alerting, the only place the two options meet.        *)
SomeConfigs == {[for |-> 2, noData |-> "NoData", execErr |-> "Alerting"],
                [for |-> 0, noData |-> "OK", execErr |-> "Alerting"],
                [for |-> 2, noData |-> "OK", execErr |-> "Error"],
                [for |-> 0, noData |-> "Alerting", execErr |-> "OK"]}

(* The options that differ in how a series gets into and out of Alerting.  *)
FewConfigs == {[for |-> 2, noData |-> "NoData", execErr |-> "Alerting"],
               [for |-> 0, noData |-> "OK", execErr |-> "Error"]}
=============================================================================
