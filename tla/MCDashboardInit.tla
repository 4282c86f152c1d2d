--------------------------- MODULE MCDashboardInit ---------------------------
(* Instances of DashboardInit for TLC. *)
EXTENDS DashboardInit

CONSTANTS v, w, x    \* variables

(* One variable needs another, which needs nothing; the third is constant. *)
Chained == [y \in Variables |-> IF y = w THEN {v} ELSE {}]
=============================================================================
