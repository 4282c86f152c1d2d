---------------------------- MODULE MCLiveStream ----------------------------
(* Instances of LiveStream for TLC. *)
EXTENDS LiveStream

CONSTANTS p, q    \* panels

(* One panel keeps two rows, the other shows the last row only.            *)
PanelLengths == [s \in Subscribers |-> IF s = p THEN 2 ELSE 1]
=============================================================================
