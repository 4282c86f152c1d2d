---------------------------- MODULE MCPanelQuery ----------------------------
(* Instances of PanelQuery for TLC. *)
EXTENDS PanelQuery

(* Sound because the data sources are interchangeable: which of them the   *)
(* first run is started with makes no difference.                          *)
FirstSource == source[1] \in {None, CHOOSE s \in Sources : TRUE}
=============================================================================
