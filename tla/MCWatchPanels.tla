--------------------------- MODULE MCWatchPanels ----------------------------
(* An instance of WatchPanels for TLC; liveness is checked, so no symmetry. *)
EXTENDS WatchPanels
=============================================================================
