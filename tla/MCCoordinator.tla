--------------------------- MODULE MCCoordinator ---------------------------
(* Coordinator for TLC: two owners share the task slots.  Liveness is      *)
(* checked, so no symmetry.                                                *)
EXTENDS Coordinator
=============================================================================
