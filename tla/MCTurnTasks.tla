---------------------------- MODULE MCTurnTasks ----------------------------
(* TurnTasks for TLC; liveness is checked, so no symmetry. *)
EXTENDS TurnTasks
=============================================================================
