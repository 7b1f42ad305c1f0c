-------------------------- MODULE MCRequestQueues --------------------------
(* Instance of RequestQueues for TLC; without symmetry, for liveness.      *)
EXTENDS RequestQueues
=============================================================================
