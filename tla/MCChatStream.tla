---------------------------- MODULE MCChatStream ----------------------------
(* Small instances of ChatStream for the model checker.                    *)
EXTENDS ChatStream, TLC

Symmetry == Permutations(Streams)
=============================================================================
