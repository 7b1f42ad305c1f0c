--------------------------- MODULE MCSessionStore ---------------------------
(* SessionStore on a small instance; the ids are interchangeable.          *)
EXTENDS SessionStore, TLC

Symmetry == Permutations(Ids)
=============================================================================
