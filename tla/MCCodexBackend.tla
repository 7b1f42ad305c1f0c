--------------------------- MODULE MCCodexBackend ---------------------------
EXTENDS CodexBackend, TLC

\* Neither requests nor provider keys are told apart.
Symmetry == Permutations(Calls) \cup Permutations(Keys)
=============================================================================
