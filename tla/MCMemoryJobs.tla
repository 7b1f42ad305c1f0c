---------------------------- MODULE MCMemoryJobs ----------------------------
EXTENDS MemoryJobs, TLC

\* Startup tasks are not told apart.
Symmetry == Permutations(Workers)
=============================================================================
