--------------------------- MODULE MCDurableEngine ---------------------------
EXTENDS WorkItemProgress, TLC
Symmetry == Permutations(RunCalls)
=============================================================================
