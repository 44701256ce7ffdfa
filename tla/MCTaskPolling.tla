--------------------------- MODULE MCTaskPolling ---------------------------
EXTENDS TaskPolling, TLC

Symmetry == Permutations(Task) \cup Permutations(Tab) \cup Permutations(Call)
=============================================================================
