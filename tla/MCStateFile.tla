---------------------------- MODULE MCStateFile -----------------------------
EXTENDS StateFile, TLC

Symmetry == Permutations(Procs) \union Permutations(Updates)
=============================================================================
