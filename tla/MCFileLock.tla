----------------------------- MODULE MCFileLock -----------------------------
EXTENDS FileLock, TLC

Symmetry == Permutations(Procs)
=============================================================================
