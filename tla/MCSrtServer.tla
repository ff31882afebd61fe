---------------------------- MODULE MCSrtServer ----------------------------
EXTENDS SrtServer, TLC
Symmetry == Permutations(Callers)
=============================================================================
