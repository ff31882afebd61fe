--------------------------- MODULE MCConfigStore ---------------------------
EXTENDS ConfigStore, TLC
Symmetry == Permutations(Writers) \cup Permutations(Secrets) \cup Permutations(Macs)
=============================================================================
