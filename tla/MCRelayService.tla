--------------------------- MODULE MCRelayService ---------------------------
EXTENDS RelayService, TLC
Symmetry == Permutations(Users)
=============================================================================
