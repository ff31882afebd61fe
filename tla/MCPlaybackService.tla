-------------------------- MODULE MCPlaybackService --------------------------
EXTENDS PlaybackService, TLC
Symmetry == Permutations(Users)
=============================================================================
