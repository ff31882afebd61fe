---------------------------- MODULE MCVideoSurface ----------------------------
(* Small instances of the video surface for TLC. *)
EXTENDS VideoSurface, TLC

Symmetry == Permutations(Hwnds) \cup Permutations(Callers)
=============================================================================
