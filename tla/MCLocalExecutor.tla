-------------------------- MODULE MCLocalExecutor --------------------------
(* Small instances of LocalExecutor for TLC. *)
EXTENDS LocalExecutor
=============================================================================
