-------------------------- MODULE MCDevicePresence --------------------------
(* Small instances of device presence for TLC. *)
EXTENDS DevicePresence, TLC

Symmetry == Permutations(Macs) \cup Permutations(Adapters) \cup Permutations(Indexes)
=============================================================================
