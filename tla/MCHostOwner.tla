---------------------------- MODULE MCHostOwner ----------------------------
(* Two hosts, one maintenance process and the installer. *)
EXTENDS HostOwner
=============================================================================
