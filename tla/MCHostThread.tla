---------------------------- MODULE MCHostThread ----------------------------
(* HostThread for TLC; the values are in the configuration. *)
EXTENDS HostThread
=============================================================================
