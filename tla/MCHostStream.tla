---------------------------- MODULE MCHostStream ----------------------------
(* Small instances of HostStream for TLC. *)
EXTENDS HostStream
=============================================================================
