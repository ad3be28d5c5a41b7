------------------------------- MODULE MCWatch -------------------------------
(* Small instances of Watch for TLC. *)
EXTENDS Watch
=============================================================================
