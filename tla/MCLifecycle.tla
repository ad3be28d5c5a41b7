----------------------------- MODULE MCLifecycle -----------------------------
(* Small instances of Lifecycle and TtlSweeper for TLC. *)
EXTENDS Lifecycle

\* Overlapping writes without an admin server, one write with it.
MCSetups == {<<2, FALSE>>, <<1, TRUE>>}
=============================================================================
