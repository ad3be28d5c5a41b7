-------------------------------- MODULE MCWal --------------------------------
(* Small instances of Wal for TLC: the configurations differ in the faults. *)
EXTENDS Wal
=============================================================================
