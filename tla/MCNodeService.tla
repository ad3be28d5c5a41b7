---------------------------- MODULE MCNodeService ----------------------------
(* Small instances of NodeService for TLC. *)
EXTENDS NodeService, TLC

Symmetry == Permutations(Clients) \cup Permutations(Keys)
=============================================================================
