----------------------------- MODULE MCKeyspace ------------------------------
(* A small instance of Scan and Placement for TLC. *)
EXTENDS Scan, Placement

\* Two tenants with names of one byte and of two (one character), an empty name
\* and one of 256 bytes that must be refused.
MCTenants == {<<>>, <<97>>, <<195, 169>>, [i \in 1..256 |-> 97]}
MCPayloads == {<<1>>, <<1, 255>>, <<255>>}
MCPrefixes == {<<>>, <<255>>}
MCQuotaKey == <<1>>
MCUsageKey == <<255>>

\* One shard for all, and the later keys of a scan visited first.
MCLayouts == {[k \in StorageKeys |-> 1], [k \in StorageKeys |-> 1 + (Len(k) % 2)]}

\* Some bytes that matter, and the keys of up to three of them.
MCStrings == UNION {[1..n -> {0, 1, 254, 255}] : n \in 0..3}
MCPoints == {<<>>, <<1>>, <<1, 255>>, <<2>>}

\* The node, the bytes from outside and the coordinator do not interact, so
\* each moves while the others are as they started.
MCInit == Init /\ TextInit /\ PlacementInit
MCNext ==
  \/ Next /\ TextInit /\ PlacementInit /\ UNCHANGED <<text, placementVars>>
  \/ Extend /\ Init /\ PlacementInit /\ UNCHANGED <<vars, placementVars>>
  \/ PlacementNext /\ Init /\ TextInit /\ UNCHANGED <<vars, text>>
MCSpec == MCInit /\ [][MCNext]_<<vars, text, placementVars>>
=============================================================================
