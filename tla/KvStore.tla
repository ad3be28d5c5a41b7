------------------------------- MODULE KvStore -------------------------------
(***************************************************************************)
(* What a node promises its clients: one map from keys to entries, changed  *)
(* one key at a time, whose content survives a restart of the process.      *)
(* The one freedom a restart has is over the keys that are "unsettled":     *)
(* some operation on them had started and its outcome was not yet fixed.    *)
(***************************************************************************)
CONSTANTS
  Keys,      \* the keys
  Entries,   \* what a key may hold: a payload and its expiration stamp
  None       \* the key is absent

VARIABLES
  dict,      \* the map clients read
  unsettled  \* keys whose content a restart may still decide

vars == <<dict, unsettled>>

Maps == [Keys -> Entries \cup {None}]

TypeOK ==
  /\ dict \in Maps
  /\ unsettled \in SUBSET Keys

Init ==
  /\ dict = [k \in Keys |-> None]
  /\ unsettled = {}

\* An operation on k begins.
Begin(k) ==
  /\ unsettled' = unsettled \cup {k}
  /\ UNCHANGED dict

\* An operation on k takes effect. Only a key with an operation open changes.
Land(k) ==
  /\ k \in unsettled
  /\ dict' \in Maps
  /\ \A j \in Keys \ {k} : dict'[j] = dict[j]
  /\ UNCHANGED unsettled

\* The last operation open on k ends, and k means what it says again.
Settle(k) ==
  /\ k \in unsettled
  /\ unsettled' = unsettled \ {k}
  /\ UNCHANGED dict

\* The process stops and comes back: every settled key is as it was.
Restart ==
  /\ dict' \in Maps
  /\ \A k \in Keys \ unsettled : dict'[k] = dict[k]
  /\ unsettled' = {}

Next ==
  \/ \E k \in Keys : Begin(k) \/ Land(k) \/ Settle(k)
  \/ Restart

Spec == Init /\ [][Next]_vars
=============================================================================
