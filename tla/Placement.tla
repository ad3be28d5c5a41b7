------------------------------ MODULE Placement ------------------------------
(***************************************************************************)
(* Where keys live: the coordinator's map of key ranges (ferriskv-coord,    *)
(* placement.rs) and rendezvous hashing (ferriskv-core, hashing.rs).  A     *)
(* RangeMap is read and written under one lock; hrw_select is pure, and is  *)
(* asked here about the nodes that have joined so far.                      *)
(***************************************************************************)
EXTENDS Keyspace, FiniteSets, TLC

CONSTANTS
  Points,     \* the keys that ranges start and end at and that are looked up
  MaxRanges,  \* bound on the ranges inserted
  NodeIds,    \* the names of the nodes
  Scores,     \* the hashes a key and a node name can have
  Open        \* no end: the range reaches to the last key

ASSUME PlacementAssumption ==
  /\ Points \subseteq Seq(Byte)
  /\ MaxRanges \in Nat
  /\ Scores \subseteq Nat

VARIABLES
  ranges,     \* RangeMap.inner
  score       \* the hash of one key with the name of each node there is

placementVars == <<ranges, score>>

\* A range is [id, start, end]: id stands for the shard, its primary and its
\* replicas.
RangeContains(range, key) ==
  AtMost(range.start, key) /\ (range.end # Open => Less(key, range.end))

\* slice::partition_point on a sorted slice: how many starts are at most `key`.
PartitionPoint(map, key) ==
  Cardinality({i \in DOMAIN map : AtMost(map[i].start, key)})

(* Mutant: a range is inserted where its start is found first. *)
InsertInFront(map, entry) ==
  LET pos == Cardinality({i \in DOMAIN map : Less(map[i].start, entry.start)})
  IN InsertAt(map, pos + 1, entry)

Insert(map, entry) == InsertAt(map, PartitionPoint(map, entry.start) + 1, entry)

\* The entries that answer a lookup: at most one.
Lookup(map, key) ==
  LET idx == PartitionPoint(map, key)
  IN IF idx = 0 THEN {} ELSE {e \in {map[idx]} : RangeContains(e, key)}

(* Mutant: the nodes with the lowest scores are taken. *)
HrwSelectLowest(nodes, n) ==
  {SubSeq(s, 1, Min({n, Len(s)})) :
     s \in {t \in SetToSeqs(nodes) : \A i, j \in DOMAIN t : i < j => score[t[i]] <= score[t[j]]}}

\* hrw_select: the n nodes with the highest scores, best first.  The sort is
\* unstable: nodes with equal scores come in either order.
HrwSelect(nodes, n) ==
  {SubSeq(s, 1, Min({n, Len(s)})) :
     s \in {t \in SetToSeqs(nodes) : \A i, j \in DOMAIN t : i < j => score[t[i]] >= score[t[j]]}}

PlacementInit == ranges = <<>> /\ score = <<>>

\* A range is named by its place in the sequence of insertions.
InsertRange(start, end) ==
  /\ Len(ranges) < MaxRanges
  /\ ranges' = Insert(ranges, [id |-> Len(ranges) + 1, start |-> start, end |-> end])
  /\ UNCHANGED score

Join(node, hash) ==
  /\ node \notin DOMAIN score
  /\ score' = [m \in DOMAIN score \cup {node} |-> IF m = node THEN hash ELSE score[m]]
  /\ UNCHANGED ranges

PlacementNext ==
  \/ /\ score = <<>>
     /\ \E start \in Points, end \in Points \cup {Open} : InsertRange(start, end)
  \/ /\ ranges = <<>>
     /\ \E node \in NodeIds, hash \in Scores : Join(node, hash)

PlacementSpec == PlacementInit /\ [][PlacementNext]_placementVars

-----------------------------------------------------------------------------
(* Properties *)

\* placement.rs:43-55: a lookup finds the one range that holds the key when the
\* ranges inserted are not empty and do not overlap, in whatever order they
\* came; when they do, or one is empty, it answers with the newest range among
\* those that start last at or before the key, if that range holds the key, or
\* with nothing.
LookupExact ==
  LET all == {ranges[i] : i \in DOMAIN ranges}
      Holding(key) == {r \in all : RangeContains(r, key)}
      Before(key) == {r \in all : AtMost(r.start, key)}
      Newest(key) == {r \in Before(key) : \A o \in Before(key) \ {r} :
                        Less(o.start, r.start) \/ (o.start = r.start /\ o.id < r.id)}
      disjoint == /\ \A r \in all : RangeContains(r, r.start)
                  /\ \A key \in Points : Cardinality(Holding(key)) <= 1
  IN \A key \in Points :
       /\ disjoint => Lookup(ranges, key) = Holding(key)
       /\ Lookup(ranges, key) = Newest(key) \cap Holding(key)

\* hashing.rs:18-28: whatever the hashes and however the sort orders equal ones,
\* when a node x goes, another node d loses its place to a node g only if the two
\* have equal hashes, and stays if its hash is its own; the nodes that come in
\* for x are one, or have equal hashes; nobody who is left out has a higher hash
\* than somebody who is selected.  Read backwards it is what happens when x comes.
HrwMovesLittle ==
  LET nodes == DOMAIN score IN
  \A x \in nodes, n \in 0..Cardinality(nodes) :
    LET Of(selection) == {selection[i] : i \in DOMAIN selection}
    IN /\ \A s \in HrwSelect(nodes, n), t \in HrwSelect(nodes \ {x}, n) :
            /\ \A d \in Of(s) \ Of(t), g \in Of(t) \ Of(s) : d # x => score[d] = score[g]
            /\ \A d \in Of(s) \ Of(t) : d # x => \E g \in Of(t) : score[d] = score[g]
            /\ \A g, h \in Of(t) \ Of(s) : g # h => score[g] = score[h]
       /\ \A s \in HrwSelect(nodes, n), node \in nodes :
            node \notin Of(s) => \A kept \in Of(s) : score[kept] >= score[node]
=============================================================================
