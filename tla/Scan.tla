-------------------------------- MODULE Scan ---------------------------------
(***************************************************************************)
(* A tenant's data in storage and a scan over it (ferriskv-core storage.rs; *)
(* ferriskv-node service.rs, scan_range and filter_scan; grpc.rs,           *)
(* scan_impl), with the records the node keeps for itself in the other      *)
(* subspaces (quota.rs) and the scan of everything at start-up.             *)
(*                                                                          *)
(* The in-memory backend is a sharded map that is iterated one shard after  *)
(* the other with only that shard locked, so writes fall between them; the  *)
(* fjall backend reads one snapshot, which is the case of a single shard.   *)
(***************************************************************************)
EXTENDS Keyspace, TLC

CONSTANTS
  Tenants,         \* the names clients and operators send, good or not
  Payloads,        \* the user keys
  ScanPrefixes,    \* the prefixes scanned
  Limits,          \* the limits requested
  Ttls,            \* the lifetimes requested, 0 for none
  QUOTA_KEY,       \* the payload of a quota record, a user key as well
  USAGE_KEY,       \* the payload of a usage record
  MaxScanLimit,    \* limits.max_scan_limit
  SCAN_CHUNK_SIZE,
  Shards,          \* the number of shards of the map
  Layouts,         \* ways to spread the keys over them
  MaxWrites,       \* bound on the writes
  MaxClock,        \* bound on the clock
  None             \* no entry

Known == {t \in Tenants : TenantOk(t)}
StorageKeys == {Encode(t, s, p) : t \in Known, s \in Subspaces, p \in Payloads}

Entries == [value : Nat, expires : Nat]

\* The names of tenants arrive as text.
ASSUME ScanAssumption ==
  /\ Tenants \subseteq Seq(Byte) /\ \A t \in Tenants : IsUtf8(t)
  /\ Payloads \subseteq Seq(Byte) /\ ScanPrefixes \subseteq Seq(Byte)
  /\ QUOTA_KEY \in Payloads /\ USAGE_KEY \in Payloads
  /\ Limits \subseteq Nat /\ Ttls \subseteq Nat
  /\ MaxScanLimit \in Nat \ {0}
  /\ SCAN_CHUNK_SIZE \in Nat \ {0}
  /\ Shards \in Nat \ {0}
  /\ Layouts \subseteq [StorageKeys -> 1..Shards]
  /\ MaxWrites \in Nat /\ MaxClock \in Nat
  /\ None \notin Entries

VARIABLES
  store,    \* the storage: encoded key to entry
  shard_of, \* the hash that spreads keys over the shards
  clock,
  scan,     \* the scan in progress
  kv,       \* what each tenant has written, by payload
  quota,    \* what quota each tenant was given
  writes    \* how many writes are left

\* kv, quota and the seen of a scan are observations for the properties.
vars == <<store, shard_of, clock, scan, kv, quota, writes>>

NoScan == [step |-> "idle"]

Init ==
  /\ store = <<>>
  /\ shard_of \in Layouts
  /\ clock = 0
  /\ scan = NoScan
  /\ kv = [t \in Known |-> [p \in Payloads |-> None]]
  /\ quota = [t \in Known |-> None]
  /\ writes = MaxWrites

\* ValueCodec::is_expired; 0 stands for an entry without expiration.
IsExpired(entry, now) == entry.expires # 0 /\ now >= entry.expires

-----------------------------------------------------------------------------
(* Writes, as they reach storage *)

\* An answer is looked at before anything else happens: until ScanDone it only
\* waits for the client.
SpendWrite == scan.step # "answered" /\ writes > 0 /\ writes' = writes - 1

\* A scan that overlaps the write may see either entry.
Noting(t, p, entry) ==
  IF scan.step # "idle" /\ scan.tenant = t
  THEN [scan EXCEPT !.seen[p] = @ \cup {entry}]
  ELSE scan

\* A value that differs from the one it replaces.
Other(old) == IF old = None THEN 1 ELSE old.value + 1

\* Storage::put.
Storing(key, entry, entries) ==
  [k \in DOMAIN entries \cup {key} |-> IF k = key THEN entry ELSE entries[k]]

\* commit_accounting, after a write of data: the new total goes to the stats.
WithUsage(t, entries) ==
  Storing(Encode(t, Stats, USAGE_KEY), [value |-> 0, expires |-> 0], entries)

Put(t, p, ttl) ==
  LET entry == [value |-> Other(kv[t][p]),
                expires |-> IF ttl > 0 THEN clock + ttl ELSE 0]
  IN /\ TenantOk(t)
     /\ SpendWrite
     /\ store' = WithUsage(t, Storing(Encode(t, Data, p), entry, store))
     /\ kv' = [kv EXCEPT ![t][p] = entry]
     /\ scan' = Noting(t, p, entry)
     /\ UNCHANGED <<shard_of, clock, quota>>

\* (Deleting a key that is not there leaves storage as it is.)
Delete(t, p) ==
  LET key == Encode(t, Data, p) IN
  /\ TenantOk(t)
  /\ key \in DOMAIN store
  /\ SpendWrite
  /\ store' = WithUsage(t, [k \in DOMAIN store \ {key} |-> store[k]])
  /\ kv' = [kv EXCEPT ![t][p] = None]
  /\ scan' = Noting(t, p, None)
  /\ UNCHANGED <<shard_of, clock, quota>>

\* set_quota stores its record in the tenant's metadata.
StoreQuota(t) ==
  LET record == [value |-> Other(quota[t]), expires |-> 0] IN
  /\ TenantOk(t)
  /\ SpendWrite
  /\ store' = Storing(Encode(t, Metadata, QUOTA_KEY), record, store)
  /\ quota' = [quota EXCEPT ![t] = record]
  /\ UNCHANGED <<shard_of, clock, scan, kv>>

-----------------------------------------------------------------------------
(* The scan *)

(* Mutant: the limit is taken as it was asked for. *)
CapAsAsked(requested) == requested

CapScanLimit(requested) ==
  IF requested = 0 \/ requested > MaxScanLimit THEN MaxScanLimit ELSE requested

ScanRequest(t, prefix, limit) ==
  /\ TenantOk(t)
  /\ scan.step = "idle"
  /\ scan' = [step |-> "visit", tenant |-> t, prefix |-> prefix,
              limit |-> CapScanLimit(limit), shard |-> 1, found |-> {},
              seen |-> [p \in Payloads |-> {kv[t][p]}], now |-> 0, chunks |-> <<>>]
  /\ UNCHANGED <<store, shard_of, clock, kv, quota, writes>>

\* The keys of one shard that lie between the bounds, with their entries.
VisitShard ==
  LET bounds == EncodeDataScanBounds(scan.tenant, scan.prefix)
      keys == {k \in DOMAIN store : shard_of[k] = scan.shard
                                    /\ InRange(k, bounds.start, bounds.end)}
  IN /\ scan.step = "visit"
     /\ scan' = [scan EXCEPT !.found = @ \cup {[key |-> k, entry |-> store[k]] : k \in keys},
                             !.shard = @ + 1,
                             !.step = IF scan.shard = Shards THEN "filter" ELSE "visit"]
     /\ UNCHANGED <<store, shard_of, clock, kv, quota, writes>>

\* sort_unstable_by: entries in the order of their keys.
Sorted(entries) ==
  CHOOSE s \in SetToSeqs(entries) :
    \A i, j \in DOMAIN s : i < j => ~Less(s[j].key, s[i].key)

(* Mutant: the limit is applied before expired entries are left out. *)
TakeThenFilter(found, limit, now) ==
  LET sorted == Sorted(found)
      taken == SubSeq(sorted, 1, Min({limit, Len(sorted)}))
  IN SelectSeq(taken, LAMBDA e : ~IsExpired(e.entry, now))

\* The entries that have not expired, up to the limit, in key order (which
\* leaving out the others does not change).
FilterScan(found, limit, now) ==
  LET live == Sorted({e \in found : ~IsExpired(e.entry, now)})
  IN SubSeq(live, 1, Min({limit, Len(live)}))

\* Chunks of SCAN_CHUNK_SIZE entries, and the rest if there is one.
Chunked(entries) ==
  LET full == Len(entries) \div SCAN_CHUNK_SIZE
      count == IF full * SCAN_CHUNK_SIZE < Len(entries) THEN full + 1 ELSE full
  IN [c \in 1..count |->
        SubSeq(entries, (c - 1) * SCAN_CHUNK_SIZE + 1,
               Min({c * SCAN_CHUNK_SIZE, Len(entries)}))]

\* filter_scan reads the clock once, after storage was read.
ScanAnswer ==
  LET strip_len == EncodeDataScanBounds(scan.tenant, scan.prefix).strip_len
      entries == FilterScan(scan.found, scan.limit, clock)
      user == [i \in DOMAIN entries |-> [key |-> StripPrefix(entries[i].key, strip_len),
                                         value |-> entries[i].entry.value]]
  IN /\ scan.step = "filter"
     /\ scan' = [scan EXCEPT !.step = "answered", !.now = clock, !.chunks = Chunked(user)]
     /\ UNCHANGED <<store, shard_of, clock, kv, quota, writes>>

\* The client has the answer.
ScanDone ==
  /\ scan.step = "answered"
  /\ scan' = NoScan
  /\ UNCHANGED <<store, shard_of, clock, kv, quota, writes>>

Tick ==
  /\ clock < MaxClock
  /\ scan.step # "answered"
  /\ clock' = clock + 1
  /\ UNCHANGED <<store, shard_of, scan, kv, quota, writes>>

Next ==
  \/ \E t \in Tenants, p \in Payloads : Delete(t, p) \/ \E ttl \in Ttls : Put(t, p, ttl)
  \/ \E t \in Tenants : StoreQuota(t)
  \/ \E t \in Tenants, prefix \in ScanPrefixes, limit \in Limits : ScanRequest(t, prefix, limit)
  \/ VisitShard
  \/ ScanAnswer
  \/ ScanDone
  \/ Tick

Spec == Init /\ [][Next]_vars

-----------------------------------------------------------------------------
(* The scan of everything at start-up *)

\* load_quotas: the quota records among all the keys.
LoadQuotas ==
  {<<Decode(k).tenant, store[k]>> :
     k \in {key \in DOMAIN store : /\ Decode(key) # Corrupt
                                   /\ Decode(key).subspace = Metadata
                                   /\ Decode(key).payload = QUOTA_KEY}}

\* bootstrap_from_storage: the entries counted as a tenant's usage.
Counted ==
  {<<Decode(k).tenant, Decode(k).payload, store[k]>> :
     k \in {key \in DOMAIN store : Decode(key) # Corrupt /\ Decode(key).subspace = Data}}

-----------------------------------------------------------------------------
(* Properties *)

TypeOK ==
  /\ DOMAIN store \subseteq StorageKeys
  /\ \A k \in DOMAIN store : store[k] \in Entries
  /\ shard_of \in Layouts
  /\ clock \in 0..MaxClock
  /\ kv \in [Known -> [Payloads -> Entries \cup {None}]]
  /\ quota \in [Known -> Entries \cup {None}]
  /\ writes \in 0..MaxWrites
  /\ scan = NoScan
     \/ /\ scan.step \in {"visit", "filter", "answered"}
        /\ scan.limit \in 1..MaxScanLimit
        /\ scan.shard \in 1..Shards + 1

\* scan_impl: the answer holds the tenant's own keys under the prefix, in
\* order and once each, with entries that were there and not expired while the
\* scan ran; a key that was there all along is missing only if it lies past
\* the limit.  Without overlapping writes this is the exact answer.
ScanExact ==
  LET answer == FlattenSeq(scan.chunks)
      Live(e) == e # None /\ ~IsExpired(e, scan.now)
      asked == {p \in Payloads : IsPrefix(scan.prefix, p)}
      full == Len(answer) = scan.limit
  IN scan.step = "answered" =>
       /\ Len(answer) <= scan.limit
       /\ \A i, j \in DOMAIN answer : i < j => Less(answer[i].key, answer[j].key)
       /\ \A i \in DOMAIN answer :
            /\ answer[i].key \in asked
            /\ \E e \in scan.seen[answer[i].key] : Live(e) /\ e.value = answer[i].value
       /\ \A p \in asked : (\A e \in scan.seen[p] : Live(e)) =>
            \/ \E i \in DOMAIN answer : answer[i].key = p
            \/ full /\ Less(Last(answer).key, p)
       /\ \A c \in DOMAIN scan.chunks : Len(scan.chunks[c]) \in 1..SCAN_CHUNK_SIZE

\* service.rs:363-380 and quota.rs:230-257: the scan of everything at start-up
\* finds every tenant's data and quota record again under the right tenant,
\* and takes neither for the other nor for the node's own records, whatever
\* the names of tenants and keys.
BootScanExact ==
  /\ Counted = UNION {{<<t, p, kv[t][p]>> : p \in {q \in Payloads : kv[t][q] # None}} :
                        t \in Known}
  /\ LoadQuotas = {<<t, quota[t]>> : t \in {u \in Known : quota[u] # None}}
=============================================================================
