------------------------------ MODULE ScanProofs -----------------------------
(***************************************************************************)
(* Theorems about storage as several tenants and the node share it, for any *)
(* tenants, keys, layouts and writes.                                       *)
(*                                                                          *)
(* The start-up scan is right because the codec is injective on the keys    *)
(* that can be stored, and because storage agrees, key by key, with what    *)
(* was written (StoreInv).                                                  *)
(*                                                                          *)
(* A client's scan is right because of what it has collected after each     *)
(* shard (Collected), which no write in between can spoil, and because      *)
(* bounds, order, filter and chunks do to any collected entries what they   *)
(* should: the range is the tenant's keys under the prefix (ScannedKeys),   *)
(* keys are in the order of their payloads (KeyOrder), sorting keeps every  *)
(* entry once (SortedSorts), and the chunks are the answer (ChunkFacts).    *)
(***************************************************************************)
EXTENDS Scan, KeyspaceProofs

-----------------------------------------------------------------------------
(* Keys *)

\* What is known of the parts of a stored key.
LEMMA KeyParts ==
  ASSUME NEW t \in Known, NEW s \in Subspaces, NEW p \in Payloads
  PROVE  /\ t \in Seq(Byte) /\ t # <<>> /\ Len(t) <= MAX_TENANT_LEN /\ IsUtf8(t)
         /\ s \in Byte /\ p \in Seq(Byte)
<1>1. t \in Tenants /\ TenantOk(t)
  BY DEF Known
<1>2. t \in Seq(Byte) /\ IsUtf8(t) /\ p \in Seq(Byte)
  BY <1>1, ScanAssumption
<1>3. s \in Byte
  BY DEF Subspaces, Metadata, Data, Index, Stats, Byte
<1>4. QED
  BY <1>1, <1>2, <1>3 DEF TenantOk

\* key.rs, decode: what encode wrote for a tenant of the node is read back.
LEMMA DecodeOfEncode ==
  ASSUME NEW t \in Known, NEW s \in Subspaces, NEW p \in Payloads
  PROVE  /\ Decode(Encode(t, s, p)) = [tenant |-> t, subspace |-> s, payload |-> p]
         /\ Decode(Encode(t, s, p)) # Corrupt
<1>1. t \in Seq(Byte) /\ TenantOk(t) /\ IsUtf8(t) /\ p \in Seq(Byte)
  BY KeyParts DEF Known
<1>2. QED
  BY <1>1, EncodedDecodes

\* Keys with different parts are different.
LEMMA KeysApart ==
  ASSUME NEW t \in Known, NEW s \in Subspaces, NEW p \in Payloads,
         NEW u \in Known, NEW r \in Subspaces, NEW q \in Payloads,
         Encode(t, s, p) = Encode(u, r, q)
  PROVE  t = u /\ s = r /\ p = q
<1>1. [tenant |-> t, subspace |-> s, payload |-> p] = [tenant |-> u, subspace |-> r, payload |-> q]
  BY DecodeOfEncode
<1>2. QED
  BY <1>1

-----------------------------------------------------------------------------
(* Types *)

\* What storage may hold.
StoreOk(st) == DOMAIN st \subseteq StorageKeys /\ \A k \in DOMAIN st : st[k] \in Entries

\* A scan under way.  (`chunks` is whatever the filter left.)
ScanRecords(chunks) ==
  [step : {"visit", "filter", "answered"}, tenant : Known, prefix : ScanPrefixes,
   limit : 1..MaxScanLimit, shard : 1..Shards + 1,
   found : SUBSET [key : StorageKeys, entry : Entries],
   seen : [Payloads -> SUBSET (Entries \cup {None})], now : Nat, chunks : {chunks}]

ScanOk ==
  scan = NoScan \/ /\ \E chunks : scan \in ScanRecords(chunks)
                   /\ scan.step = "visit" => scan.shard <= Shards

TypeInv == TypeOK /\ ScanOk

\* A key that is put together from a tenant's name is one that can be stored.
LEMMA StorageKey ==
  ASSUME NEW t \in Known, NEW s \in Subspaces, NEW p \in Payloads
  PROVE  Encode(t, s, p) \in StorageKeys
BY DEF StorageKeys

\* Storage::put keeps the types.
LEMMA StoringOk ==
  ASSUME NEW st, StoreOk(st), NEW key \in StorageKeys, NEW entry \in Entries
  PROVE  StoreOk(Storing(key, entry, st))
BY DEF StoreOk, Storing

\* So does the write of the usage record.
LEMMA WithUsageOk ==
  ASSUME NEW st, StoreOk(st), NEW t \in Known
  PROVE  StoreOk(WithUsage(t, st))
<1>1. Encode(t, Stats, USAGE_KEY) \in StorageKeys
  BY StorageKey, ScanAssumption DEF Subspaces
<1>2. [value |-> 0, expires |-> 0] \in Entries
  BY DEF Entries
<1>3. QED
  BY <1>1, <1>2, StoringOk DEF WithUsage

\* A scan keeps its type when it is told of a write.
LEMMA NotingOk ==
  ASSUME ScanOk, NEW t \in Known, NEW p \in Payloads, NEW entry \in Entries \cup {None},
         scan' = Noting(t, p, entry)
  PROVE  ScanOk'
<1>1. CASE scan' = scan
  BY <1>1 DEF ScanOk
<1>2. CASE scan' # scan
  <2>1. scan.step # "idle" /\ scan' = [scan EXCEPT !.seen[p] = scan.seen[p] \cup {entry}]
    BY <1>2 DEF Noting
  <2>2. scan # NoScan
    BY <2>1 DEF NoScan
  <2>3. PICK chunks : scan \in ScanRecords(chunks)
    BY <2>2 DEF ScanOk
  <2>4. PICK more : more = [scan.seen EXCEPT ![p] = scan.seen[p] \cup {entry}]
    OBVIOUS
  <2>5. more \in [Payloads -> SUBSET (Entries \cup {None})]
    <3>1. scan.seen \in [Payloads -> SUBSET (Entries \cup {None})]
      BY <2>3 DEF ScanRecords
    <3>2. QED
      BY <2>4, <3>1
  <2>6. scan' = [scan EXCEPT !.seen = more]
    BY <2>1, <2>3, <2>4 DEF ScanRecords
  <2>7. scan' \in ScanRecords(chunks) /\ scan'.step = scan.step /\ scan'.shard = scan.shard
    BY <2>3, <2>5, <2>6 DEF ScanRecords
  <2>8. QED
    BY <2>2, <2>7 DEF ScanOk
<1>3. QED
  BY <1>1, <1>2

\* What Known says of a tenant that passed the check.
LEMMA Admitted ==
  ASSUME NEW t \in Tenants, TenantOk(t)
  PROVE  t \in Known
BY DEF Known

\* The states that TypeOK leaves open are told apart by ScanOk.
LEMMA ScanTypes ==
  ASSUME ScanOk
  PROVE  \/ scan = NoScan
         \/ /\ scan.step \in {"visit", "filter", "answered"}
            /\ scan.limit \in 1..MaxScanLimit
            /\ scan.shard \in 1..Shards + 1
BY DEF ScanOk, ScanRecords

\* The written value differs from the one before it and is a number.
LEMMA OtherType ==
  ASSUME NEW old \in Entries \cup {None}
  PROVE  Other(old) \in Nat
BY DEF Other, Entries

\* The parts of TypeOK that do not concern the scan.
DataTypes ==
  /\ StoreOk(store)
  /\ shard_of \in Layouts
  /\ clock \in 0..MaxClock
  /\ kv \in [Known -> [Payloads -> Entries \cup {None}]]
  /\ quota \in [Known -> Entries \cup {None}]
  /\ writes \in 0..MaxWrites

LEMMA TypeInvParts == TypeInv <=> DataTypes /\ ScanOk
BY ScanTypes DEF TypeInv, TypeOK, DataTypes, StoreOk

-----------------------------------------------------------------------------
(* Storage agrees with what was written *)

Holds(st, key, value) ==
  IF value = None THEN key \notin DOMAIN st ELSE key \in DOMAIN st /\ st[key] = value

StoreAgrees(st, data, quotas) ==
  \A t \in Known : /\ \A p \in Payloads : Holds(st, Encode(t, Data, p), data[t][p])
                   /\ Holds(st, Encode(t, Metadata, QUOTA_KEY), quotas[t])

StoreInv == StoreAgrees(store, kv, quota)

\* A write changes what is held under its own key and nothing else.
LEMMA HoldsStoring ==
  ASSUME NEW st, NEW k, NEW e, NEW key, NEW value
  PROVE  /\ key # k => (Holds(Storing(k, e, st), key, value) <=> Holds(st, key, value))
         /\ e # None => Holds(Storing(k, e, st), k, e)
<1>1. ASSUME key # k
      PROVE  Holds(Storing(k, e, st), key, value) <=> Holds(st, key, value)
  BY <1>1 DEF Holds, Storing
<1>2. ASSUME e # None
      PROVE  Holds(Storing(k, e, st), k, e)
  BY <1>2 DEF Holds, Storing
<1>3. QED
  BY <1>1, <1>2

\* commit_accounting's record is no data and no quota.
LEMMA UsageApart ==
  ASSUME NEW st, NEW data, NEW quotas, NEW t \in Known, StoreAgrees(st, data, quotas)
  PROVE  StoreAgrees(WithUsage(t, st), data, quotas)
<1>1. USAGE_KEY \in Payloads /\ QUOTA_KEY \in Payloads
  BY ScanAssumption
<1>2. /\ Data \in Subspaces /\ Stats \in Subspaces /\ Metadata \in Subspaces
      /\ Data # Stats /\ Metadata # Stats
  BY DEF Subspaces, Data, Stats, Metadata
<1>3. ASSUME NEW u \in Known, NEW p \in Payloads
      PROVE  Holds(WithUsage(t, st), Encode(u, Data, p), data[u][p])
  <2>1. Encode(u, Data, p) # Encode(t, Stats, USAGE_KEY)
    BY <1>1, <1>2, KeysApart
  <2>2. Holds(st, Encode(u, Data, p), data[u][p])
    BY DEF StoreAgrees
  <2>3. QED
    BY <2>1, <2>2, HoldsStoring DEF WithUsage
<1>4. ASSUME NEW u \in Known
      PROVE  Holds(WithUsage(t, st), Encode(u, Metadata, QUOTA_KEY), quotas[u])
  <2>1. Encode(u, Metadata, QUOTA_KEY) # Encode(t, Stats, USAGE_KEY)
    BY <1>1, <1>2, KeysApart
  <2>2. Holds(st, Encode(u, Metadata, QUOTA_KEY), quotas[u])
    BY DEF StoreAgrees
  <2>3. QED
    BY <2>1, <2>2, HoldsStoring DEF WithUsage
<1>5. QED
  BY <1>3, <1>4 DEF StoreAgrees

\* A change of one key of the data, seen from every key.
LEMMA DataChanged ==
  ASSUME NEW st, NEW data \in [Known -> [Payloads -> Entries \cup {None}]], NEW quotas,
         StoreAgrees(st, data, quotas), NEW t \in Known, NEW p \in Payloads,
         NEW value, NEW new,
         \A key, v : key # Encode(t, Data, p) => (Holds(new, key, v) <=> Holds(st, key, v)),
         Holds(new, Encode(t, Data, p), value)
  PROVE  StoreAgrees(new, [data EXCEPT ![t][p] = value], quotas)
<1>1. QUOTA_KEY \in Payloads
  BY ScanAssumption
<1>2. Data \in Subspaces /\ Metadata \in Subspaces /\ Data # Metadata
  BY DEF Subspaces, Data, Metadata
<1>3. PICK after : after = [data EXCEPT ![t][p] = value]
  OBVIOUS
<1>4. ASSUME NEW u \in Known, NEW q \in Payloads
      PROVE  after[u][q] = IF u = t /\ q = p THEN value ELSE data[u][q]
  BY <1>3
<1>5. ASSUME NEW u \in Known, NEW q \in Payloads
      PROVE  Holds(new, Encode(u, Data, q), after[u][q])
  <2>1. CASE u = t /\ q = p
    BY <1>4, <2>1
  <2>2. CASE ~(u = t /\ q = p)
    <3>1. Encode(u, Data, q) # Encode(t, Data, p)
      BY <1>2, <2>2, KeysApart
    <3>2. Holds(st, Encode(u, Data, q), data[u][q])
      BY DEF StoreAgrees
    <3>3. after[u][q] = data[u][q]
      BY <1>4, <2>2
    <3>4. QED
      BY <3>1, <3>2, <3>3
  <2>3. QED
    BY <2>1, <2>2
<1>6. ASSUME NEW u \in Known
      PROVE  Holds(new, Encode(u, Metadata, QUOTA_KEY), quotas[u])
  <2>1. Encode(u, Metadata, QUOTA_KEY) # Encode(t, Data, p)
    BY <1>1, <1>2, KeysApart
  <2>2. Holds(st, Encode(u, Metadata, QUOTA_KEY), quotas[u])
    BY DEF StoreAgrees
  <2>3. QED
    BY <2>1, <2>2
<1>7. StoreAgrees(new, after, quotas)
  BY <1>5, <1>6 DEF StoreAgrees
<1>8. QED
  BY <1>3, <1>7

\* A change of one tenant's quota record.
LEMMA QuotaChanged ==
  ASSUME NEW st, NEW data, NEW quotas \in [Known -> Entries \cup {None}],
         StoreAgrees(st, data, quotas), NEW t \in Known, NEW record \in Entries
  PROVE  StoreAgrees(Storing(Encode(t, Metadata, QUOTA_KEY), record, st), data,
                     [quotas EXCEPT ![t] = record])
<1>1. QUOTA_KEY \in Payloads /\ record # None
  BY ScanAssumption
<1>2. Data \in Subspaces /\ Metadata \in Subspaces /\ Data # Metadata
  BY DEF Subspaces, Data, Metadata
<1>3. PICK new, after : /\ new = Storing(Encode(t, Metadata, QUOTA_KEY), record, st)
                        /\ after = [quotas EXCEPT ![t] = record]
  OBVIOUS
<1>4. ASSUME NEW u \in Known, NEW q \in Payloads
      PROVE  Holds(new, Encode(u, Data, q), data[u][q])
  <2>1. Encode(u, Data, q) # Encode(t, Metadata, QUOTA_KEY)
    BY <1>1, <1>2, KeysApart
  <2>2. Holds(st, Encode(u, Data, q), data[u][q])
    BY DEF StoreAgrees
  <2>3. QED
    BY <1>3, <2>1, <2>2, HoldsStoring
<1>5. ASSUME NEW u \in Known
      PROVE  Holds(new, Encode(u, Metadata, QUOTA_KEY), after[u])
  <2>1. CASE u = t
    <3>1. after[u] = record
      BY <1>3, <2>1
    <3>2. QED
      BY <1>1, <1>3, <2>1, <3>1, HoldsStoring
  <2>2. CASE u # t
    <3>1. Encode(u, Metadata, QUOTA_KEY) # Encode(t, Metadata, QUOTA_KEY)
      BY <1>1, <1>2, <2>2, KeysApart
    <3>2. Holds(st, Encode(u, Metadata, QUOTA_KEY), quotas[u])
      BY DEF StoreAgrees
    <3>3. after[u] = quotas[u]
      BY <1>3, <2>2
    <3>4. QED
      BY <1>3, <3>1, <3>2, <3>3, HoldsStoring
  <2>3. QED
    BY <2>1, <2>2
<1>6. StoreAgrees(new, data, after)
  BY <1>4, <1>5 DEF StoreAgrees
<1>7. QED
  BY <1>3, <1>6

-----------------------------------------------------------------------------
(* Every step keeps the types and the agreement *)

DataInv == DataTypes /\ StoreInv

\* Put, Delete and StoreQuota.
LEMMA PutKeeps ==
  ASSUME DataInv, NEW t \in Tenants, NEW p \in Payloads, NEW ttl \in Ttls, Put(t, p, ttl)
  PROVE  DataInv' /\ (ScanOk => ScanOk')
<1>1. t \in Known
  BY Admitted DEF Put
<1>2. PICK entry : entry = [value |-> Other(kv[t][p]),
                            expires |-> IF ttl > 0 THEN clock + ttl ELSE 0]
  OBVIOUS
<1>3. /\ store' = WithUsage(t, Storing(Encode(t, Data, p), entry, store))
      /\ kv' = [kv EXCEPT ![t][p] = entry]
      /\ scan' = Noting(t, p, entry)
      /\ UNCHANGED <<shard_of, clock, quota>>
      /\ writes > 0 /\ writes' = writes - 1
  BY <1>2 DEF Put, SpendWrite
<1>4. entry \in Entries /\ entry # None
  <2>1. Other(kv[t][p]) \in Nat
    BY <1>1, OtherType DEF DataInv, DataTypes
  <2>2. clock \in Nat /\ ttl \in Nat
    BY ScanAssumption DEF DataInv, DataTypes
  <2>3. QED
    BY <1>2, <2>1, <2>2, ScanAssumption DEF Entries
<1>5. Data \in Subspaces
  BY DEF Subspaces
<1>6. PICK key, new : /\ key = Encode(t, Data, p) /\ key \in StorageKeys
                      /\ new = Storing(key, entry, store)
  BY <1>1, <1>5, StorageKey
<1>7. StoreOk(store')
  <2>1. StoreOk(new)
    BY <1>4, <1>6, StoringOk DEF DataInv, DataTypes
  <2>2. QED
    BY <1>1, <1>3, <1>6, <2>1, WithUsageOk
<1>8. StoreAgrees(store', kv', quota')
  <2>1. PICK st, data, quotas : st = store /\ data = kv /\ quotas = quota
    OBVIOUS
  <2>2. /\ StoreAgrees(st, data, quotas)
        /\ data \in [Known -> [Payloads -> Entries \cup {None}]]
        /\ new = Storing(key, entry, st)
    BY <1>6, <2>1 DEF DataInv, DataTypes, StoreInv
  <2>3. /\ \A k, v : k # key => (Holds(new, k, v) <=> Holds(st, k, v))
        /\ Holds(new, key, entry)
    BY <1>4, <2>2, HoldsStoring
  <2>4. StoreAgrees(new, [data EXCEPT ![t][p] = entry], quotas)
    BY <1>1, <1>6, <2>2, <2>3, DataChanged
  <2>5. StoreAgrees(WithUsage(t, new), [data EXCEPT ![t][p] = entry], quotas)
    BY <1>1, <2>4, UsageApart
  <2>6. /\ store' = WithUsage(t, new) /\ kv' = [data EXCEPT ![t][p] = entry]
        /\ quota' = quotas
    BY <1>3, <1>6, <2>1
  <2>7. QED
    BY <2>5, <2>6
<1>9. kv' \in [Known -> [Payloads -> Entries \cup {None}]]
  BY <1>1, <1>3, <1>4 DEF DataInv, DataTypes
<1>10. writes' \in 0..MaxWrites
  BY <1>3, ScanAssumption DEF DataInv, DataTypes
<1>11. DataTypes'
  BY <1>3, <1>7, <1>9, <1>10 DEF DataInv, DataTypes, StoreOk
<1>12. StoreInv'
  BY <1>8 DEF StoreInv, StoreAgrees, Holds
<1>13. ScanOk => ScanOk'
  BY <1>1, <1>3, <1>4, NotingOk
<1>14. QED
  BY <1>11, <1>12, <1>13 DEF DataInv

LEMMA DeleteKeeps ==
  ASSUME DataInv, NEW t \in Tenants, NEW p \in Payloads, Delete(t, p)
  PROVE  DataInv' /\ (ScanOk => ScanOk')
<1>1. t \in Known
  BY Admitted DEF Delete
<1>2. PICK key, new : /\ key = Encode(t, Data, p)
                      /\ new = [k \in DOMAIN store \ {key} |-> store[k]]
  OBVIOUS
<1>3. /\ store' = WithUsage(t, new)
      /\ kv' = [kv EXCEPT ![t][p] = None]
      /\ scan' = Noting(t, p, None)
      /\ UNCHANGED <<shard_of, clock, quota>>
      /\ writes > 0 /\ writes' = writes - 1
  BY <1>2 DEF Delete, SpendWrite
<1>4. StoreOk(store')
  <2>1. StoreOk(new)
    BY <1>2 DEF DataInv, DataTypes, StoreOk
  <2>2. QED
    BY <1>1, <1>3, <2>1, WithUsageOk
<1>5. StoreAgrees(store', kv', quota')
  <2>1. PICK st, data, quotas : st = store /\ data = kv /\ quotas = quota
    OBVIOUS
  <2>2. /\ StoreAgrees(st, data, quotas)
        /\ data \in [Known -> [Payloads -> Entries \cup {None}]]
        /\ new = [k \in DOMAIN st \ {key} |-> st[k]]
    BY <1>2, <2>1 DEF DataInv, DataTypes, StoreInv
  <2>3. /\ \A k, v : k # key => (Holds(new, k, v) <=> Holds(st, k, v))
        /\ Holds(new, key, None)
    BY <2>2 DEF Holds
  <2>4. StoreAgrees(new, [data EXCEPT ![t][p] = None], quotas)
    BY <1>1, <1>2, <2>2, <2>3, DataChanged
  <2>5. StoreAgrees(WithUsage(t, new), [data EXCEPT ![t][p] = None], quotas)
    BY <1>1, <2>4, UsageApart
  <2>6. /\ store' = WithUsage(t, new) /\ kv' = [data EXCEPT ![t][p] = None]
        /\ quota' = quotas
    BY <1>3, <2>1
  <2>7. QED
    BY <2>5, <2>6
<1>6. kv' \in [Known -> [Payloads -> Entries \cup {None}]]
  BY <1>1, <1>3 DEF DataInv, DataTypes
<1>7. writes' \in 0..MaxWrites
  BY <1>3, ScanAssumption DEF DataInv, DataTypes
<1>8. DataTypes'
  BY <1>3, <1>4, <1>6, <1>7 DEF DataInv, DataTypes, StoreOk
<1>9. StoreInv'
  BY <1>5 DEF StoreInv, StoreAgrees, Holds
<1>10. ScanOk => ScanOk'
  BY <1>1, <1>3, NotingOk
<1>11. QED
  BY <1>8, <1>9, <1>10 DEF DataInv

LEMMA StoreQuotaKeeps ==
  ASSUME DataInv, NEW t \in Tenants, StoreQuota(t)
  PROVE  DataInv' /\ (ScanOk => ScanOk')
<1>1. t \in Known
  BY Admitted DEF StoreQuota
<1>2. PICK key, record : /\ key = Encode(t, Metadata, QUOTA_KEY)
                         /\ record = [value |-> Other(quota[t]), expires |-> 0]
  OBVIOUS
<1>3. /\ store' = Storing(key, record, store)
      /\ quota' = [quota EXCEPT ![t] = record]
      /\ UNCHANGED <<shard_of, clock, scan, kv>>
      /\ writes > 0 /\ writes' = writes - 1
  BY <1>2 DEF StoreQuota, SpendWrite
<1>4. record \in Entries
  <2>1. Other(quota[t]) \in Nat
    BY <1>1, OtherType DEF DataInv, DataTypes
  <2>2. QED
    BY <1>2, <2>1 DEF Entries
<1>5. StoreOk(store')
  <2>1. Metadata \in Subspaces /\ QUOTA_KEY \in Payloads
    BY ScanAssumption DEF Subspaces
  <2>2. key \in StorageKeys
    BY <1>1, <1>2, <2>1, StorageKey
  <2>3. QED
    BY <1>3, <1>4, <2>2, StoringOk DEF DataInv, DataTypes
<1>6. StoreAgrees(store', kv', quota')
  <2>1. PICK st, data, quotas : st = store /\ data = kv /\ quotas = quota
    OBVIOUS
  <2>2. StoreAgrees(st, data, quotas) /\ quotas \in [Known -> Entries \cup {None}]
    BY <2>1 DEF DataInv, DataTypes, StoreInv
  <2>3. StoreAgrees(Storing(key, record, st), data, [quotas EXCEPT ![t] = record])
    BY <1>1, <1>2, <1>4, <2>2, QuotaChanged
  <2>4. /\ store' = Storing(key, record, st) /\ kv' = data
        /\ quota' = [quotas EXCEPT ![t] = record]
    BY <1>3, <2>1
  <2>5. QED
    BY <2>3, <2>4
<1>7. quota' \in [Known -> Entries \cup {None}]
  BY <1>1, <1>3, <1>4 DEF DataInv, DataTypes
<1>8. writes' \in 0..MaxWrites
  BY <1>3, ScanAssumption DEF DataInv, DataTypes
<1>9. DataTypes'
  BY <1>3, <1>5, <1>7, <1>8 DEF DataInv, DataTypes, StoreOk
<1>10. StoreInv'
  BY <1>6 DEF StoreInv, StoreAgrees, Holds
<1>11. QED
  BY <1>3, <1>9, <1>10 DEF DataInv, ScanOk

\* The scan's own steps, which leave the data alone.
LEMMA ScanKeeps ==
  ASSUME DataTypes, ScanOk,
         \/ \E t \in Tenants, prefix \in ScanPrefixes, limit \in Limits :
              ScanRequest(t, prefix, limit)
         \/ VisitShard \/ ScanAnswer \/ ScanDone
  PROVE  ScanOk' /\ UNCHANGED <<store, shard_of, clock, kv, quota, writes>>
<1>1. ASSUME NEW t \in Tenants, NEW prefix \in ScanPrefixes, NEW limit \in Limits,
             ScanRequest(t, prefix, limit)
      PROVE  ScanOk' /\ UNCHANGED <<store, shard_of, clock, kv, quota, writes>>
  <2>1. t \in Known
    BY <1>1, Admitted DEF ScanRequest
  <2>2. PICK seen : seen = [p \in Payloads |-> {kv[t][p]}]
    OBVIOUS
  <2>3. seen \in [Payloads -> SUBSET (Entries \cup {None})]
    BY <2>1, <2>2 DEF DataTypes
  <2>4. CapScanLimit(limit) \in 1..MaxScanLimit
    BY ScanAssumption DEF CapScanLimit
  <2>5. scan' = [step |-> "visit", tenant |-> t, prefix |-> prefix,
                 limit |-> CapScanLimit(limit), shard |-> 1, found |-> {},
                 seen |-> seen, now |-> 0, chunks |-> <<>>]
    BY <1>1, <2>2 DEF ScanRequest
  <2>6. scan' \in ScanRecords(<<>>) /\ scan'.shard <= Shards
    BY <2>1, <2>3, <2>4, <2>5, ScanAssumption DEF ScanRecords
  <2>7. QED
    BY <1>1, <2>6 DEF ScanOk, ScanRequest
<1>2. CASE VisitShard
  <2> DEFINE bounds == EncodeDataScanBounds(scan.tenant, scan.prefix)
             keys == {k \in DOMAIN store : shard_of[k] = scan.shard
                                           /\ InRange(k, bounds.start, bounds.end)}
             more == scan.found \cup {[key |-> k, entry |-> store[k]] : k \in keys}
  <2>1. scan.step = "visit"
    BY <1>2 DEF VisitShard
  <2>2. scan # NoScan
    BY <2>1 DEF NoScan
  <2>3. PICK chunks : scan \in ScanRecords(chunks)
    BY <2>2 DEF ScanOk
  <2>4. scan.shard \in 1..Shards
    BY <2>1, <2>2, <2>3 DEF ScanOk, ScanRecords
  <2>5. more \in SUBSET [key : StorageKeys, entry : Entries]
    BY <2>3 DEF DataTypes, StoreOk, ScanRecords
  <2>6. scan' = [scan EXCEPT !.found = more, !.shard = scan.shard + 1,
                             !.step = IF scan.shard = Shards THEN "filter" ELSE "visit"]
    BY <1>2 DEF VisitShard
  <2> HIDE DEF more
  <2>7. /\ scan' \in ScanRecords(chunks) /\ scan'.shard = scan.shard + 1
        /\ scan'.step = IF scan.shard = Shards THEN "filter" ELSE "visit"
    <3>1. PICK next : next = scan.shard + 1
      OBVIOUS
    <3>2. PICK step : step = IF scan.shard = Shards THEN "filter" ELSE "visit"
      OBVIOUS
    <3>3. next \in 1..Shards + 1
      BY <2>4, <3>1, ScanAssumption
    <3>4. step \in {"visit", "filter", "answered"}
      BY <3>2
    <3>5. scan' = [scan EXCEPT !.found = more, !.shard = next, !.step = step]
      BY <2>6, <3>1, <3>2
    <3>6. scan' \in ScanRecords(chunks) /\ scan'.shard = next /\ scan'.step = step
      BY <2>3, <2>5, <3>3, <3>4, <3>5 DEF ScanRecords
    <3>7. QED
      BY <3>1, <3>2, <3>6
  <2>8. scan'.step = "visit" => scan'.shard <= Shards
    BY <2>4, <2>7, ScanAssumption
  <2>9. QED
    BY <1>2, <2>7, <2>8 DEF ScanOk, VisitShard
<1>3. CASE ScanAnswer
  <2>1. PICK answer : scan' = [scan EXCEPT !.step = "answered", !.now = clock, !.chunks = answer]
    BY <1>3 DEF ScanAnswer
  <2>2. scan # NoScan
    BY <1>3 DEF ScanAnswer, NoScan
  <2>3. PICK chunks : scan \in ScanRecords(chunks)
    BY <2>2 DEF ScanOk
  <2>4. clock \in Nat
    BY ScanAssumption DEF DataTypes
  <2>5. scan' \in ScanRecords(answer) /\ scan'.step = "answered"
    BY <2>1, <2>3, <2>4 DEF ScanRecords
  <2>6. QED
    BY <1>3, <2>5 DEF ScanOk, ScanAnswer
<1>4. CASE ScanDone
  BY <1>4 DEF ScanDone, ScanOk
<1>5. QED
  BY <1>1, <1>2, <1>3, <1>4

Inv == DataInv /\ ScanOk

LEMMA InvHolds == Spec => []Inv
<1>1. Init => Inv
  <2>1. SUFFICES ASSUME Init
                 PROVE  Inv
    OBVIOUS
  <2>2. store = <<>> /\ DOMAIN store = {}
    BY <2>1 DEF Init
  <2>3. StoreOk(store)
    BY <2>2 DEF StoreOk
  <2>4. DataTypes
    BY <2>1, <2>3, ScanAssumption DEF Init, DataTypes
  <2>5. StoreInv
    <3>1. \A key : Holds(store, key, None)
      BY <2>2 DEF Holds
    <3>2. \A t \in Known : quota[t] = None /\ \A p \in Payloads : kv[t][p] = None
      BY <2>1 DEF Init
    <3>3. QED
      BY <3>1, <3>2 DEF StoreInv, StoreAgrees
  <2>6. ScanOk
    BY <2>1 DEF Init, ScanOk
  <2>7. QED
    BY <2>4, <2>5, <2>6 DEF Inv, DataInv
<1>2. Inv /\ [Next]_vars => Inv'
  <2>1. SUFFICES ASSUME DataInv, ScanOk, [Next]_vars
                 PROVE  Inv'
    BY DEF Inv
  <2>2. ASSUME UNCHANGED <<store, shard_of, kv, quota, writes>>, clock' \in 0..MaxClock
        PROVE  DataInv'
    BY <2>1, <2>2 DEF DataInv, DataTypes, StoreOk, StoreInv, StoreAgrees, Holds
  <2>3. CASE \E t \in Tenants, p \in Payloads : Delete(t, p) \/ \E ttl \in Ttls : Put(t, p, ttl)
    BY <2>1, <2>3, DeleteKeeps, PutKeeps DEF Inv
  <2>4. CASE \E t \in Tenants : StoreQuota(t)
    BY <2>1, <2>4, StoreQuotaKeeps DEF Inv
  <2>5. CASE \/ \E t \in Tenants, prefix \in ScanPrefixes, limit \in Limits :
                  ScanRequest(t, prefix, limit)
             \/ VisitShard \/ ScanAnswer \/ ScanDone
    <3>1. ScanOk' /\ UNCHANGED <<store, shard_of, clock, kv, quota, writes>>
      BY <2>1, <2>5, ScanKeeps DEF DataInv
    <3>2. QED
      BY <2>1, <2>2, <3>1 DEF Inv, DataInv, DataTypes
  <2>6. CASE Tick
    <3>1. clock' \in 0..MaxClock
      BY <2>1, <2>6, ScanAssumption DEF Tick, DataInv, DataTypes
    <3>2. QED
      BY <2>1, <2>2, <2>6, <3>1 DEF Inv, Tick, ScanOk
  <2>7. CASE UNCHANGED vars
    BY <2>1, <2>2, <2>7 DEF vars, Inv, ScanOk, DataInv, DataTypes
  <2>8. QED
    BY <2>1, <2>3, <2>4, <2>5, <2>6, <2>7 DEF Next
<1>3. QED
  BY <1>1, <1>2, PTL DEF Spec

\* Storage, scan and observations keep their types; in particular the limit of
\* a scan is capped, and its shards are those of the map.
THEOREM TypeCorrect == Spec => []TypeOK
<1>1. Inv => TypeOK
  BY TypeInvParts DEF Inv, DataInv, TypeInv
<1>2. QED
  BY <1>1, InvHolds, PTL

\* service.rs, bootstrap_from_storage, and quota.rs, load_quotas: whatever
\* tenants, keys and writes there were, the scan of everything at start-up finds
\* each tenant's data and quota record again, and takes nothing for another's.
THEOREM BootScanExactAlways == Spec => []BootScanExact
<1>1. ASSUME Inv
      PROVE  BootScanExact
  <2>1. \A k \in DOMAIN store : \E t \in Known, s \in Subspaces, p \in Payloads : k = Encode(t, s, p)
    BY <1>1 DEF Inv, DataInv, DataTypes, StoreOk, StorageKeys
  <2>2. ASSUME NEW t \in Known, NEW s \in Subspaces, NEW p \in Payloads
        PROVE  /\ Decode(Encode(t, s, p)) # Corrupt
               /\ Decode(Encode(t, s, p)).tenant = t
               /\ Decode(Encode(t, s, p)).subspace = s
               /\ Decode(Encode(t, s, p)).payload = p
    BY DecodeOfEncode
  <2>3. /\ Data \in Subspaces /\ Metadata \in Subspaces /\ QUOTA_KEY \in Payloads
    BY ScanAssumption DEF Subspaces
  <2>4. \A t \in Known, p \in Payloads : Holds(store, Encode(t, Data, p), kv[t][p])
    BY <1>1 DEF Inv, DataInv, StoreInv, StoreAgrees
  <2>5. \A t \in Known : Holds(store, Encode(t, Metadata, QUOTA_KEY), quota[t])
    BY <1>1 DEF Inv, DataInv, StoreInv, StoreAgrees
  <2>6. ASSUME NEW z
        PROVE  z \in Counted <=> \E t \in Known, p \in Payloads :
                                   kv[t][p] # None /\ z = <<t, p, kv[t][p]>>
    <3>1. ASSUME z \in Counted
          PROVE  \E t \in Known, p \in Payloads : kv[t][p] # None /\ z = <<t, p, kv[t][p]>>
      <4>1. PICK k \in DOMAIN store : /\ Decode(k).subspace = Data
                                      /\ z = <<Decode(k).tenant, Decode(k).payload, store[k]>>
        BY <3>1 DEF Counted
      <4>2. PICK t \in Known, s \in Subspaces, p \in Payloads : k = Encode(t, s, p)
        BY <2>1
      <4>3. s = Data /\ z = <<t, p, store[k]>>
        BY <2>2, <4>1, <4>2
      <4>4. kv[t][p] # None /\ store[k] = kv[t][p]
        BY <2>4, <4>2, <4>3 DEF Holds
      <4>5. QED
        BY <4>3, <4>4
    <3>2. ASSUME NEW t \in Known, NEW p \in Payloads, kv[t][p] # None, z = <<t, p, kv[t][p]>>
          PROVE  z \in Counted
      <4>1. PICK k : k = Encode(t, Data, p)
        OBVIOUS
      <4>2. k \in DOMAIN store /\ store[k] = kv[t][p]
        BY <2>4, <3>2, <4>1 DEF Holds
      <4>3. /\ Decode(k) # Corrupt /\ Decode(k).subspace = Data
            /\ z = <<Decode(k).tenant, Decode(k).payload, store[k]>>
        BY <2>2, <2>3, <3>2, <4>1, <4>2
      <4>4. QED
        BY <4>2, <4>3 DEF Counted
    <3>3. QED
      BY <3>1, <3>2
  <2>7. Counted = UNION {{<<t, p, kv[t][p]>> : p \in {q \in Payloads : kv[t][q] # None}} :
                           t \in Known}
    BY <2>6
  <2>8. ASSUME NEW z
        PROVE  z \in LoadQuotas <=> \E t \in Known : quota[t] # None /\ z = <<t, quota[t]>>
    <3>1. ASSUME z \in LoadQuotas
          PROVE  \E t \in Known : quota[t] # None /\ z = <<t, quota[t]>>
      <4>1. PICK k \in DOMAIN store : /\ Decode(k).subspace = Metadata
                                      /\ Decode(k).payload = QUOTA_KEY
                                      /\ z = <<Decode(k).tenant, store[k]>>
        BY <3>1 DEF LoadQuotas
      <4>2. PICK t \in Known, s \in Subspaces, p \in Payloads : k = Encode(t, s, p)
        BY <2>1
      <4>3. s = Metadata /\ p = QUOTA_KEY /\ z = <<t, store[k]>>
        BY <2>2, <4>1, <4>2
      <4>4. quota[t] # None /\ store[k] = quota[t]
        BY <2>5, <4>2, <4>3 DEF Holds
      <4>5. QED
        BY <4>3, <4>4
    <3>2. ASSUME NEW t \in Known, quota[t] # None, z = <<t, quota[t]>>
          PROVE  z \in LoadQuotas
      <4>1. PICK k : k = Encode(t, Metadata, QUOTA_KEY)
        OBVIOUS
      <4>2. k \in DOMAIN store /\ store[k] = quota[t]
        BY <2>5, <3>2, <4>1 DEF Holds
      <4>3. /\ Decode(k) # Corrupt /\ Decode(k).subspace = Metadata
            /\ Decode(k).payload = QUOTA_KEY /\ z = <<Decode(k).tenant, store[k]>>
        BY <2>2, <2>3, <3>2, <4>1, <4>2
      <4>4. QED
        BY <4>2, <4>3 DEF LoadQuotas
    <3>3. QED
      BY <3>1, <3>2
  <2>9. LoadQuotas = {<<t, quota[t]>> : t \in {u \in Known : quota[u] # None}}
    BY <2>8
  <2>10. QED
    BY <2>7, <2>9 DEF BootScanExact
<1>2. QED
  BY <1>1, InvHolds, PTL

-----------------------------------------------------------------------------
(* Sorting *)

\* A set of entries that have different keys.
OneEach(S) ==
  /\ IsFiniteSet(S)
  /\ \A e \in S : e.key \in Seq(Byte)
  /\ \A d, e \in S : d.key = e.key => d = e

\* All of S, in the order of the keys.
InKeyOrder(s, S) ==
  /\ s \in Seq(S)
  /\ \A e \in S : \E i \in 1..Len(s) : s[i] = e
  /\ \A i, j \in 1..Len(s) : i < j => Less(s[i].key, s[j].key)

\* Such a sequence exists: the place of an entry is the number of entries up
\* to it.
LEMMA SortedExists ==
  ASSUME NEW S, OneEach(S)
  PROVE  \E s \in SetToSeqs(S) : \A i, j \in DOMAIN s : i < j => ~Less(s[j].key, s[i].key)
<1>1. /\ IsFiniteSet(S) /\ \A e \in S : e.key \in Seq(Byte)
      /\ \A d, e \in S : d.key = e.key => d = e
  BY DEF OneEach
<1>2. PICK n \in Nat : n = Cardinality(S)
  BY <1>1, FS_CardinalityType
<1> DEFINE UpTo(e) == {d \in S : ~Less(e.key, d.key)}
<1>3. ASSUME NEW e \in S
      PROVE  /\ UpTo(e) \in SUBSET S /\ e \in UpTo(e)
             /\ IsFiniteSet(UpTo(e)) /\ Cardinality(UpTo(e)) \in 1..n
  <2>1. UpTo(e) \in SUBSET S /\ e \in UpTo(e)
    BY <1>1, LessIrreflexive
  <2> HIDE DEF UpTo
  <2>2. IsFiniteSet(UpTo(e)) /\ Cardinality(UpTo(e)) <= n
    BY <1>1, <1>2, <2>1, FS_Subset
  <2>3. Cardinality(UpTo(e)) \in Nat /\ Cardinality(UpTo(e)) # 0
    BY <2>1, <2>2, FS_CardinalityType, FS_EmptySet
  <2>4. QED
    BY <2>1, <2>2, <2>3
<1>4. ASSUME NEW a \in S, NEW b \in S, Less(a.key, b.key)
      PROVE  Cardinality(UpTo(a)) < Cardinality(UpTo(b))
  <2>1. ASSUME NEW d \in UpTo(a)
        PROVE  d \in UpTo(b)
    <3>1. d \in S /\ ~Less(a.key, d.key)
      OBVIOUS
    <3>2. a.key \in Seq(Byte) /\ b.key \in Seq(Byte) /\ d.key \in Seq(Byte)
      BY <1>1, <3>1
    <3>3. ~Less(b.key, d.key)
      BY <1>4, <3>1, <3>2, LessTransitive
    <3>4. QED
      BY <3>1, <3>3
  <2>2. b \in UpTo(b) /\ b \notin UpTo(a)
    BY <1>3, <1>4
  <2>3. UpTo(a) \in SUBSET UpTo(b) /\ UpTo(a) # UpTo(b)
    BY <2>1, <2>2
  <2> HIDE DEF UpTo
  <2>4. /\ Cardinality(UpTo(a)) <= Cardinality(UpTo(b))
        /\ Cardinality(UpTo(a)) # Cardinality(UpTo(b))
    BY <1>3, <2>3, FS_Subset
  <2>5. QED
    BY <1>3, <2>4
<1>5. PICK pos : pos = [e \in S |-> Cardinality(UpTo(e))]
  OBVIOUS
<1>6. /\ pos \in [S -> 1..n]
      /\ \A a, b \in S : Less(a.key, b.key) => pos[a] < pos[b]
  BY <1>3, <1>4, <1>5
<1> HIDE DEF UpTo
<1>7. pos \in Injection(S, 1..n)
  <2>1. ASSUME NEW a \in S, NEW b \in S, a # b
        PROVE  pos[a] # pos[b]
    <3>1. Less(a.key, b.key) \/ Less(b.key, a.key)
      BY <1>1, <2>1, LessTotal
    <3>2. pos[a] \in Nat /\ pos[b] \in Nat
      BY <1>6
    <3>3. QED
      BY <1>6, <3>1, <3>2
  <2>2. QED
    BY <1>6, <2>1 DEF Injection, IsInjective
<1>8. pos \in Surjection(S, 1..n)
  <2>1. IsFiniteSet(1..n) /\ Cardinality(1..n) = n
    BY FS_Interval, SizeOfFront
  <2>2. QED
    BY <1>2, <1>7, <2>1, FS_Injection
<1>9. PICK s : s = [i \in 1..n |-> CHOOSE e \in S : pos[e] = i]
  OBVIOUS
<1>10. ASSUME NEW i \in 1..n
       PROVE  s[i] \in S /\ pos[s[i]] = i
  <2>1. \E e \in S : pos[e] = i
    BY <1>8 DEF Surjection
  <2>2. QED
    BY <1>9, <2>1
<1>11. s \in [1..n -> S] /\ DOMAIN s = 1..n
  BY <1>9, <1>10
<1>12. s \in SetToSeqs(S)
  <2>1. \A i, j \in 1..n : i # j => s[i] # s[j]
    BY <1>10
  <2>2. QED
    BY <1>2, <1>11, <2>1 DEF SetToSeqs
<1>13. ASSUME NEW i \in 1..n, NEW j \in 1..n, i < j
       PROVE  ~Less(s[j].key, s[i].key)
  BY <1>6, <1>10, <1>13
<1>14. QED
  BY <1>11, <1>12, <1>13

\* So sort_unstable_by answers with it.
LEMMA SortedSorts ==
  ASSUME NEW S, OneEach(S)
  PROVE  InKeyOrder(Sorted(S), S)
<1>1. /\ IsFiniteSet(S) /\ \A e \in S : e.key \in Seq(Byte)
      /\ \A d, e \in S : d.key = e.key => d = e
  BY DEF OneEach
<1>2. PICK n \in Nat : n = Cardinality(S)
  BY <1>1, FS_CardinalityType
<1>3. PICK s : s = Sorted(S)
  OBVIOUS
<1>4. s \in SetToSeqs(S) /\ \A i, j \in DOMAIN s : i < j => ~Less(s[j].key, s[i].key)
  BY <1>3, SortedExists DEF Sorted
<1>5. s \in [1..n -> S] /\ \A i, j \in 1..n : i # j => s[i] # s[j]
  BY <1>2, <1>4 DEF SetToSeqs
<1>6. s \in Seq(S) /\ Len(s) = n /\ DOMAIN s = 1..n
  BY <1>5, LenProperties
<1>7. ASSUME NEW e \in S
      PROVE  \E i \in 1..n : s[i] = e
  <2>1. IsFiniteSet(1..n) /\ Cardinality(1..n) = n
    BY FS_Interval, SizeOfFront
  <2>2. s \in Injection(1..n, S)
    BY <1>5 DEF Injection, IsInjective
  <2>3. s \in Surjection(1..n, S)
    BY <1>1, <1>2, <2>1, <2>2, FS_Injection
  <2>4. QED
    BY <2>3 DEF Surjection
<1>8. ASSUME NEW i \in 1..n, NEW j \in 1..n, i < j
      PROVE  Less(s[i].key, s[j].key)
  <2>1. s[i] \in S /\ s[j] \in S /\ s[i] # s[j]
    BY <1>5, <1>8
  <2>2. ~Less(s[j].key, s[i].key)
    BY <1>4, <1>6, <1>8
  <2>3. s[i].key # s[j].key /\ s[i].key \in Seq(Byte) /\ s[j].key \in Seq(Byte)
    BY <1>1, <2>1
  <2>4. QED
    BY <2>2, <2>3, LessTotal
<1>9. QED
  BY <1>3, <1>6, <1>7, <1>8 DEF InKeyOrder

-----------------------------------------------------------------------------
(* Chunks *)

\* Multiples of a size, for the provers: they are strictly increasing.
LEMMA Multiples ==
  ASSUME NEW z \in Nat \ {0}
  PROVE  \E m \in [Nat -> Nat] : /\ \A c \in Nat : m[c] = c * z
                                 /\ m[0] = 0 /\ \A c \in Nat : m[c + 1] = m[c] + z
                                 /\ \A c, d \in Nat : c <= d => m[c] <= m[d]
<1>1. PICK m : m = [c \in Nat |-> c * z]
  OBVIOUS
<1>2. \A c \in Nat : c * z \in Nat
  OBVIOUS
<1>3. m \in [Nat -> Nat] /\ \A c \in Nat : m[c] = c * z
  BY <1>1, <1>2
<1>4. m[0] = 0
  BY <1>3
<1>5. ASSUME NEW c \in Nat
      PROVE  m[c + 1] = m[c] + z
  <2>1. (c + 1) * z = c * z + z
    OBVIOUS
  <2>2. QED
    BY <1>3, <2>1
<1>6. ASSUME NEW c \in Nat, NEW d \in Nat, c <= d
      PROVE  m[c] <= m[d]
  <2>1. PICK k \in Nat : d = c + k
    <3>1. d - c \in Nat /\ d = c + (d - c)
      BY <1>6
    <3>2. QED
      BY <3>1
  <2>2. (c + k) * z = c * z + k * z /\ k * z \in Nat /\ c * z \in Nat
    OBVIOUS
  <2>3. QED
    BY <1>3, <2>1, <2>2
<1>7. QED
  BY <1>3, <1>4, <1>5, <1>6

\* How many chunks there are, and where each ends.
ChunkPlan(u, m, n, count) ==
  /\ \A c \in Nat : m[c] = c * SCAN_CHUNK_SIZE
  /\ m[0] = 0 /\ \A c \in Nat : m[c + 1] = m[c] + SCAN_CHUNK_SIZE
  /\ n <= m[count]
  /\ \A c \in 1..count : m[c - 1] < n
  /\ Chunked(u) = [c \in 1..count |-> SubSeq(u, m[c - 1] + 1, Min({m[c], n}))]

LEMMA ChunkPlanOf ==
  ASSUME NEW R, NEW u \in Seq(R)
  PROVE  \E m \in [Nat -> Nat], count \in Nat : ChunkPlan(u, m, Len(u), count)
<1>1. PICK n \in Nat : n = Len(u)
  BY LenProperties
<1>2. PICK z \in Nat \ {0} : z = SCAN_CHUNK_SIZE
  BY ScanAssumption
<1>3. PICK m \in [Nat -> Nat] : /\ \A c \in Nat : m[c] = c * z
                                /\ m[0] = 0 /\ \A c \in Nat : m[c + 1] = m[c] + z
                                /\ \A c, d \in Nat : c <= d => m[c] <= m[d]
  BY Multiples
<1>4. PICK full \in Nat : full = n \div z /\ full * z <= n /\ n < full * z + z
  <2>1. n \in Int /\ z \in Int /\ z > 0
    OBVIOUS
  <2>2. n \div z \in Int
    BY <2>1
  <2>3. PICK q \in Int : q = n \div z
    BY <2>2
  <2>4. q * z <= n
    BY <2>1, <2>3, SMTT(20)
  <2>5. n < q * z + z
    BY <2>1, <2>3, SMTT(20)
  <2>6. q >= 0
    <3>1. SUFFICES ASSUME q < 0
                   PROVE  FALSE
      OBVIOUS
    <3>2. PICK k \in Nat : k = -1 - q
      BY <3>1
    <3>3. q = -1 - k
      BY <3>2
    <3>4. PICK w \in Nat : w = k * z
      OBVIOUS
    <3>5. (-1 - k) * z = -1 * z - k * z
      OBVIOUS
    <3>6. q * z + z = -w
      BY <3>3, <3>4, <3>5
    <3>7. QED
      BY <2>5, <3>6
  <2>7. QED
    BY <2>3, <2>4, <2>5, <2>6
<1>5. m[full] <= n /\ n < m[full] + z /\ m[full] = full * z
  BY <1>3, <1>4
<1>6. PICK count : count = IF full * z < n THEN full + 1 ELSE full
  OBVIOUS
<1>7. count \in Nat /\ n <= m[count]
  <2>1. m[full + 1] = m[full] + z
    BY <1>3
  <2>2. QED
    BY <1>3, <1>5, <1>6, <2>1
<1>8. ASSUME NEW c \in 1..count
      PROVE  m[c - 1] < n /\ c - 1 \in Nat
  <2>1. c - 1 \in Nat /\ c - 1 <= full
    BY <1>6, <1>7
  <2>2. m[c - 1] <= m[full] /\ m[full] \in Nat /\ m[c - 1] \in Nat
    BY <1>3, <2>1
  <2>3. CASE full * z < n
    BY <1>5, <2>1, <2>2, <2>3
  <2>4. CASE ~(full * z < n)
    <3>1. count = full /\ n = m[full]
      BY <1>5, <1>6, <2>2, <2>4
    <3>2. PICK b \in Nat : b = c - 1
      BY <2>1
    <3>3. b + 1 = c /\ b + 1 <= full /\ b + 1 \in Nat
      BY <3>1, <3>2
    <3>4. m[b + 1] = m[b] + z /\ m[b + 1] <= m[full] /\ m[b] \in Nat
      BY <1>3, <3>3
    <3>5. QED
      BY <2>1, <3>1, <3>2, <3>4
  <2>5. QED
    BY <2>3, <2>4
<1>9. Chunked(u) = [c \in 1..count |-> SubSeq(u, m[c - 1] + 1, Min({m[c], n}))]
  <2>1. ASSUME NEW c \in 1..count
        PROVE  (c - 1) * z = m[c - 1] /\ c * z = m[c]
    <3>1. PICK b \in Nat, d \in Nat : b = c - 1 /\ d = c
      BY <1>7, <1>8
    <3>2. m[b] = b * z /\ m[d] = d * z
      BY <1>3
    <3>3. QED
      BY <3>1, <3>2
  <2>2. Chunked(u) = [c \in 1..count |-> SubSeq(u, (c - 1) * z + 1, Min({c * z, n}))]
    BY <1>1, <1>2, <1>4, <1>6 DEF Chunked
  <2>3. QED
    BY <2>1, <2>2
<1>10. ChunkPlan(u, m, n, count)
  BY <1>2, <1>3, <1>7, <1>8, <1>9 DEF ChunkPlan
<1>11. QED
  BY <1>1, <1>7, <1>10

\* The table that FlattenSeq is computed by.
Joins(f, s, k) == f = [i \in 1..k |-> IF i = 1 THEN s[i] ELSE f[i - 1] \o s[i]]

LEMMA JoinsUnique ==
  ASSUME NEW s, NEW k \in Nat, NEW f, NEW g, Joins(f, s, k), Joins(g, s, k)
  PROVE  f = g
<1>1. /\ DOMAIN f = 1..k /\ f = [i \in 1..k |-> f[i]]
      /\ \A i \in 1..k : f[i] = IF i = 1 THEN s[i] ELSE f[i - 1] \o s[i]
  BY DEF Joins
<1>2. /\ DOMAIN g = 1..k /\ g = [i \in 1..k |-> g[i]]
      /\ \A i \in 1..k : g[i] = IF i = 1 THEN s[i] ELSE g[i - 1] \o s[i]
  BY DEF Joins
<1> DEFINE Bad == {i \in 1..k : f[i] # g[i]}
<1>3. Bad = {}
  <2>1. SUFFICES ASSUME Bad # {}
                 PROVE  FALSE
    OBVIOUS
  <2>2. Bad \in SUBSET Nat
    OBVIOUS
  <2>3. PICK b \in Bad : \A i \in Bad : b <= i
    <3> HIDE DEF Bad
    <3> QED BY <2>1, <2>2, LeastNumber
  <2>4. b \in 1..k /\ f[b] # g[b]
    OBVIOUS
  <2>5. b # 1
    BY <1>1, <1>2, <2>4
  <2>6. b - 1 \in 1..k /\ b - 1 \notin Bad
    BY <2>3, <2>4, <2>5
  <2>7. f[b - 1] = g[b - 1]
    BY <2>6
  <2>8. QED
    BY <1>1, <1>2, <2>4, <2>5, <2>7
<1>4. QED
  BY <1>1, <1>2, <1>3

LEMMA FlattenByTable ==
  ASSUME NEW s, Len(s) \in Nat \ {0}, NEW f, Joins(f, s, Len(s))
  PROVE  FlattenSeq(s) = f[Len(s)]
<1>1. PICK k \in Nat : k = Len(s) /\ k # 0
  OBVIOUS
<1>2. FlattenSeq(s) = (CHOOSE g : Joins(g, s, k))[k]
  BY <1>1 DEF FlattenSeq, Joins
<1>3. (CHOOSE g : Joins(g, s, k)) = f
  <2>1. PICK h : h = CHOOSE g : Joins(g, s, k)
    OBVIOUS
  <2>2. Joins(h, s, k)
    BY <1>1, <2>1
  <2>3. h = f
    BY <1>1, <2>2, JoinsUnique
  <2>4. QED
    BY <2>1, <2>3
<1>4. QED
  BY <1>1, <1>2, <1>3

\* Two neighbouring pieces of a sequence.
LEMMA Neighbours ==
  ASSUME NEW R, NEW u \in Seq(R), NEW a \in Nat, NEW b \in Nat, a <= b, b <= Len(u)
  PROVE  SubSeq(u, 1, a) \o SubSeq(u, a + 1, b) = SubSeq(u, 1, b)
<1>1. PICK n \in Nat : n = Len(u)
  BY LenProperties
<1>2. \A i \in 1..n : u[i] \in R
  BY <1>1, ElementOfSeq
<1>3. PICK v, w, x : v = SubSeq(u, 1, a) /\ w = SubSeq(u, a + 1, b) /\ x = SubSeq(u, 1, b)
  OBVIOUS
<1>4. v \in Seq(R) /\ Len(v) = a /\ \A i \in 1..a : v[i] = u[i]
  <2>1. \A i \in 1..a : u[i] \in R
    BY <1>1, <1>2
  <2>2. /\ v \in Seq(R) /\ Len(v) = IF 1 <= a THEN a - 1 + 1 ELSE 0
        /\ \A i \in 1..a - 1 + 1 : v[i] = u[1 + i - 1]
    BY <1>3, <2>1, SubSeqProperties
  <2>3. QED
    BY <2>2
<1>5. x \in Seq(R) /\ Len(x) = b /\ \A i \in 1..b : x[i] = u[i]
  <2>1. \A i \in 1..b : u[i] \in R
    BY <1>1, <1>2
  <2>2. /\ x \in Seq(R) /\ Len(x) = IF 1 <= b THEN b - 1 + 1 ELSE 0
        /\ \A i \in 1..b - 1 + 1 : x[i] = u[1 + i - 1]
    BY <1>3, <2>1, SubSeqProperties
  <2>3. QED
    BY <2>2
<1>6. w \in Seq(R) /\ Len(w) = b - a /\ \A i \in 1..b - a : w[i] = u[a + i]
  <2>1. \A i \in a + 1..b : u[i] \in R
    BY <1>1, <1>2
  <2>2. /\ w \in Seq(R) /\ Len(w) = IF a + 1 <= b THEN b - (a + 1) + 1 ELSE 0
        /\ \A i \in 1..b - (a + 1) + 1 : w[i] = u[a + 1 + i - 1]
    BY <1>3, <2>1, SubSeqProperties
  <2>3. QED
    BY <2>2
<1>7. PICK y : y = v \o w
  OBVIOUS
<1>8. /\ y \in Seq(R) /\ Len(y) = b
      /\ \A i \in 1..b : y[i] = IF i <= a THEN v[i] ELSE w[i - a]
  <2>1. /\ y \in Seq(R) /\ Len(y) = Len(v) + Len(w)
        /\ \A i \in 1..Len(v) + Len(w) : y[i] = IF i <= Len(v) THEN v[i] ELSE w[i - Len(v)]
    BY <1>4, <1>6, <1>7, ConcatProperties
  <2>2. Len(v) = a /\ Len(v) + Len(w) = b
    BY <1>4, <1>6
  <2>3. QED
    BY <2>1, <2>2
<1>9. \A i \in 1..b : y[i] = x[i]
  <2>1. SUFFICES ASSUME NEW i \in 1..b
                 PROVE  y[i] = x[i]
    OBVIOUS
  <2>2. CASE i <= a
    <3>1. i \in 1..a
      BY <2>2
    <3>2. QED
      BY <1>4, <1>5, <1>8, <2>2, <3>1
  <2>3. CASE ~(i <= a)
    <3>1. i - a \in 1..b - a /\ a + (i - a) = i
      BY <2>3
    <3>2. QED
      BY <1>5, <1>6, <1>8, <2>3, <3>1
  <2>4. QED
    BY <2>2, <2>3
<1>10. y = x
  BY <1>5, <1>8, <1>9, SeqEqual
<1>11. QED
  BY <1>3, <1>7, <1>10

\* scan_impl sends every entry in exactly one chunk, in order, and no chunk is
\* empty or too large.
LEMMA ChunkFacts ==
  ASSUME NEW R, NEW u \in Seq(R)
  PROVE  /\ \A c \in DOMAIN Chunked(u) : Len(Chunked(u)[c]) \in 1..SCAN_CHUNK_SIZE
         /\ FlattenSeq(Chunked(u)) = u
<1>1. PICK n \in Nat, z \in Nat \ {0} : n = Len(u) /\ z = SCAN_CHUNK_SIZE
  BY LenProperties, ScanAssumption
<1>2. PICK m \in [Nat -> Nat], count \in Nat : ChunkPlan(u, m, n, count)
  BY <1>1, ChunkPlanOf
<1>3. /\ m[0] = 0 /\ \A c \in Nat : m[c + 1] = m[c] + z
      /\ n <= m[count] /\ \A c \in 1..count : m[c - 1] < n
  BY <1>1, <1>2 DEF ChunkPlan
<1>cut. Chunked(u) = [c \in 1..count |-> SubSeq(u, m[c - 1] + 1, Min({m[c], n}))]
  BY <1>2 DEF ChunkPlan
<1>4. PICK stop : stop = [c \in 0..count |-> IF m[c] <= n THEN m[c] ELSE n]
  OBVIOUS
<1>5. stop \in [0..count -> Nat] /\ stop[0] = 0 /\ stop[count] = n
  <2>1. 0 \in 0..count /\ count \in 0..count
    BY <1>3
  <2>2. stop \in [0..count -> Nat]
    BY <1>3, <1>4
  <2>3. stop[0] = 0
    BY <1>3, <1>4, <2>1
  <2>4. PICK last \in Nat : last = m[count]
    OBVIOUS
  <2>5. n <= last /\ stop[count] = IF last <= n THEN last ELSE n
    BY <1>3, <1>4, <2>1, <2>4
  <2>6. stop[count] = n
    BY <2>5
  <2>7. QED
    BY <2>2, <2>3, <2>6
<1>6. PICK chunks : chunks = Chunked(u)
  OBVIOUS
<1>7. ASSUME NEW c \in 1..count
      PROVE  /\ c - 1 \in 0..count /\ c \in 0..count
             /\ stop[c - 1] < stop[c] /\ stop[c] <= stop[c - 1] + z /\ stop[c] <= n
             /\ chunks[c] = SubSeq(u, stop[c - 1] + 1, stop[c])
  <2>1. PICK b \in Nat : b = c - 1 /\ b + 1 = c
    BY <1>3
  <2>2. b \in 0..count /\ c \in 0..count
    BY <1>3, <2>1
  <2>3. m[c] = m[b] + z /\ m[b] < n /\ m[b] \in Nat /\ m[c] \in Nat
    <3>1. m[b + 1] = m[b] + z /\ m[b] \in Nat /\ m[b + 1] \in Nat
      <4>1. \A d \in Nat : m[d + 1] = m[d] + z
        BY <1>3
      <4>2. m[b + 1] = m[b] + z
        BY <4>1
      <4>3. QED
        BY <4>2
    <3>2. m[c - 1] < n
      BY <1>3
    <3>3. QED
      BY <2>1, <3>1, <3>2
  <2>4. stop[b] = m[b] /\ stop[c] = IF m[c] <= n THEN m[c] ELSE n
    BY <1>4, <2>2, <2>3
  <2>5. Min({m[c], n}) = stop[c]
    BY <2>3, <2>4, MinOfTwo
  <2>6. chunks[c] = SubSeq(u, m[b] + 1, Min({m[c], n}))
    BY <1>cut, <1>6, <2>1
  <2>7. chunks[c] = SubSeq(u, stop[b] + 1, stop[c])
    BY <2>4, <2>5, <2>6
  <2>8. stop[b] < stop[c] /\ stop[c] <= stop[b] + z /\ stop[c] <= n
    <3>1. PICK v \in Nat, w \in Nat : v = m[b] /\ w = m[c]
      BY <2>3
    <3>2. w = v + z /\ v < n /\ stop[b] = v /\ stop[c] = IF w <= n THEN w ELSE n
      BY <2>3, <2>4, <3>1
    <3>3. QED
      BY <3>2
  <2>9. QED
    BY <2>1, <2>2, <2>7, <2>8
<1>8. DOMAIN chunks = 1..count
  BY <1>cut, <1>6
<1>9. ASSUME NEW c \in 1..count
      PROVE  chunks[c] \in Seq(R) /\ Len(chunks[c]) \in 1..z
  <2>1. PICK a \in Nat, b \in Nat : a = stop[c - 1] /\ b = stop[c]
    BY <1>5, <1>7
  <2>2. a < b /\ b <= a + z /\ b <= n /\ chunks[c] = SubSeq(u, a + 1, b)
    BY <1>7, <2>1
  <2>3. \A i \in a + 1..b : u[i] \in R
    <3>1. \A i \in 1..n : u[i] \in R
      BY <1>1, ElementOfSeq
    <3>2. QED
      BY <2>2, <3>1
  <2>4. PICK w : w = SubSeq(u, a + 1, b)
    OBVIOUS
  <2>5. w \in Seq(R) /\ Len(w) = IF a + 1 <= b THEN b - (a + 1) + 1 ELSE 0
    BY <2>3, <2>4, SubSeqProperties
  <2>6. Len(w) \in 1..z
    BY <2>2, <2>5
  <2>7. QED
    BY <2>2, <2>4, <2>5, <2>6
<1>10. Len(chunks) = count
  <2>1. chunks = [c \in 1..count |-> chunks[c]]
    BY <1>cut, <1>6
  <2>2. chunks \in [1..count -> Seq(R)]
    BY <1>9, <2>1
  <2>3. QED
    BY <1>3, <2>2, LenProperties
<1>11. FlattenSeq(chunks) = u
  <2>1. CASE count = 0
    <3>1. n = 0
      BY <1>3, <2>1
    <3>2. u = <<>>
      BY <1>1, <3>1, EmptySeq
    <3>3. chunks = <<>>
      <4>1. chunks \in [1..count -> Seq(R)]
        BY <1>cut, <1>6, <1>9
      <4>2. chunks \in Seq(Seq(R))
        BY <1>3, <4>1
      <4>3. QED
        BY <1>10, <2>1, <4>2, EmptySeq
    <3>4. FlattenSeq(chunks) = chunks
      BY <1>10, <2>1 DEF FlattenSeq
    <3>5. QED
      BY <3>2, <3>3, <3>4
  <2>2. CASE count # 0
    <3>1. PICK f : f = [i \in 1..count |-> SubSeq(u, 1, stop[i])]
      OBVIOUS
    <3>2. ASSUME NEW i \in 1..count
          PROVE  f[i] = IF i = 1 THEN chunks[i] ELSE f[i - 1] \o chunks[i]
      <4>1. PICK a \in Nat, b \in Nat : a = stop[i - 1] /\ b = stop[i]
        BY <1>5, <1>7
      <4>2. a <= b /\ b <= Len(u) /\ chunks[i] = SubSeq(u, a + 1, b) /\ f[i] = SubSeq(u, 1, b)
        <5>1. stop[i - 1] < stop[i] /\ stop[i] <= n
          BY <1>7
        <5>2. chunks[i] = SubSeq(u, stop[i - 1] + 1, stop[i])
          BY <1>7
        <5>3. f[i] = SubSeq(u, 1, stop[i])
          BY <3>1
        <5>4. a <= b /\ b <= n
          <6>1. a < b /\ b <= n
            BY <4>1, <5>1, Zenon
          <6>2. QED
            BY <6>1
        <5>5. QED
          BY <1>1, <4>1, <5>2, <5>3, <5>4
      <4>3. CASE i = 1
        <5>1. a = 0
          BY <1>5, <4>1, <4>3
        <5>2. QED
          BY <4>2, <4>3, <5>1
      <4>4. CASE i # 1
        <5>1. i - 1 \in 1..count
          BY <4>4
        <5>2. f[i - 1] = SubSeq(u, 1, a)
          BY <3>1, <4>1, <5>1
        <5>3. SubSeq(u, 1, a) \o SubSeq(u, a + 1, b) = SubSeq(u, 1, b)
          BY <4>2, Neighbours
        <5>4. QED
          BY <4>2, <4>4, <5>2, <5>3
      <4>5. QED
        BY <4>3, <4>4
    <3>3. Joins(f, chunks, count)
      <4>1. f = [i \in 1..count |-> f[i]]
        BY <3>1
      <4>2. QED
        BY <3>2, <4>1 DEF Joins
    <3>4. FlattenSeq(chunks) = f[count]
      BY <1>3, <1>10, <2>2, <3>3, FlattenByTable
    <3>5. f[count] = SubSeq(u, 1, n)
      <4>1. count \in 1..count
        BY <2>2
      <4>2. QED
        BY <1>5, <3>1, <4>1
    <3>6. SubSeq(u, 1, n) = u
      BY <1>1, SubSeqFull
    <3>7. QED
      BY <3>4, <3>5, <3>6
  <2>3. QED
    BY <2>1, <2>2
<1>12. QED
  BY <1>1, <1>6, <1>8, <1>9, <1>11

-----------------------------------------------------------------------------
(* The keys of a scan *)

\* One key starts with another if the parts in front are the same and the
\* payload starts with the other's.
LEMMA KeyPrefix ==
  ASSUME NEW t \in Seq(Byte), NEW s \in Byte, NEW p \in Seq(Byte), Len(t) <= MAX_TENANT_LEN,
         NEW u \in Seq(Byte), NEW r \in Byte, NEW q \in Seq(Byte), Len(u) <= MAX_TENANT_LEN
  PROVE  IsPrefix(Encode(t, s, p), Encode(u, r, q)) <=> t = u /\ s = r /\ IsPrefix(p, q)
<1>1. PICK a : a = Encode(t, s, p) /\ LaidOut(a, t, s, p)
  BY EncodeLayout
<1>2. PICK b : b = Encode(u, r, q) /\ LaidOut(b, u, r, q)
  BY EncodeLayout
<1>3. PICK n \in Nat, m \in Nat : n = Len(t) /\ m = Len(p)
  BY StringFacts
<1>4. PICK k \in Nat, l \in Nat : k = Len(u) /\ l = Len(q)
  BY StringFacts
<1>5. /\ a \in Seq(Byte) /\ Len(a) = n + 2 + m /\ a[1] = n /\ a[n + 2] = s
      /\ \A i \in 1..n : a[i + 1] = t[i]
      /\ \A i \in 1..m : a[i + n + 2] = p[i]
  BY <1>1, <1>3 DEF LaidOut
<1>6. /\ b \in Seq(Byte) /\ Len(b) = k + 2 + l /\ b[1] = k /\ b[k + 2] = r
      /\ \A i \in 1..k : b[i + 1] = u[i]
      /\ \A i \in 1..l : b[i + k + 2] = q[i]
  BY <1>2, <1>4 DEF LaidOut
<1>7. /\ IsPrefix(a, b) <=> n + 2 + m <= k + 2 + l /\ \A i \in 1..n + 2 + m : a[i] = b[i]
      /\ IsPrefix(p, q) <=> m <= l /\ \A i \in 1..m : p[i] = q[i]
  <2>1. a \in Seq(Byte) /\ b \in Seq(Byte)
    BY <1>5, <1>6
  <2>2. IsPrefix(a, b) <=> Len(a) <= Len(b) /\ \A i \in 1..Len(a) : a[i] = b[i]
    BY <2>1, PrefixByBytes, Zenon
  <2>3. IsPrefix(p, q) <=> Len(p) <= Len(q) /\ \A i \in 1..Len(p) : p[i] = q[i]
    BY PrefixByBytes, Zenon
  <2>4. QED
    BY <1>3, <1>4, <1>5, <1>6, <2>2, <2>3
<1>8. ASSUME IsPrefix(a, b)
      PROVE  t = u /\ s = r /\ IsPrefix(p, q)
  <2>1. n + 2 + m <= k + 2 + l /\ \A i \in 1..n + 2 + m : a[i] = b[i]
    BY <1>7, <1>8
  <2>2. 1 \in 1..n + 2 + m /\ n + 2 \in 1..n + 2 + m
    OBVIOUS
  <2>3. n = k
    BY <1>5, <1>6, <2>1, <2>2
  <2>4. ASSUME NEW i \in 1..n
        PROVE  t[i] = u[i]
    <3>1. i + 1 \in 1..n + 2 + m /\ i \in 1..k
      BY <2>3
    <3>2. QED
      BY <1>5, <1>6, <2>1, <3>1
  <2>5. t = u
    BY <1>3, <1>4, <2>3, <2>4, SeqEqual
  <2>6. s = r
    BY <1>5, <1>6, <2>1, <2>2, <2>3
  <2>7. m <= l
    BY <2>1, <2>3
  <2>8. ASSUME NEW i \in 1..m
        PROVE  p[i] = q[i]
    <3>1. i + n + 2 \in 1..n + 2 + m /\ i \in 1..l
      BY <2>7
    <3>2. QED
      BY <1>5, <1>6, <2>1, <2>3, <3>1
  <2>9. QED
    BY <1>7, <2>5, <2>6, <2>7, <2>8
<1>9. ASSUME t = u, s = r, IsPrefix(p, q)
      PROVE  IsPrefix(a, b)
  <2>1. m <= l /\ (\A i \in 1..m : p[i] = q[i]) /\ n = k
    BY <1>3, <1>4, <1>7, <1>9
  <2>2. ASSUME NEW i \in 1..n + 2 + m
        PROVE  a[i] = b[i]
    <3>1. CASE i = 1
      BY <1>5, <1>6, <2>1, <3>1
    <3>2. CASE i = n + 2
      BY <1>5, <1>6, <1>9, <2>1, <3>2
    <3>3. CASE i \in 2..n + 1
      <4>1. PICK j \in 1..n : i = j + 1
        <5>1. i - 1 \in 1..n /\ i = (i - 1) + 1
          BY <3>3
        <5>2. QED
          BY <5>1
      <4>2. QED
        BY <1>5, <1>6, <1>9, <2>1, <4>1
    <3>4. CASE i \in n + 3..n + 2 + m
      <4>1. PICK j \in 1..m : i = j + n + 2
        <5>1. i - (n + 2) \in 1..m /\ i = (i - (n + 2)) + n + 2
          BY <3>4
        <5>2. QED
          BY <5>1
      <4>2. j \in 1..l
        BY <2>1
      <4>3. QED
        BY <1>5, <1>6, <2>1, <4>1, <4>2
    <3>5. QED
      BY <3>1, <3>2, <3>3, <3>4
  <2>3. n + 2 + m <= k + 2 + l
    BY <2>1
  <2>4. QED
    BY <1>7, <2>2, <2>3
<1>10. QED
  BY <1>1, <1>2, <1>8, <1>9

\* encode_data_scan_bounds: the start is laid out like a key, and what is
\* stripped is all that stands in front of the payload.
LEMMA ScanStart ==
  ASSUME NEW t \in Seq(Byte), NEW prefix \in Seq(Byte), Len(t) <= MAX_TENANT_LEN
  PROVE  /\ EncodeDataScanBounds(t, prefix).start = Encode(t, Data, prefix)
         /\ EncodeDataScanBounds(t, prefix).end = NextPrefixBound(Encode(t, Data, prefix))
         /\ EncodeDataScanBounds(t, prefix).strip_len = Len(t) + 2
<1>1. Data \in Byte /\ <<>> \in Seq(Byte) /\ Len(<<>>) = 0
  BY DEF Data, Byte
<1>2. PICK sub : sub = Encode(t, Data, <<>>) /\ LaidOut(sub, t, Data, <<>>)
  BY <1>1, EncodeLayout
<1>3. PICK n \in Nat, m \in Nat : n = Len(t) /\ m = Len(prefix)
  BY StringFacts
<1>4. sub \in Seq(Byte) /\ Len(sub) = n + 2 /\ sub[1] = n /\ sub[n + 2] = Data
      /\ \A i \in 1..n : sub[i + 1] = t[i]
  <2>1. /\ sub \in Seq(Byte) /\ Len(sub) = n + 2 + Len(<<>>) /\ sub[1] = n
        /\ sub[n + 2] = Data /\ \A i \in 1..n : sub[i + 1] = t[i]
    BY <1>2, <1>3 DEF LaidOut
  <2>2. QED
    BY <1>1, <2>1
<1>5. PICK e : e = Encode(t, Data, prefix) /\ LaidOut(e, t, Data, prefix)
  BY <1>1, EncodeLayout
<1>6. /\ e \in Seq(Byte) /\ Len(e) = n + 2 + m /\ e[1] = n /\ e[n + 2] = Data
      /\ \A i \in 1..n : e[i + 1] = t[i]
      /\ \A i \in 1..m : e[i + n + 2] = prefix[i]
  BY <1>3, <1>5 DEF LaidOut
<1>7. PICK start : start = sub \o prefix
  OBVIOUS
<1>8. /\ start \in Seq(Byte) /\ Len(start) = n + 2 + m
      /\ \A i \in 1..n + 2 + m : start[i] = IF i <= n + 2 THEN sub[i] ELSE prefix[i - (n + 2)]
  <2>1. /\ start \in Seq(Byte) /\ Len(start) = Len(sub) + Len(prefix)
        /\ \A i \in 1..Len(sub) + Len(prefix) :
             start[i] = IF i <= Len(sub) THEN sub[i] ELSE prefix[i - Len(sub)]
    <3>1. sub \in Seq(Byte)
      BY <1>4
    <3>2. QED
      BY <1>7, <3>1, ConcatProperties, Zenon
  <2>2. QED
    BY <1>3, <1>4, <2>1
<1>9. ASSUME NEW i \in 1..n + 2 + m
      PROVE  start[i] = e[i]
  <2>1. CASE i = 1
    BY <1>4, <1>6, <1>8, <2>1
  <2>2. CASE i = n + 2
    BY <1>4, <1>6, <1>8, <2>2
  <2>3. CASE i \in 2..n + 1
    <3>1. PICK j \in 1..n : i = j + 1
      <4>1. i - 1 \in 1..n /\ i = (i - 1) + 1
        BY <2>3
      <4>2. QED
        BY <4>1
    <3>2. i <= n + 2 /\ start[i] = sub[i]
      BY <1>8, <2>3
    <3>3. QED
      BY <1>4, <1>6, <3>1, <3>2
  <2>4. CASE i \in n + 3..n + 2 + m
    <3>1. PICK j \in 1..m : i = j + n + 2
      <4>1. i - (n + 2) \in 1..m /\ i = (i - (n + 2)) + n + 2
        BY <2>4
      <4>2. QED
        BY <4>1
    <3>2. ~(i <= n + 2) /\ i - (n + 2) = j
      BY <3>1
    <3>3. QED
      BY <1>6, <1>8, <3>1, <3>2
  <2>5. QED
    BY <2>1, <2>2, <2>3, <2>4
<1>10. start = e
  BY <1>6, <1>8, <1>9, SeqEqual
<1>11. QED
  BY <1>2, <1>3, <1>4, <1>5, <1>7, <1>10 DEF EncodeDataScanBounds

\* The bounds of a scan exist: the subspace byte of the start can be counted up.
LEMMA ScanEnds ==
  ASSUME NEW t \in Seq(Byte), NEW prefix \in Seq(Byte), Len(t) <= MAX_TENANT_LEN
  PROVE  NextPrefixBound(Encode(t, Data, prefix)) # <<>>
<1>1. Data \in Byte /\ Data # 255
  BY DEF Data, Byte
<1>2. PICK e : e = Encode(t, Data, prefix) /\ LaidOut(e, t, Data, prefix)
  BY <1>1, EncodeLayout
<1>3. PICK n \in Nat, m \in Nat : n = Len(t) /\ m = Len(prefix)
  BY StringFacts
<1>4. e \in Seq(Byte) /\ Len(e) = n + 2 + m /\ e[n + 2] = Data
  BY <1>2, <1>3 DEF LaidOut
<1>5. DOMAIN e = 1..n + 2 + m /\ \A i \in 1..n + 2 + m : e[i] \in Byte
  BY <1>4, LenProperties, ElementOfSeq
<1> DEFINE low == {i \in DOMAIN e : e[i] # 255}
<1>6. n + 2 \in low /\ low \in SUBSET (1..n + 2 + m)
  BY <1>1, <1>4, <1>5
<1>7. NextPrefixBound(e) = [SubSeq(e, 1, Max(low)) EXCEPT ![Max(low)] = @ + 1]
  <2>1. low # {}
    BY <1>6
  <2>2. QED
    BY <2>1, Zenon DEF NextPrefixBound
<1> HIDE DEF low
<1>8. PICK last \in 1..n + 2 + m : last = Max(low)
  <2>1. n + 2 + m \in Nat /\ low # {}
    BY <1>6
  <2>2. Max(low) \in low
    BY <1>6, <2>1, LastPosition
  <2>3. QED
    BY <1>6, <2>2
<1>9. PICK front : front = SubSeq(e, 1, last)
  OBVIOUS
<1>10. front \in Seq(Byte) /\ Len(front) = last
  <2>1. \A i \in 1..last : e[i] \in Byte
    BY <1>5, <1>8
  <2>2. /\ front \in Seq(Byte)
        /\ Len(front) = IF 1 <= last THEN last - 1 + 1 ELSE 0
    BY <1>9, <2>1, SubSeqProperties
  <2>3. QED
    BY <2>2
<1>11. 1 \in DOMAIN front
  BY <1>10, LenProperties
<1>12. [front EXCEPT ![last] = @ + 1] # <<>>
  <2>1. DOMAIN [front EXCEPT ![last] = @ + 1] = DOMAIN front /\ DOMAIN <<>> = {}
    OBVIOUS
  <2>2. QED
    BY <1>11, <2>1
<1>13. QED
  BY <1>2, <1>7, <1>8, <1>9, <1>12

\* scan_range finds the tenant's data under the prefix, and nothing else.
LEMMA ScannedKeys ==
  ASSUME NEW t \in Known, NEW prefix \in ScanPrefixes, NEW key \in StorageKeys,
         NEW bounds, bounds = EncodeDataScanBounds(t, prefix)
  PROVE  InRange(key, bounds.start, bounds.end)
           <=> \E p \in Payloads : IsPrefix(prefix, p) /\ key = Encode(t, Data, p)
<1>1. t \in Seq(Byte) /\ Len(t) <= MAX_TENANT_LEN /\ Data \in Byte /\ Data \in Subspaces
  <2>1. Data \in Subspaces /\ QUOTA_KEY \in Payloads
    BY ScanAssumption DEF Subspaces
  <2>2. QED
    BY <2>1, KeyParts
<1>2. prefix \in Seq(Byte)
  BY ScanAssumption
<1>3. PICK start : start = Encode(t, Data, prefix)
  OBVIOUS
<1>4. bounds.start = start /\ bounds.end = NextPrefixBound(start) /\ start \in Seq(Byte)
  <2>1. start \in Seq(Byte)
    BY <1>1, <1>2, <1>3, EncodeLayout DEF LaidOut
  <2>2. QED
    BY <1>1, <1>2, <1>3, <2>1, ScanStart
<1>5. PICK u \in Known, r \in Subspaces, q \in Payloads : key = Encode(u, r, q)
  BY DEF StorageKeys
<1>6. u \in Seq(Byte) /\ Len(u) <= MAX_TENANT_LEN /\ r \in Byte /\ q \in Seq(Byte)
  BY KeyParts
<1>7. key \in Seq(Byte)
  BY <1>5, <1>6, EncodeLayout DEF LaidOut
<1>8. InRange(key, start, NextPrefixBound(start)) <=> IsPrefix(start, key)
  <2>1. NextPrefixBound(start) # <<>>
    BY <1>1, <1>2, <1>3, ScanEnds
  <2>2. PICK m \in Nat : BoundAt(NextPrefixBound(start), start, m)
    BY <1>4, <2>1, BoundLayout
  <2>3. QED
    BY <1>4, <1>7, <2>2, RangeOfPrefix
<1>9. IsPrefix(start, key) <=> t = u /\ Data = r /\ IsPrefix(prefix, q)
  BY <1>1, <1>2, <1>3, <1>5, <1>6, KeyPrefix
<1>10. (\E p \in Payloads : IsPrefix(prefix, p) /\ key = Encode(t, Data, p))
         <=> t = u /\ Data = r /\ IsPrefix(prefix, q)
  BY <1>1, <1>5, KeysApart
<1>11. QED
  BY <1>4, <1>8, <1>9, <1>10

\* Keys of one subspace are in the order of their payloads.
LEMMA KeyOrder ==
  ASSUME NEW t \in Known, NEW s \in Subspaces, NEW p \in Payloads, NEW q \in Payloads
  PROVE  Less(Encode(t, s, p), Encode(t, s, q)) <=> Less(p, q)
<1>1. t \in Seq(Byte) /\ Len(t) <= MAX_TENANT_LEN /\ s \in Byte /\ p \in Seq(Byte) /\ q \in Seq(Byte)
  BY KeyParts
<1>2. ASSUME NEW x \in Seq(Byte), NEW y \in Seq(Byte), Less(x, y)
      PROVE  Less(Encode(t, s, x), Encode(t, s, y))
  <2>1. PICK a : a = Encode(t, s, x) /\ LaidOut(a, t, s, x)
    BY <1>1, EncodeLayout
  <2>2. PICK b : b = Encode(t, s, y) /\ LaidOut(b, t, s, y)
    BY <1>1, EncodeLayout
  <2>3. PICK n \in Nat, m \in Nat, l \in Nat : n = Len(t) /\ m = Len(x) /\ l = Len(y)
    BY <1>1, StringFacts
  <2>4. /\ a \in Seq(Byte) /\ Len(a) = n + 2 + m /\ a[1] = n /\ a[n + 2] = s
        /\ \A i \in 1..n : a[i + 1] = t[i]
        /\ \A i \in 1..m : a[i + n + 2] = x[i]
    BY <2>1, <2>3 DEF LaidOut
  <2>5. /\ b \in Seq(Byte) /\ Len(b) = n + 2 + l /\ b[1] = n /\ b[n + 2] = s
        /\ \A i \in 1..n : b[i + 1] = t[i]
        /\ \A i \in 1..l : b[i + n + 2] = y[i]
    BY <2>2, <2>3 DEF LaidOut
  <2>6. PICK k \in Nat : BelowAt(x, y, k)
    BY <1>2, LessAt
  <2>7. /\ k \in 1..l /\ k <= m + 1 /\ (k <= m => x[k] < y[k])
        /\ \A j \in 1..k - 1 : x[j] = y[j]
    BY <2>3, <2>6 DEF BelowAt
  <2>8. PICK g \in Nat : g = k + n + 2
    OBVIOUS
  <2>9. g \in 1..n + 2 + l /\ g <= n + 2 + m + 1
    BY <2>7, <2>8
  <2>10. ASSUME g <= n + 2 + m
         PROVE  a[g] < b[g]
    <3>1. k \in 1..m /\ k \in 1..l /\ x[k] < y[k]
      BY <2>7, <2>8, <2>10
    <3>2. a[g] = x[k] /\ b[g] = y[k]
      BY <2>4, <2>5, <2>8, <3>1
    <3>3. QED
      BY <3>1, <3>2
  <2>11. ASSUME NEW j \in 1..g - 1
         PROVE  a[j] = b[j]
    <3>1. CASE j = 1
      BY <2>4, <2>5, <3>1
    <3>2. CASE j = n + 2
      BY <2>4, <2>5, <3>2
    <3>3. CASE j \in 2..n + 1
      <4>1. j - 1 \in 1..n /\ (j - 1) + 1 = j
        BY <3>3
      <4>2. QED
        BY <2>4, <2>5, <4>1
    <3>4. CASE j \in n + 3..g - 1
      <4>1. PICK i \in 1..k - 1 : j = i + n + 2
        <5>1. j - (n + 2) \in 1..k - 1 /\ j = (j - (n + 2)) + n + 2
          BY <2>8, <3>4
        <5>2. QED
          BY <5>1
      <4>2. i \in 1..m /\ i \in 1..l
        BY <2>7
      <4>3. a[j] = x[i] /\ b[j] = y[i] /\ x[i] = y[i]
        BY <2>4, <2>5, <2>7, <4>1, <4>2
      <4>4. QED
        BY <4>3
    <3>5. QED
      BY <2>8, <3>1, <3>2, <3>3, <3>4
  <2>12. BelowAt(a, b, g)
    BY <2>4, <2>5, <2>9, <2>10, <2>11 DEF BelowAt
  <2>13. QED
    BY <2>1, <2>2, <2>4, <2>5, <2>12, LessAt
<1>3. PICK a, b : a = Encode(t, s, p) /\ b = Encode(t, s, q)
  OBVIOUS
<1>4. a \in Seq(Byte) /\ b \in Seq(Byte)
  BY <1>1, <1>3, EncodeLayout DEF LaidOut
<1>5. ASSUME Less(a, b), ~Less(p, q)
      PROVE  FALSE
  <2>1. CASE p = q
    BY <1>3, <1>4, <1>5, <2>1, LessIrreflexive
  <2>2. CASE Less(q, p)
    <3>1. Less(b, a)
      BY <1>1, <1>2, <1>3, <2>2
    <3>2. QED
      BY <1>4, <1>5, <3>1, LessTransitive, LessIrreflexive
  <2>3. QED
    BY <1>1, <1>5, <2>1, <2>2, LessTotal
<1>6. QED
  BY <1>1, <1>2, <1>3, <1>5

\* What is left of a key when the front is stripped is the payload.
LEMMA StripKey ==
  ASSUME NEW t \in Known, NEW prefix \in ScanPrefixes, NEW p \in Payloads,
         NEW bounds, bounds = EncodeDataScanBounds(t, prefix)
  PROVE  StripPrefix(Encode(t, Data, p), bounds.strip_len) = p
<1>1. /\ t \in Seq(Byte) /\ Len(t) <= MAX_TENANT_LEN /\ Data \in Byte /\ p \in Seq(Byte)
      /\ prefix \in Seq(Byte)
  <2>1. Data \in Subspaces
    BY DEF Subspaces
  <2>2. QED
    BY <2>1, KeyParts, ScanAssumption
<1>2. PICK n \in Nat, m \in Nat : n = Len(t) /\ m = Len(p)
  BY <1>1, StringFacts
<1>3. PICK e : e = Encode(t, Data, p) /\ LaidOut(e, t, Data, p)
  BY <1>1, EncodeLayout
<1>4. e \in Seq(Byte) /\ Len(e) = n + 2 + m /\ \A i \in 1..m : e[i + n + 2] = p[i]
  BY <1>2, <1>3 DEF LaidOut
<1>5. bounds.strip_len = n + 2
  BY <1>1, <1>2, ScanStart
<1>6. PICK a : a = SubSeq(e, n + 2 + 1, n + 2 + m)
  OBVIOUS
<1>7. \A i \in n + 2 + 1..n + 2 + m : e[i] \in Byte
  BY <1>4, ElementOfSeq
<1>8. /\ a \in Seq(Byte)
      /\ Len(a) = IF n + 2 + 1 <= n + 2 + m THEN (n + 2 + m) - (n + 2 + 1) + 1 ELSE 0
      /\ \A i \in 1..(n + 2 + m) - (n + 2 + 1) + 1 : a[i] = e[n + 2 + 1 + i - 1]
  BY <1>6, <1>7, SubSeqProperties
<1>9. /\ (n + 2 + m) - (n + 2 + 1) + 1 = m /\ (~(n + 2 + 1 <= n + 2 + m) => m = 0)
      /\ \A i \in 1..m : n + 2 + 1 + i - 1 = i + n + 2
  OBVIOUS
<1>10. Len(a) = m /\ \A i \in 1..m : a[i] = p[i]
  BY <1>4, <1>8, <1>9
<1>11. a = p
  BY <1>1, <1>2, <1>8, <1>10, SeqEqual
<1>12. QED
  BY <1>3, <1>4, <1>5, <1>6, <1>11 DEF StripPrefix

-----------------------------------------------------------------------------
(* What a scan has collected *)

\* The scan of a tenant's data that has visited the shards in front of `shard`:
\* what was seen of a key includes what is there now; what was found was seen,
\* once for each key; and a key that was there all along has been found.
Collected(t, asked, shard, found, seen, data, layout) ==
  /\ \A p \in Payloads : data[t][p] \in seen[p]
  /\ \A f \in found : \E p \in asked :
       f.key = Encode(t, Data, p) /\ f.entry \in seen[p] /\ layout[f.key] < shard
  /\ \A f, g \in found : f.key = g.key => f = g
  /\ \A p \in asked : layout[Encode(t, Data, p)] < shard /\ None \notin seen[p]
       => \E f \in found : f.key = Encode(t, Data, p)

AskedFor(prefix) == {p \in Payloads : IsPrefix(prefix, p)}

\* A scan that starts has collected what it should.
LEMMA CollectedFirst ==
  ASSUME NEW t \in Known, NEW asked \in SUBSET Payloads, NEW data,
         NEW layout \in [StorageKeys -> 1..Shards],
         NEW seen, seen = [p \in Payloads |-> {data[t][p]}]
  PROVE  Collected(t, asked, 1, {}, seen, data, layout)
<1>1. ASSUME NEW p \in asked
      PROVE  ~(layout[Encode(t, Data, p)] < 1)
  <2>1. Encode(t, Data, p) \in StorageKeys
    BY StorageKey DEF Subspaces
  <2>2. layout[Encode(t, Data, p)] \in 1..Shards
    BY <2>1
  <2>3. QED
    BY <2>2, ScanAssumption
<1>2. \A p \in Payloads : data[t][p] \in seen[p]
  OBVIOUS
<1>3. QED
  BY <1>1, <1>2 DEF Collected

\* A write that the scan is told of changes nothing about that, and neither
\* does the write of another tenant.
LEMMA CollectedNoting ==
  ASSUME NEW t \in Known, NEW asked \in SUBSET Payloads, NEW shard, NEW found,
         NEW seen \in [Payloads -> SUBSET (Entries \cup {None})],
         NEW data \in [Known -> [Payloads -> Entries \cup {None}]], NEW layout,
         Collected(t, asked, shard, found, seen, data, layout),
         NEW u \in Known, NEW q \in Payloads, NEW entry \in Entries \cup {None},
         NEW more, more = IF t = u THEN [seen EXCEPT ![q] = seen[q] \cup {entry}] ELSE seen,
         NEW next, next = [data EXCEPT ![u][q] = entry]
  PROVE  Collected(t, asked, shard, found, more, next, layout)
<1>1. \A p \in Payloads : seen[p] \subseteq more[p]
  OBVIOUS
<1>2. ASSUME NEW p \in Payloads
      PROVE  next[t][p] \in more[p]
  <2>1. data[t][p] \in seen[p]
    BY DEF Collected
  <2>2. CASE t = u /\ p = q
    BY <2>2
  <2>3. CASE ~(t = u /\ p = q)
    <3>1. next[t][p] = data[t][p]
      BY <2>3
    <3>2. QED
      BY <1>1, <2>1, <3>1
  <2>4. QED
    BY <2>2, <2>3
<1>3. ASSUME NEW f \in found
      PROVE  \E p \in asked :
               f.key = Encode(t, Data, p) /\ f.entry \in more[p] /\ layout[f.key] < shard
  <2>1. PICK p \in asked :
          f.key = Encode(t, Data, p) /\ f.entry \in seen[p] /\ layout[f.key] < shard
    BY DEF Collected
  <2>2. f.entry \in more[p]
    BY <1>1, <2>1
  <2>3. QED
    BY <2>1, <2>2
<1>4. ASSUME NEW p \in asked, layout[Encode(t, Data, p)] < shard, None \notin more[p]
      PROVE  \E f \in found : f.key = Encode(t, Data, p)
  <2>1. None \notin seen[p]
    BY <1>1, <1>4
  <2>2. QED
    BY <1>4, <2>1 DEF Collected
<1>5. \A f, g \in found : f.key = g.key => f = g
  BY DEF Collected
<1>6. QED
  BY <1>2, <1>3, <1>4, <1>5 DEF Collected

\* What the visit of a shard adds.
Visited(t, prefix, shard, layout, st) ==
  LET bounds == EncodeDataScanBounds(t, prefix)
      keys == {k \in DOMAIN st : layout[k] = shard /\ InRange(k, bounds.start, bounds.end)}
  IN {[key |-> k, entry |-> st[k]] : k \in keys}

\* Nor does the visit of a shard, as storage holds what was written.
LEMMA CollectedVisit ==
  ASSUME NEW t \in Known, NEW prefix \in ScanPrefixes,
         NEW shard \in Nat, NEW found \in SUBSET [key : StorageKeys, entry : Entries],
         NEW seen, NEW data, NEW layout \in [StorageKeys -> 1..Shards],
         Collected(t, AskedFor(prefix), shard, found, seen, data, layout),
         NEW st, DOMAIN st \subseteq StorageKeys,
         \A p \in Payloads : Holds(st, Encode(t, Data, p), data[t][p])
  PROVE  Collected(t, AskedFor(prefix), shard + 1,
                   found \cup Visited(t, prefix, shard, layout, st), seen, data, layout)
<1>asked. PICK asked : asked = AskedFor(prefix)
  OBVIOUS
<1>bounds. PICK bounds : bounds = EncodeDataScanBounds(t, prefix)
  OBVIOUS
<1>keys. PICK keys : keys = {k \in DOMAIN st : layout[k] = shard
                                              /\ InRange(k, bounds.start, bounds.end)}
  OBVIOUS
<1>more. PICK more : more = found \cup {[key |-> k, entry |-> st[k]] : k \in keys}
  OBVIOUS
<1>same. more = found \cup Visited(t, prefix, shard, layout, st)
  BY <1>bounds, <1>keys, <1>more DEF Visited
<1>old. Collected(t, asked, shard, found, seen, data, layout)
  BY <1>asked
<1>1. \A k \in StorageKeys : layout[k] \in Nat
  BY ScanAssumption
<1>2. ASSUME NEW k \in keys
      PROVE  /\ k \in StorageKeys /\ layout[k] = shard
             /\ \E p \in asked : k = Encode(t, Data, p) /\ st[k] \in seen[p]
  <2>1. k \in DOMAIN st /\ k \in StorageKeys /\ layout[k] = shard
        /\ InRange(k, bounds.start, bounds.end)
    BY <1>keys
  <2>2. PICK p \in Payloads : IsPrefix(prefix, p) /\ k = Encode(t, Data, p)
    BY <1>bounds, <2>1, ScannedKeys
  <2>3. st[k] = data[t][p]
    BY <2>1, <2>2 DEF Holds
  <2>4. data[t][p] \in seen[p] /\ p \in asked
    BY <1>asked, <1>old, <2>2 DEF Collected, AskedFor
  <2>5. QED
    BY <2>1, <2>2, <2>3, <2>4
<1>3. ASSUME NEW f \in found
      PROVE  /\ \E p \in asked : f.key = Encode(t, Data, p) /\ f.entry \in seen[p]
             /\ f.key \in StorageKeys /\ layout[f.key] < shard
  BY <1>old DEF Collected
<1>4. ASSUME NEW f \in more
      PROVE  \E p \in asked :
               f.key = Encode(t, Data, p) /\ f.entry \in seen[p] /\ layout[f.key] < shard + 1
  <2>1. CASE f \in found
    <3>1. layout[f.key] < shard + 1
      BY <1>1, <1>3, <2>1
    <3>2. QED
      BY <1>3, <2>1, <3>1
  <2>2. CASE f \notin found
    <3>1. PICK k \in keys : f = [key |-> k, entry |-> st[k]]
      BY <1>more, <2>2
    <3>2. f.key = k /\ f.entry = st[k] /\ layout[f.key] < shard + 1
      BY <1>2, <3>1
    <3>3. QED
      BY <1>2, <3>2
  <2>3. QED
    BY <2>1, <2>2
<1>5. ASSUME NEW f \in more, NEW g \in more, f.key = g.key
      PROVE  f = g
  <2>1. ASSUME NEW d \in found, NEW k \in keys
        PROVE  d.key # k
    <3>1. layout[d.key] < shard /\ layout[k] = shard /\ layout[d.key] \in Nat
      BY <1>1, <1>2, <1>3
    <3>2. QED
      BY <3>1
  <2>2. \A d \in more \ found : \E k \in keys : d = [key |-> k, entry |-> st[k]]
    BY <1>more
  <2>3. CASE f \in found /\ g \in found
    BY <1>5, <1>old, <2>3 DEF Collected
  <2>4. CASE f \in found /\ g \notin found
    BY <1>5, <2>1, <2>2, <2>4
  <2>5. CASE f \notin found /\ g \in found
    BY <1>5, <2>1, <2>2, <2>5
  <2>6. CASE f \notin found /\ g \notin found
    BY <1>5, <2>2, <2>6
  <2>7. QED
    BY <2>3, <2>4, <2>5, <2>6
<1>6. ASSUME NEW p \in asked, layout[Encode(t, Data, p)] < shard + 1, None \notin seen[p]
      PROVE  \E f \in more : f.key = Encode(t, Data, p)
  <2>1. PICK key : key = Encode(t, Data, p)
    OBVIOUS
  <2>2. p \in Payloads /\ IsPrefix(prefix, p)
    BY <1>asked DEF AskedFor
  <2>3. key \in StorageKeys /\ layout[key] \in Nat
    BY <1>1, <2>1, <2>2, StorageKey DEF Subspaces
  <2>4. CASE layout[key] < shard
    <3>1. \E f \in found : f.key = Encode(t, Data, p)
      BY <1>6, <1>old, <2>1, <2>4 DEF Collected
    <3>2. QED
      BY <1>more, <3>1
  <2>5. CASE layout[key] = shard
    <3>1. data[t][p] # None
      BY <1>6, <1>old, <2>2 DEF Collected
    <3>2. key \in DOMAIN st
      BY <2>1, <2>2, <3>1 DEF Holds
    <3>3. InRange(key, bounds.start, bounds.end)
      BY <1>bounds, <2>1, <2>2, <2>3, ScannedKeys
    <3>4. key \in keys
      BY <1>keys, <2>5, <3>2, <3>3
    <3>5. [key |-> key, entry |-> st[key]] \in more
      BY <1>more, <3>4
    <3>6. QED
      BY <2>1, <3>5
  <2>6. layout[key] < shard \/ layout[key] = shard
    <3>1. layout[key] < shard + 1
      BY <1>6, <2>1
    <3>2. QED
      BY <2>3, <3>1
  <2>7. QED
    BY <2>4, <2>5, <2>6
<1>7. \A p \in Payloads : data[t][p] \in seen[p]
  BY <1>old DEF Collected
<1>8. Collected(t, asked, shard + 1, more, seen, data, layout)
  BY <1>4, <1>5, <1>6, <1>7 DEF Collected
<1>9. QED
  BY <1>asked, <1>same, <1>8

-----------------------------------------------------------------------------
(* The answer *)

LiveAt(e, now) == e # None /\ ~IsExpired(e, now)

\* What ScanExact asks of an answer, before it is cut into chunks.
Exact(answer, limit, asked, seen, now) ==
  /\ Len(answer) <= limit
  /\ \A i, j \in DOMAIN answer : i < j => Less(answer[i].key, answer[j].key)
  /\ \A i \in DOMAIN answer :
       /\ answer[i].key \in asked
       /\ \E e \in seen[answer[i].key] : LiveAt(e, now) /\ e.value = answer[i].value
  /\ \A p \in asked : (\A e \in seen[p] : LiveAt(e, now)) =>
       \/ \E i \in DOMAIN answer : answer[i].key = p
       \/ Len(answer) = limit /\ Less(Last(answer).key, p)

\* What filter_scan leaves: `entries`, the first k of the n sorted entries of `live`.
Filtered(entries, live, s, n, k) ==
  /\ InKeyOrder(s, live) /\ Len(s) = n
  /\ entries \in Seq(live) /\ Len(entries) = k /\ DOMAIN entries = 1..k
  /\ \A i \in 1..n : s[i] \in live
  /\ \A i \in 1..k : entries[i] = s[i]

LEMMA FilterFacts ==
  ASSUME NEW found, OneEach(found), NEW limit \in Nat, NEW now,
         NEW live, live = {e \in found : ~IsExpired(e.entry, now)}
  PROVE  \E s \in Seq(live), n \in Nat :
           Filtered(FilterScan(found, limit, now), live, s, n, IF limit <= n THEN limit ELSE n)
<1>1. OneEach(live)
  <2>1. /\ IsFiniteSet(found) /\ \A e \in found : e.key \in Seq(Byte)
        /\ \A d, e \in found : d.key = e.key => d = e
    BY DEF OneEach
  <2>2. live \in SUBSET found
    OBVIOUS
  <2>3. IsFiniteSet(live)
    BY <2>1, <2>2, FS_Subset
  <2>4. QED
    BY <2>1, <2>2, <2>3 DEF OneEach
<1>2. PICK s : s = Sorted(live) /\ InKeyOrder(s, live)
  BY <1>1, SortedSorts
<1>3. s \in Seq(live)
  BY <1>2 DEF InKeyOrder
<1>4. PICK n \in Nat : n = Len(s)
  BY <1>3, LenProperties
<1>5. \A i \in 1..n : s[i] \in live
  BY <1>3, <1>4, ElementOfSeq
<1>6. PICK k \in Nat : k = (IF limit <= n THEN limit ELSE n) /\ k <= n
  <2>1. (IF limit <= n THEN limit ELSE n) \in Nat /\ (IF limit <= n THEN limit ELSE n) <= n
    OBVIOUS
  <2>2. QED
    BY <2>1
<1>7. Min({limit, n}) = k
  BY <1>6, MinOfTwo
<1>8. PICK entries : entries = SubSeq(s, 1, k)
  OBVIOUS
<1>9. FilterScan(found, limit, now) = entries
  BY <1>2, <1>4, <1>7, <1>8 DEF FilterScan
<1>10. /\ entries \in Seq(live) /\ Len(entries) = k
       /\ \A i \in 1..k : entries[i] = s[i]
  <2>1. \A i \in 1..k : s[i] \in live
    BY <1>5, <1>6
  <2>2. /\ entries \in Seq(live)
        /\ Len(entries) = IF 1 <= k THEN k - 1 + 1 ELSE 0
        /\ \A i \in 1..k - 1 + 1 : entries[i] = s[1 + i - 1]
    BY <1>8, <2>1, SubSeqProperties
  <2>3. k - 1 + 1 = k /\ (~(1 <= k) => k = 0) /\ \A i \in 1..k : 1 + i - 1 = i
    OBVIOUS
  <2>4. QED
    BY <2>2, <2>3
<1>11. DOMAIN entries = 1..k
  BY <1>10, LenProperties
<1>12. Filtered(entries, live, s, n, k)
  BY <1>2, <1>4, <1>5, <1>10, <1>11 DEF Filtered
<1>13. QED
  BY <1>3, <1>6, <1>9, <1>12

\* What the client is sent for the entries that were found.
UserEntries(t, prefix, found, limit, now) ==
  LET entries == FilterScan(found, limit, now)
  IN [i \in DOMAIN entries |->
        [key |-> StripPrefix(entries[i].key, EncodeDataScanBounds(t, prefix).strip_len),
         value |-> entries[i].entry.value]]

\* scan_impl: the answer of a scan that has visited every shard.
LEMMA AnswerExact ==
  ASSUME NEW t \in Known, NEW prefix \in ScanPrefixes,
         NEW found \in SUBSET [key : StorageKeys, entry : Entries], IsFiniteSet(found),
         NEW seen, NEW data, NEW layout \in [StorageKeys -> 1..Shards],
         Collected(t, AskedFor(prefix), Shards + 1, found, seen, data, layout),
         NEW limit \in Nat \ {0}, NEW now,
         NEW user, user = UserEntries(t, prefix, found, limit, now)
  PROVE  /\ user \in Seq([key : Payloads, value : Nat])
         /\ Exact(user, limit, AskedFor(prefix), seen, now)
<1>asked. PICK asked, bounds, entries :
            /\ asked = AskedFor(prefix) /\ bounds = EncodeDataScanBounds(t, prefix)
            /\ entries = FilterScan(found, limit, now)
  OBVIOUS
<1>user. user = [i \in DOMAIN entries |->
                   [key |-> StripPrefix(entries[i].key, bounds.strip_len),
                    value |-> entries[i].entry.value]]
  BY <1>asked DEF UserEntries
<1>1. /\ \A f \in found : \E p \in asked : f.key = Encode(t, Data, p) /\ f.entry \in seen[p]
      /\ \A f, g \in found : f.key = g.key => f = g
      /\ \A p \in asked : layout[Encode(t, Data, p)] < Shards + 1 /\ None \notin seen[p]
           => \E f \in found : f.key = Encode(t, Data, p)
  BY <1>asked DEF Collected
<1>2. asked \subseteq Payloads /\ Data \in Subspaces
  BY <1>asked DEF AskedFor, Subspaces
<1>3. OneEach(found)
  <2>1. ASSUME NEW k \in StorageKeys
        PROVE  k \in Seq(Byte)
    <3>1. PICK u \in Known, r \in Subspaces, q \in Payloads : k = Encode(u, r, q)
      BY DEF StorageKeys
    <3>2. u \in Seq(Byte) /\ Len(u) <= MAX_TENANT_LEN /\ r \in Byte /\ q \in Seq(Byte)
      BY KeyParts
    <3>3. QED
      BY <3>1, <3>2, EncodeLayout DEF LaidOut
  <2>2. QED
    BY <1>1, <2>1 DEF OneEach
<1>4. PICK live : live = {e \in found : ~IsExpired(e.entry, now)}
  OBVIOUS
<1>5. PICK s \in Seq(live), n \in Nat :
        Filtered(entries, live, s, n, IF limit <= n THEN limit ELSE n)
  BY <1>3, <1>4, <1>asked, FilterFacts
<1>6. PICK k \in Nat : k = (IF limit <= n THEN limit ELSE n)
  OBVIOUS
<1>7. /\ InKeyOrder(s, live) /\ Len(s) = n
      /\ entries \in Seq(live) /\ Len(entries) = k /\ DOMAIN entries = 1..k
      /\ \A i \in 1..n : s[i] \in live
      /\ \A i \in 1..k : entries[i] = s[i]
  BY <1>5, <1>6 DEF Filtered
<1>8. /\ \A e \in live : \E i \in 1..n : s[i] = e
      /\ \A i, j \in 1..n : i < j => Less(s[i].key, s[j].key)
  BY <1>7 DEF InKeyOrder
<1>9. k <= n /\ k <= limit /\ (k < n => k = limit)
  BY <1>6
<1>10. ASSUME NEW i \in 1..k
       PROVE  /\ i \in 1..n /\ s[i] \in found /\ s[i].entry \in Entries
              /\ ~IsExpired(s[i].entry, now)
              /\ user[i].key \in asked /\ s[i].key = Encode(t, Data, user[i].key)
              /\ s[i].entry \in seen[user[i].key] /\ user[i].value = s[i].entry.value
              /\ user[i] \in [key : Payloads, value : Nat]
  <2>1. i \in 1..n
    BY <1>9
  <2>2. s[i] \in found /\ ~IsExpired(s[i].entry, now) /\ s[i].entry \in Entries
    BY <1>4, <1>7, <2>1
  <2>3. PICK p \in asked : s[i].key = Encode(t, Data, p) /\ s[i].entry \in seen[p]
    BY <1>1, <2>2
  <2>4. entries[i] = s[i] /\ i \in DOMAIN entries
    BY <1>7
  <2>5. StripPrefix(s[i].key, bounds.strip_len) = p
    BY <1>2, <1>asked, <2>3, StripKey
  <2>6. user[i] = [key |-> p, value |-> s[i].entry.value]
    BY <1>user, <2>4, <2>5
  <2>7. s[i].entry.value \in Nat
    BY <2>2 DEF Entries
  <2>8. QED
    BY <1>2, <2>1, <2>2, <2>3, <2>6, <2>7
<1>11. /\ user \in Seq([key : Payloads, value : Nat]) /\ Len(user) = k /\ DOMAIN user = 1..k
  <2>1. DOMAIN user = 1..k /\ user \in [1..k -> [key : Payloads, value : Nat]]
    <3>1. user = [i \in 1..k |-> user[i]]
      BY <1>7, <1>user
    <3>2. QED
      BY <1>10, <3>1
  <2>2. user \in Seq([key : Payloads, value : Nat])
    <3>1. PICK R, u : R = [key : Payloads, value : Nat] /\ u = user
      OBVIOUS
    <3>2. u \in [1..k -> R]
      BY <2>1, <3>1
    <3>3. u \in Seq(R)
      BY <3>2
    <3>4. QED
      BY <3>1, <3>3
  <2>3. Len(user) = k
    BY <2>1, <2>2, LenProperties
  <2>4. QED
    BY <2>1, <2>2, <2>3
<1>12. ASSUME NEW i \in 1..k, NEW j \in 1..k, i < j
       PROVE  Less(user[i].key, user[j].key)
  <2>1. Less(s[i].key, s[j].key)
    BY <1>8, <1>10, <1>12
  <2>2. /\ s[i].key = Encode(t, Data, user[i].key) /\ s[j].key = Encode(t, Data, user[j].key)
        /\ user[i].key \in Payloads /\ user[j].key \in Payloads
    BY <1>2, <1>10
  <2>3. QED
    BY <1>2, <2>1, <2>2, KeyOrder
<1>13. ASSUME NEW i \in 1..k
       PROVE  /\ user[i].key \in asked
              /\ \E e \in seen[user[i].key] : LiveAt(e, now) /\ e.value = user[i].value
  <2>1. LiveAt(s[i].entry, now)
    BY <1>10, ScanAssumption DEF LiveAt
  <2>2. QED
    BY <1>10, <2>1
<1>14. ASSUME NEW p \in asked, \A e \in seen[p] : LiveAt(e, now)
       PROVE  \/ \E i \in 1..k : user[i].key = p
              \/ k = limit /\ Less(Last(user).key, p)
  <2>1. None \notin seen[p]
    BY <1>14 DEF LiveAt
  <2>2. layout[Encode(t, Data, p)] < Shards + 1
    <3>1. Encode(t, Data, p) \in StorageKeys
      BY <1>2, StorageKey
    <3>2. layout[Encode(t, Data, p)] \in 1..Shards
      BY <3>1
    <3>3. QED
      BY <3>2, ScanAssumption
  <2>3. PICK f \in found : f.key = Encode(t, Data, p)
    BY <1>1, <2>1, <2>2
  <2>4. PICK q \in asked : f.key = Encode(t, Data, q) /\ f.entry \in seen[q]
    BY <1>1
  <2>5. p = q
    <3>1. p \in Payloads /\ q \in Payloads /\ Encode(t, Data, p) = Encode(t, Data, q)
      BY <1>2, <2>3, <2>4
    <3>2. QED
      BY <1>2, <3>1, KeysApart
  <2>6. f \in live
    BY <1>4, <1>14, <2>4, <2>5 DEF LiveAt
  <2>7. PICK i \in 1..n : s[i] = f
    BY <1>8, <2>6
  <2>8. CASE i \in 1..k
    <3>1. Encode(t, Data, user[i].key) = Encode(t, Data, p) /\ user[i].key \in asked
      BY <1>10, <2>3, <2>7, <2>8
    <3>2. user[i].key = p
      BY <1>2, <3>1, KeysApart
    <3>3. QED
      BY <2>8, <3>2
  <2>9. CASE ~(i \in 1..k)
    <3>1. k < i /\ k < n /\ k = limit /\ k \in 1..k /\ k \in 1..n
      BY <1>9, <2>9
    <3>2. Less(s[k].key, s[i].key)
      BY <1>8, <3>1
    <3>3. s[k].key = Encode(t, Data, user[k].key) /\ user[k].key \in Payloads
      BY <1>2, <1>10, <3>1
    <3>4. Less(user[k].key, p)
      BY <1>2, <2>3, <2>7, <3>2, <3>3, KeyOrder
    <3>5. Last(user) = user[k]
      BY <1>11 DEF Last
    <3>6. QED
      BY <3>1, <3>4, <3>5
  <2>10. QED
    BY <2>8, <2>9
<1>15. Len(user) <= limit
  BY <1>9, <1>11
<1>16. \A i, j \in DOMAIN user : i < j => Less(user[i].key, user[j].key)
  <2>1. ASSUME NEW i \in DOMAIN user, NEW j \in DOMAIN user, i < j
        PROVE  Less(user[i].key, user[j].key)
    <3>1. i \in 1..k /\ j \in 1..k
      BY <1>11
    <3>2. QED
      BY <1>12, <2>1, <3>1
  <2>2. QED
    BY <2>1
<1>17. \A i \in DOMAIN user :
         /\ user[i].key \in asked
         /\ \E e \in seen[user[i].key] : LiveAt(e, now) /\ e.value = user[i].value
  BY <1>11, <1>13, Zenon
<1>18. \A p \in asked : (\A e \in seen[p] : LiveAt(e, now)) =>
         \/ \E i \in DOMAIN user : user[i].key = p
         \/ Len(user) = limit /\ Less(Last(user).key, p)
  BY <1>11, <1>14, Zenon
<1>19. Exact(user, limit, asked, seen, now)
  BY <1>15, <1>16, <1>17, <1>18, Zenon DEF Exact
<1>20. QED
  BY <1>11, <1>19, <1>asked

-----------------------------------------------------------------------------
(* The scan is exact *)

\* A scan under way is what it should be; so is the one that has been answered.
Underway(sc, data, layout) ==
  sc.step \in {"visit", "filter"} =>
    /\ IsFiniteSet(sc.found)
    /\ sc.step = "filter" => sc.shard = Shards + 1
    /\ Collected(sc.tenant, AskedFor(sc.prefix), sc.shard, sc.found, sc.seen, data, layout)

Answered(sc) ==
  sc.step = "answered" =>
    /\ Exact(FlattenSeq(sc.chunks), sc.limit, AskedFor(sc.prefix), sc.seen, sc.now)
    /\ \A c \in DOMAIN sc.chunks : Len(sc.chunks[c]) \in 1..SCAN_CHUNK_SIZE

ScanInv == IsFiniteSet(DOMAIN store) /\ Underway(scan, kv, shard_of) /\ Answered(scan)

LEMMA AnsweredExact == Answered(scan) => ScanExact
<1>1. SUFFICES ASSUME Answered(scan), scan.step = "answered"
               PROVE  ScanExact
  BY DEF ScanExact
<1>2. PICK answer, asked, sc : answer = FlattenSeq(scan.chunks) /\ asked = AskedFor(scan.prefix)
                               /\ sc = scan
  OBVIOUS
<1>3. Exact(answer, sc.limit, asked, sc.seen, sc.now)
  BY <1>1, <1>2 DEF Answered
<1>4. \A c \in DOMAIN sc.chunks : Len(sc.chunks[c]) \in 1..SCAN_CHUNK_SIZE
  BY <1>1, <1>2 DEF Answered
<1>5. answer = FlattenSeq(sc.chunks) /\ asked = {p \in Payloads : IsPrefix(sc.prefix, p)}
  BY <1>2 DEF AskedFor
<1>6. QED
  BY <1>2, <1>3, <1>4, <1>5, Zenon DEF ScanExact, Exact, LiveAt

\* Storing one key, or removing one, leaves storage finite.
LEMMA StoringFinite ==
  ASSUME NEW st, IsFiniteSet(DOMAIN st), NEW key, NEW entry
  PROVE  IsFiniteSet(DOMAIN Storing(key, entry, st))
<1>1. DOMAIN Storing(key, entry, st) = DOMAIN st \cup {key}
  BY DEF Storing
<1>2. QED
  BY <1>1, FS_AddElement

LEMMA WithUsageFinite ==
  ASSUME NEW st, IsFiniteSet(DOMAIN st), NEW t
  PROVE  IsFiniteSet(DOMAIN WithUsage(t, st))
BY StoringFinite DEF WithUsage

\* What Noting makes of a scan, and a write of what was written.
Told(sc, t, p, entry) ==
  IF sc.step # "idle" /\ sc.tenant = t THEN [sc EXCEPT !.seen[p] = @ \cup {entry}] ELSE sc

Changed(data, t, p, entry) == [data EXCEPT ![t][p] = entry]

\* Put and Delete, as a scan under way sees them.
LEMMA NotingKeeps ==
  ASSUME NEW sc, sc = NoScan \/ \E chunks : sc \in ScanRecords(chunks),
         sc.step # "answered",
         NEW data \in [Known -> [Payloads -> Entries \cup {None}]], NEW layout,
         Underway(sc, data, layout),
         NEW t \in Known, NEW p \in Payloads, NEW entry \in Entries \cup {None}
  PROVE  /\ Underway(Told(sc, t, p, entry), Changed(data, t, p, entry), layout)
         /\ Answered(Told(sc, t, p, entry))
<1>new. PICK new : /\ new = Told(sc, t, p, entry)
                   /\ new = IF sc.step # "idle" /\ sc.tenant = t
                            THEN [sc EXCEPT !.seen[p] = @ \cup {entry}] ELSE sc
  BY DEF Told
<1>next. PICK next : next = Changed(data, t, p, entry) /\ next = [data EXCEPT ![t][p] = entry]
  BY DEF Changed
<1>1. CASE sc = NoScan
  <2>1. new = sc /\ sc.step = "idle"
    BY <1>1, <1>new DEF NoScan
  <2>2. QED
    BY <1>new, <2>1 DEF Underway, Answered
<1>2. CASE sc # NoScan
  <2>1. PICK chunks : sc \in ScanRecords(chunks)
    BY <1>2
  <2>2. sc.step \in {"visit", "filter"} /\ sc.step # "idle" /\ sc.tenant \in Known
        /\ sc.prefix \in ScanPrefixes
        /\ sc.seen \in [Payloads -> SUBSET (Entries \cup {None})]
    BY <2>1 DEF ScanRecords
  <2>3. PICK more : more = IF sc.tenant = t THEN [sc.seen EXCEPT ![p] = sc.seen[p] \cup {entry}]
                           ELSE sc.seen
    OBVIOUS
  <2>4. /\ new.step = sc.step /\ new.tenant = sc.tenant /\ new.prefix = sc.prefix
        /\ new.shard = sc.shard /\ new.found = sc.found /\ new.seen = more
    <3>1. CASE sc.tenant = t
      <4>1. new = [sc EXCEPT !.seen = more]
        BY <1>new, <2>1, <2>2, <2>3, <3>1 DEF ScanRecords
      <4>2. QED
        BY <2>1, <4>1 DEF ScanRecords
    <3>2. CASE sc.tenant # t
      BY <1>new, <2>3, <3>2
    <3>3. QED
      BY <3>1, <3>2
  <2>5. PICK asked : asked = AskedFor(sc.prefix)
    OBVIOUS
  <2>6. /\ asked \in SUBSET Payloads
        /\ Collected(sc.tenant, asked, sc.shard, sc.found, sc.seen, data, layout)
    BY <2>2, <2>5 DEF Underway, AskedFor
  <2>7. Collected(sc.tenant, asked, sc.shard, sc.found, more, next, layout)
    <3>1. next = [data EXCEPT ![t][p] = entry]
      BY <1>next
    <3>2. /\ sc.tenant \in Known
          /\ sc.seen \in [Payloads -> SUBSET (Entries \cup {None})]
      BY <2>2
    <3>3. QED
      BY <2>3, <2>6, <3>1, <3>2, CollectedNoting
  <2>8. IsFiniteSet(sc.found) /\ (sc.step = "filter" => sc.shard = Shards + 1)
    BY <2>2 DEF Underway
  <2>9. Underway(new, next, layout)
    BY <2>4, <2>5, <2>7, <2>8 DEF Underway
  <2>10. QED
    BY <1>new, <1>next, <2>2, <2>4, <2>9 DEF Answered
<1>3. QED
  BY <1>1, <1>2

\* A write of data.
LEMMA WriteExact ==
  ASSUME DataInv, ScanOk, ScanInv, NEW t \in Tenants, NEW p \in Payloads,
         Delete(t, p) \/ \E ttl \in Ttls : Put(t, p, ttl)
  PROVE  ScanInv'
<1>1. t \in Known
  BY Admitted DEF Put, Delete
<1>2. PICK sc, data, layout, st : sc = scan /\ data = kv /\ layout = shard_of /\ st = store
  OBVIOUS
<1>3. /\ sc = NoScan \/ \E chunks : sc \in ScanRecords(chunks)
      /\ data \in [Known -> [Payloads -> Entries \cup {None}]]
      /\ Underway(sc, data, layout) /\ IsFiniteSet(DOMAIN st)
  BY <1>2 DEF ScanOk, DataInv, DataTypes, ScanInv
<1>4. PICK entry \in Entries \cup {None} :
        /\ kv' = [kv EXCEPT ![t][p] = entry] /\ scan' = Noting(t, p, entry)
        /\ shard_of' = shard_of /\ scan.step # "answered"
        /\ IsFiniteSet(DOMAIN store')
  <2>1. CASE Delete(t, p)
    <3>1. PICK st2 : st2 = [k \in DOMAIN st \ {Encode(t, Data, p)} |-> st[k]]
      OBVIOUS
    <3>2. IsFiniteSet(DOMAIN st2)
      <4>1. DOMAIN st2 = DOMAIN st \ {Encode(t, Data, p)}
        BY <3>1
      <4>2. QED
        BY <1>3, <4>1, FS_RemoveElement
    <3>3. store' = WithUsage(t, st2)
      BY <1>2, <2>1, <3>1 DEF Delete
    <3>4. IsFiniteSet(DOMAIN store')
      BY <3>2, <3>3, WithUsageFinite
    <3>5. QED
      BY <2>1, <3>4 DEF Delete, SpendWrite
  <2>2. ASSUME NEW ttl \in Ttls, Put(t, p, ttl)
        PROVE  \E e \in Entries \cup {None} :
                 /\ kv' = [kv EXCEPT ![t][p] = e] /\ scan' = Noting(t, p, e)
                 /\ shard_of' = shard_of /\ scan.step # "answered"
                 /\ IsFiniteSet(DOMAIN store')
    <3>1. PICK e : e = [value |-> Other(kv[t][p]),
                        expires |-> IF ttl > 0 THEN clock + ttl ELSE 0]
      OBVIOUS
    <3>2. e \in Entries
      <4>1. Other(kv[t][p]) \in Nat
        BY <1>1, OtherType DEF DataInv, DataTypes
      <4>2. clock \in Nat /\ ttl \in Nat
        BY ScanAssumption DEF DataInv, DataTypes
      <4>3. QED
        BY <3>1, <4>1, <4>2 DEF Entries
    <3>3. PICK st2 : st2 = Storing(Encode(t, Data, p), e, st)
      OBVIOUS
    <3>4. IsFiniteSet(DOMAIN st2)
      BY <1>3, <3>3, StoringFinite
    <3>5. store' = WithUsage(t, st2)
      BY <1>2, <2>2, <3>1, <3>3 DEF Put
    <3>6. IsFiniteSet(DOMAIN store')
      BY <3>4, <3>5, WithUsageFinite
    <3>7. /\ kv' = [kv EXCEPT ![t][p] = e] /\ scan' = Noting(t, p, e)
          /\ shard_of' = shard_of /\ scan.step # "answered"
      BY <2>2, <3>1 DEF Put, SpendWrite
    <3>8. QED
      BY <3>2, <3>6, <3>7
  <2>3. QED
    BY <2>1, <2>2
<1>5. PICK new, next : new = scan' /\ next = kv'
  OBVIOUS
<1>6. new = Told(sc, t, p, entry) /\ next = Changed(data, t, p, entry) /\ sc.step # "answered"
  BY <1>2, <1>4, <1>5 DEF Noting, Told, Changed
<1>7. Underway(new, next, layout) /\ Answered(new)
  BY <1>1, <1>3, <1>6, NotingKeeps
<1>8. Underway(scan', kv', shard_of') /\ Answered(scan')
  BY <1>2, <1>4, <1>5, <1>7
<1>9. QED
  BY <1>4, <1>8 DEF ScanInv

\* The record of a quota is no business of a scan.
LEMMA QuotaExact ==
  ASSUME ScanInv, NEW t \in Tenants, StoreQuota(t)
  PROVE  ScanInv'
<1>1. PICK st, key, record : st = store /\ store' = Storing(key, record, st)
  BY DEF StoreQuota
<1>2. IsFiniteSet(DOMAIN store')
  BY <1>1, StoringFinite DEF ScanInv
<1>3. UNCHANGED <<scan, kv, shard_of>>
  BY DEF StoreQuota
<1>4. QED
  BY <1>2, <1>3 DEF ScanInv

\* A scan starts.
LEMMA RequestExact ==
  ASSUME DataInv, ScanInv, NEW t \in Tenants, NEW prefix \in ScanPrefixes, NEW limit \in Limits,
         ScanRequest(t, prefix, limit)
  PROVE  ScanInv'
<1>1. t \in Known
  BY Admitted DEF ScanRequest
<1>2. PICK new, data, layout : new = scan' /\ data = kv /\ layout = shard_of
  OBVIOUS
<1>3. PICK seen, asked : seen = [p \in Payloads |-> {data[t][p]}] /\ asked = AskedFor(prefix)
  OBVIOUS
<1>4. /\ new.step = "visit" /\ new.tenant = t /\ new.prefix = prefix /\ new.shard = 1
      /\ new.found = {} /\ new.seen = seen
      /\ UNCHANGED <<store, kv, shard_of>>
  BY <1>2, <1>3 DEF ScanRequest
<1>5. layout \in [StorageKeys -> 1..Shards]
  BY <1>2, ScanAssumption DEF DataInv, DataTypes
<1>6. asked \in SUBSET Payloads
  BY <1>3 DEF AskedFor
<1>7. Collected(t, asked, 1, {}, seen, data, layout)
  BY <1>1, <1>3, <1>5, <1>6, CollectedFirst
<1>8. IsFiniteSet({})
  BY FS_EmptySet
<1>9. Underway(new, data, layout) /\ Answered(new)
  BY <1>3, <1>4, <1>7, <1>8 DEF Underway, Answered
<1>10. QED
  BY <1>2, <1>4, <1>9 DEF ScanInv

\* It visits a shard.
LEMMA VisitExact ==
  ASSUME DataInv, ScanOk, ScanInv, VisitShard
  PROVE  ScanInv'
<1>1. PICK sc, new, data, layout, st :
        sc = scan /\ new = scan' /\ data = kv /\ layout = shard_of /\ st = store
  OBVIOUS
<1>2. sc.step = "visit" /\ UNCHANGED <<store, kv, shard_of>>
  BY <1>1 DEF VisitShard
<1>3. PICK chunks : sc \in ScanRecords(chunks)
  <2>1. sc # NoScan
    BY <1>2 DEF NoScan
  <2>2. QED
    BY <1>1, <2>1 DEF ScanOk
<1>4. PICK t \in Known, prefix \in ScanPrefixes, shard \in Nat :
        /\ t = sc.tenant /\ prefix = sc.prefix /\ shard = sc.shard
        /\ sc.found \in SUBSET [key : StorageKeys, entry : Entries]
  <2>1. /\ sc.tenant \in Known /\ sc.prefix \in ScanPrefixes /\ sc.shard \in 1..Shards + 1
        /\ sc.found \in SUBSET [key : StorageKeys, entry : Entries]
    BY <1>3 DEF ScanRecords
  <2>2. sc.shard \in Nat
    BY <2>1
  <2>3. QED
    BY <2>1, <2>2
<1>5. PICK found, seen : found = sc.found /\ seen = sc.seen
  OBVIOUS
<1>6. PICK image, more : image = Visited(t, prefix, shard, layout, st) /\ more = found \cup image
  OBVIOUS
<1>7. PICK keys : /\ keys = {k \in DOMAIN st : layout[k] = shard /\
                               InRange(k, EncodeDataScanBounds(t, prefix).start,
                                          EncodeDataScanBounds(t, prefix).end)}
                  /\ image = {[key |-> k, entry |-> st[k]] : k \in keys}
  BY <1>6 DEF Visited
<1>8. new = [sc EXCEPT !.found = more, !.shard = shard + 1,
                       !.step = IF shard = Shards THEN "filter" ELSE "visit"]
  BY <1>1, <1>4, <1>5, <1>6, <1>7 DEF VisitShard
<1>9. /\ new.step = (IF shard = Shards THEN "filter" ELSE "visit")
      /\ new.tenant = t /\ new.prefix = prefix /\ new.shard = shard + 1
      /\ new.found = more /\ new.seen = seen
  <2>1. PICK step, up : step = (IF shard = Shards THEN "filter" ELSE "visit") /\ up = shard + 1
    OBVIOUS
  <2>2. new = [sc EXCEPT !.found = more, !.shard = up, !.step = step]
    BY <1>8, <2>1
  <2>3. /\ new.step = step /\ new.tenant = t /\ new.prefix = prefix /\ new.shard = up
        /\ new.found = more /\ new.seen = seen
    BY <1>3, <1>4, <1>5, <2>2 DEF ScanRecords
  <2>4. QED
    BY <2>1, <2>3
<1>10. /\ layout \in [StorageKeys -> 1..Shards] /\ DOMAIN st \subseteq StorageKeys
       /\ \A p \in Payloads : Holds(st, Encode(t, Data, p), data[t][p])
  BY <1>1, ScanAssumption DEF DataInv, DataTypes, StoreOk, StoreInv, StoreAgrees
<1>11. IsFiniteSet(found) /\ Collected(t, AskedFor(prefix), shard, found, seen, data, layout)
  BY <1>1, <1>2, <1>4, <1>5 DEF ScanInv, Underway
<1>12. Collected(t, AskedFor(prefix), shard + 1, more, seen, data, layout)
  <2>1. found \in SUBSET [key : StorageKeys, entry : Entries]
    BY <1>4, <1>5
  <2>2. QED
    BY <1>6, <1>10, <1>11, <2>1, CollectedVisit
<1>13. IsFiniteSet(more)
  <2>1. IsFiniteSet(keys)
    <3>1. IsFiniteSet(DOMAIN st) /\ keys \in SUBSET DOMAIN st
      BY <1>1, <1>7 DEF ScanInv
    <3>2. QED
      BY <3>1, FS_Subset
  <2>2. PICK f : f = [k \in keys |-> [key |-> k, entry |-> st[k]]]
    OBVIOUS
  <2>3. f \in Surjection(keys, image)
    BY <1>7, <2>2 DEF Surjection
  <2>4. IsFiniteSet(image)
    BY <2>1, <2>3, FS_Surjection
  <2>5. QED
    BY <1>6, <1>11, <2>4, FS_Union
<1>14. Underway(new, data, layout) /\ Answered(new)
  BY <1>5, <1>9, <1>12, <1>13 DEF Underway, Answered
<1>15. QED
  BY <1>1, <1>2, <1>14 DEF ScanInv

\* It answers.
LEMMA AnswerKeeps ==
  ASSUME DataInv, ScanOk, ScanInv, ScanAnswer
  PROVE  ScanInv'
<1>1. PICK sc, new, data, layout, now :
        sc = scan /\ new = scan' /\ data = kv /\ layout = shard_of /\ now = clock
  OBVIOUS
<1>2. sc.step = "filter" /\ UNCHANGED <<store, kv, shard_of>>
  BY <1>1 DEF ScanAnswer
<1>3. PICK chunks : sc \in ScanRecords(chunks)
  <2>1. sc # NoScan
    BY <1>2 DEF NoScan
  <2>2. QED
    BY <1>1, <2>1 DEF ScanOk
<1>4. PICK t \in Known, prefix \in ScanPrefixes, limit \in Nat \ {0} :
        /\ t = sc.tenant /\ prefix = sc.prefix /\ limit = sc.limit
        /\ sc.found \in SUBSET [key : StorageKeys, entry : Entries]
  <2>1. /\ sc.tenant \in Known /\ sc.prefix \in ScanPrefixes /\ sc.limit \in 1..MaxScanLimit
        /\ sc.found \in SUBSET [key : StorageKeys, entry : Entries]
    BY <1>3 DEF ScanRecords
  <2>2. sc.limit \in Nat \ {0}
    BY <2>1
  <2>3. QED
    BY <2>1, <2>2
<1>5. PICK found, seen, user : /\ found = sc.found /\ seen = sc.seen
                               /\ user = UserEntries(t, prefix, found, limit, now)
  OBVIOUS
<1>6. new = [sc EXCEPT !.step = "answered", !.now = now, !.chunks = Chunked(user)]
  BY <1>1, <1>4, <1>5 DEF ScanAnswer, UserEntries
<1>7. /\ new.step = "answered" /\ new.prefix = prefix /\ new.limit = limit
      /\ new.seen = seen /\ new.now = now /\ new.chunks = Chunked(user)
  BY <1>3, <1>4, <1>5, <1>6 DEF ScanRecords
<1>8. layout \in [StorageKeys -> 1..Shards]
  BY <1>1, ScanAssumption DEF DataInv, DataTypes
<1>9. /\ IsFiniteSet(found) /\ sc.shard = Shards + 1
      /\ Collected(t, AskedFor(prefix), Shards + 1, found, seen, data, layout)
  BY <1>1, <1>2, <1>4, <1>5 DEF ScanInv, Underway
<1>10. /\ user \in Seq([key : Payloads, value : Nat])
       /\ Exact(user, limit, AskedFor(prefix), seen, now)
  <2>1. found \in SUBSET [key : StorageKeys, entry : Entries]
    BY <1>4, <1>5
  <2>2. QED
    BY <1>5, <1>8, <1>9, <2>1, AnswerExact
<1>11. /\ \A c \in DOMAIN Chunked(user) : Len(Chunked(user)[c]) \in 1..SCAN_CHUNK_SIZE
       /\ FlattenSeq(Chunked(user)) = user
  BY <1>10, ChunkFacts
<1>12. Answered(new)
  BY <1>7, <1>10, <1>11 DEF Answered
<1>13. Underway(new, data, layout)
  BY <1>7 DEF Underway
<1>14. QED
  BY <1>1, <1>2, <1>12, <1>13 DEF ScanInv

LEMMA ScanInvHolds == Spec => []ScanInv
<1>1. Init => ScanInv
  <2>1. SUFFICES ASSUME Init
                 PROVE  ScanInv
    OBVIOUS
  <2>2. DOMAIN store = {} /\ scan.step = "idle"
    BY <2>1 DEF Init, NoScan
  <2>3. IsFiniteSet(DOMAIN store)
    BY <2>2, FS_EmptySet
  <2>4. QED
    BY <2>2, <2>3 DEF ScanInv, Underway, Answered
<1>2. Inv /\ ScanInv /\ [Next]_vars => ScanInv'
  <2>1. SUFFICES ASSUME DataInv, ScanOk, ScanInv, [Next]_vars
                 PROVE  ScanInv'
    BY DEF Inv
  <2>2. CASE \E t \in Tenants, p \in Payloads : Delete(t, p) \/ \E ttl \in Ttls : Put(t, p, ttl)
    BY <2>1, <2>2, WriteExact
  <2>3. CASE \E t \in Tenants : StoreQuota(t)
    BY <2>1, <2>3, QuotaExact
  <2>4. CASE \E t \in Tenants, prefix \in ScanPrefixes, limit \in Limits :
               ScanRequest(t, prefix, limit)
    BY <2>1, <2>4, RequestExact
  <2>5. CASE VisitShard
    BY <2>1, <2>5, VisitExact
  <2>6. CASE ScanAnswer
    BY <2>1, <2>6, AnswerKeeps
  <2>7. CASE ScanDone
    <3>1. scan'.step = "idle" /\ store' = store
      BY <2>7 DEF ScanDone, NoScan
    <3>2. QED
      BY <2>1, <3>1 DEF ScanInv, Underway, Answered
  <2>8. CASE Tick \/ UNCHANGED vars
    <3>1. UNCHANGED <<store, scan, kv, shard_of>>
      BY <2>8 DEF Tick, vars
    <3>2. QED
      BY <2>1, <3>1 DEF ScanInv
  <2>9. QED
    BY <2>1, <2>2, <2>3, <2>4, <2>5, <2>6, <2>7, <2>8 DEF Next
<1>3. QED
  BY <1>1, <1>2, InvHolds, PTL DEF Spec

\* grpc.rs, scan_impl: whatever is written while the shards are visited, the
\* answer holds the tenant's own keys under the prefix, in order and once each,
\* with entries that were there while the scan ran and had not expired; a key
\* that was there all along is missing only past a limit that is reached; and
\* the chunks carry that answer, none of them empty or too large.
THEOREM ScanExactAlways == Spec => []ScanExact
<1>1. ScanInv => ScanExact
  BY AnsweredExact DEF ScanInv
<1>2. QED
  BY <1>1, ScanInvHolds, PTL
=============================================================================
