# FerrisKV: a TLA+ model of the node

This directory models the FerrisKV node (`src/crates/ferriskv-node`, with the codecs, storage and
hashing of `src/crates/ferriskv-core`, the claims of `ferriskv-auth` and the range map of
`ferriskv-coord`), checks it with TLC on small instances, and proves its safety
properties and the refinements of its two abstract specifications with TLAPS for every size of
instance.

    tlc -workers 2 -config MCNodeService.cfg MCNodeService
    tlapm NodeServiceProofs.tla

## 1. Inventory

A node is one process. Request handlers run concurrently on a multi-threaded runtime; a background
task evicts expired entries; an admin server runs beside the gRPC server. There is no lock around
an operation: the log is behind a mutex, the storage is a concurrent map or fjall, the usage
counters are atomics, the TTL index is behind a mutex, the watch channels are a concurrent map, and
a request goes from one to the next holding nothing. Almost everything that is hard about this
program comes from that, and from the process dying in the middle of it.

| Component | State | Operations | Talks to | What is hard | What makes it correct |
|---|---|---|---|---|---|
| write path, `service.rs` | none of its own | `put_with_ttl`, `delete`, `rotate_wal_if_needed` | log, storage, TTL index, quota, watch hub, in this order | two writers of one key; a call that fails after an earlier one succeeded; a crash between any two | what clients were served survives a restart; usage and watchers follow the data |
| start-up, `service.rs` | | `open_with_clock`, `replay`, `bootstrap_from_storage` | log, storage, index, quota | a crash during start-up | replay restores the map; index and usage are rebuilt from it |
| log, `wal.rs` | segment file, BufWriter, `next_seq`, `segment_bytes` | `open`, `append`, `sync`, `rotate` | file system | torn frames, failed writes, outages, a rotation that stops half way | acknowledged records come back, in order; the file can always be opened |
| TTL, `ttl.rs` | index by expiration, a notification permit | `schedule`, `drain_due`, `sweep_once`, `run_sweeper`, `compute_wakeup` | storage, the write path (an eviction is a delete), clocks | acting on an entry read earlier; a deadline computed from an index that changes; lost wake-ups | nothing that has not expired is evicted; everything that expires is |
| quota, `quota.rs` | limits and usage per tenant, both also stored | `check_write`, `apply`, `set_quota`, `clear_quota`, `reset_usage` | storage, admin server | check and commit are separate; stored totals out of order | usage is the size of the data |
| rate limiter, `throttle.rs` | one limiter per tenant | `check` | quota | two requests that rebuild a limiter | a tenant is held to its rate |
| watch hub, `watch.rs` | one broadcast channel per tenant | `subscribe`, `is_watched`, `publish` | write path, streams | test, send and removal are separate accesses; slow receivers | a subscriber gets every change or its stream ends |
| watch stream, `grpc.rs` | receiver, prefix, next heartbeat | `watch_stream` | hub, client | subscribing around a write; lag; filtered traffic | the client's copy is right; the stream is never silent for good |
| handlers, `grpc.rs`, `audit.rs` | none | `get`, `put`, `delete`, `scan`, `batch` | auth, limits, service | a batch that stops half way; a scan while others write | a scan answers with the tenant's keys; what landed is audited and accounted for |
| lifecycle, `main.rs` | the tasks | start, signal, wait, sync, exit | everything | streams that never end, a timeout, the order of the waits | a signalled process exits with its log synced |
| admin, `admin.rs` | none | quota endpoints, health, metrics | quota | read, merge, write of a quota | no update is lost |
| auth, `auth_layer.rs`, `jwt.rs` | none | interceptor, `authorize` | handlers | a batch that mixes permissions | nobody writes without the permission |
| key codec, scan bounds, `key.rs`, `grpc.rs` | none | `encode`, `decode`, `next_prefix_bound` | storage, start-up | order and prefixes at the byte 0xff; a length in one byte | a tenant is one range; keys decode to what was encoded |
| coordinator, `ferriskv-coord`, `hashing.rs` | range map | `insert`, `lookup`, `hrw_select` | nothing yet | overlapping and empty ranges | lookup finds the range of a key |
| configuration, cli, proto | read once or stateless | | | | |

`PROJECT.json` lists every component with its status, and the hazards at their lines.

## 2. Modules

| Module | Models | Kind |
|---|---|---|
| `KvStore` | what a node promises its clients | abstract |
| `NodeService` | write path, rotation, sweep, start-up, crash | detailed; implements `KvStore` |
| `AppendLog` | what the log promises the node | abstract |
| `Wal` | the log at the level of its file operations | detailed; implements `AppendLog` |
| `TtlSweeper` | when the sweeper runs: index, notification, deadline, clocks | component |
| `Lifecycle` | the process, composed with the sweeper (`EXTENDS TtlSweeper`) | composition |
| `Watch` | hub, announcing writer, stream, client | component |
| `Limits` | quota, usage and rate limiter of a tenant, and the operators' updates | component |
| `Access` | interceptor, claims, `authorize` | operators |
| `Requests` | the handlers and batch over `Limits` and `Access` (`EXTENDS` both) | composition |
| `Keyspace` | key codec, byte order, scan bounds | operators, over all short strings |
| `Scan` | storage shards, scan, the start-up scan of everything, over `Keyspace` | component |
| `Placement` | range map, rendezvous selection | operators and their inputs |
| `NodeServiceProofs`, `WalProofs`, `LifecycleProofs`, `WatchProofs`, `RequestsProofs`, `ScanProofs` | theorems about the module of that name | proofs |
| `KeyspaceProofs` | theorems about `Keyspace` and `Placement` | proofs |
| `ProofFacts` | lemmas on least elements and on sums | proofs |
| `MC*` | small instances, symmetry | TLC |

Operators named after a `Mutant:` comment are plausible mistakes of the code, kept beside the
definition they would replace; each shows that one property is able to fail.

### NodeService

`store`, `wal`, `ttl_index`, `used` and `view` are the shared objects: storage, the records a
reopened log would yield, the TTL index, the tenant's usage, and the map a watcher builds from its
events. `pc` and `op` say at which step each request handler and the sweeper are and what they carry
from earlier steps (the entry, the delta planned from a read of storage). An operation is
`plan -> append -> apply -> [schedule] -> commit -> publish -> rotate_check -> [flush -> rotate]`,
one action each, in the order of `put_with_ttl`/`delete`; a quota refusal returns before anything is
written, so a refused put does not start. A `?` on storage is `OperationFails`. A `?` on the log is
`AppendFails`, which may leave no trace, or a whole frame that the BufWriter writes with the next
append (so a write that was refused is replayed), or part of a frame, behind which later records are
acknowledged and never read back (`segment.damaged`) until the segment is opened again or rotated. A
rotation that fails after its truncation damages the segment too. The sweeper drains the index, examines one candidate at a time (`Examine`), and evicts through the same
steps as a client's delete. `Crash` may happen at any step, start-up included; it empties memory and
keeps the log, and keeps storage only when the backend is durable. Start-up is `OpenStorageAndWal`,
`Replay` record by record, `BootFlush`, `BootRotate`, `Bootstrap`.

Data is abstracted: a value is its length, there is one tenant, storage is one atomic map. The
usage total that `apply` also stores in the stats subspace is left out (nothing reads it back), and
so is the test whether anyone watches, which `Watch` has. `ghost` and `budget` are observations and
bounds. What two *overlapping* operations on one key may leave is exactly what the code leaves;
`ghost.overlapped` lets a property say "when there was no overlap", and the violation runs below say
what happens when there was.

### Wal

`file` is the segment as the operating system has it, `disk` what was last forced, `buf` and `half`
what the BufWriter holds after a failed write. A frame is its sequence number and the attempt that
made it; incomplete bytes are `Torn`, and an incomplete header is no header and a `Torn`.

The header is the delicate part. `open` of an empty file writes it and forces it to disk in two steps
(`OpenNew`, `OpenSync`), `rotate` is three (`RotateTruncate`, `RotateHeader`, `RotateSync`), and
between any two, or inside the `write_all` of the header (`CrashInHeader`, `OpenFails`,
`RotateFails`), the process may die, the power may go or a call may fail. While `loose` holds, an
outage may leave any part of the new file, half a header or nothing included, or the file it replaced.
`cut_off` remembers that something came into that window and that no later one has closed well.
Opening a file without a header is `OpenNew` when it is empty and `OpenRefused` otherwise; except that
a header cut short behind its version with a frame appended to it (a failed rotation, after which the
old appender goes on) can parse by accident, with a base sequence made of the frame's bytes
(`OpenStray`; `StrayBases` are the numbers tried). `OpenExisting` repairs a torn tail in one step,
`set_len` and its sync together: a crash between the two leaves a file that the next open repairs the
same way or finds whole. An open that fails before it has written anything is no step.

### TtlSweeper and Lifecycle

`compute_wakeup` is two steps (`ReadDue`, `ReadClock`), because writers change the index while it
runs; `schedule` is two (`Insert` under the lock, `NotifyOne` after it). The deadline is on the
monotonic clock and the expirations on the wall clock, which the host may set forward (`SetClock`). A
pass examines the drained keys one by one; `ExamineFails` is both error arms of `sweep_once` (the get,
the delete), after which the key is in no index (`missed`) until it is written again or the node
restarts.

`Lifecycle` adds the gRPC server (external: a graceful shutdown waits for open requests), the
timeout around it, which starts with it, the admin task, and the waits of `main` in their order. There
is no one shutdown flag: each of the three tasks makes its own `shutdown_signal` and installs its
listeners when that future is first polled (a server once it has bound its address, the sweeper at
some poll of its select: `SweeperListens`). `Signal` reaches the tasks that listen by then and no
other. Either server may fail to bind (`StartServer`, `StartAdmin`). A graceful shutdown of the admin
server waits for an open request (`CloseAdminRequest`, which nothing forces). A signal before any
listener is installed kills the process like any other crash and is left out, and so is a failure to
install the handlers, after which a task shuts down at once.

### Watch

A write announces itself in up to three accesses to the map of channels: is anyone watching, send or
find the channel abandoned, remove it. The stream delivers, filters by prefix, ends when it lagged or
when the channel is gone, and sends heartbeats. A client subscribes, then scans, then applies events,
as the comment in `watch_impl` recommends. tokio's broadcast channel is external: a ring of `Capacity`
events (tokio rounds the configured size up to a power of two, and 2 is one). A subscription that
falls between a writer's test for an abandoned channel and its removal is attached to a channel that
is then dropped; the stream ends, and `CutOffEnds` says that it does. The client is not told why: it
gets an orderly end of stream, at a point where the comment at `grpc.rs:345` holds that the node must
be shutting down (a finding).

### Limits, Access and Requests

`cached` and `stored_quota` are a quota in memory and in storage, `used` and `stored_usage` the
counter and the total stored for billing, `limiters` every rate limiter built since start-up with
`current` the one in the map (requests may still hold older ones). An operator's `set_quota` is three
steps: read and merge, store, cache. A request is `lookup -> [install] -> charge` for admission and
`next -> append -> store -> [adjust -> persist]` for each of its operations; `Refuse` and the failures end the
call where it stands, as `?` does in `batch_impl`, and `Restart` may cut everything short. What a
token must be and may do is `Access`. The token bucket is external: `rate` operations, full again at
a tick.

Of the log, `log` keeps for each key the last record that a start-up would replay. A storage write
that fails leaves its record there (`StoreFails`), and a failed append may leave a record or torn
bytes (`AppendFails`, `torn`), so a restart may write what a client was refused, without a quota check
(`Replayed`), or lack what it was promised. `Restart` rebuilds the counter from what it finds. A
rotation is one step at the end of an operation (`RotateIfNeeded`); its parts are in `NodeService` and
`Wal`.

The models show behaviour that the documents do not, each recorded as a finding: a batch that meets a
quota refusal keeps the operations before it (`batch_partial`); a rate of 0 set for a tenant, which
`quota.rs:45` calls unlimited, means the node's default to `throttle.rs:64`; of two overlapping
`set_quota` calls one may be lost, and the cache and the record may then differ until a restart; a
batch that holds neither a put nor a delete is authorized for nothing and is charged all the same.
After a restart the stored total keeps its old value until the next write of the tenant.

### Keyspace, Scan and Placement

Bytes are numbers and keys are sequences of them, laid out as `encode` does; `IsUtf8` is the whole of
UTF-8, since `decode` refuses a name that is not. `Scan` has several
tenants, whose keys share one storage with the node's own records: `Put` and `Delete` change data and
the usage record, `StoreQuota` the quota record. A scan of the in-memory backend visits the shards of
its map one after the other (`VisitShard`) while writes go on; the layouts decide which keys come
first. `Sorted` is the sort by key that ends the visit; `FilterScan`, `Chunked` and `CapScanLimit` are
the rest of `scan_impl`. `text` is a string of
bytes from outside that is grown to every string up to its bound, to be decoded or taken for a
prefix. `Placement` inserts ranges in any order and lets nodes join with any scores.

## 3. Runs

| Run | Expect | Shows |
|---|---|---|
| `node_service` | pass | `TypeOK`; `ImplementsKvStore`: what clients are served is the same before and after a crash at any step; `TtlCovered`; `UsageConserved`; `WatcherAgrees`; `EvictsOnlyExpired` |
| `evicts_fresh` | violation | a put between the sweeper's look and its delete is removed unexpired |
| `replay_order` | violation | log order and storage order of one key differ, so replay is not a no-op |
| `rotation_race` | violation | a write between fsync and rotation loses its record |
| `wal` | pass | with crashes, outages and failed writes at any file operation: `OwedRecoverable`, `LogOrdered`, `RefusedOnlyAfterCutOff` (only an interruption between emptying or creating the segment and forcing its header makes a start refuse it), `ImplementsAppendLog`, `TypeOK` |
| `rotate_failure` | violation | a rotation that fails after truncating leaves a running node on a segment that open refuses |
| `lifecycle` | pass | `WakesInTime`, `EventuallyEvicted`, `ShutdownCompletes`, `CleanExit`, `TypeOK` |
| `serve_cutoff` | violation | the shutdown timeout runs from the start of the server |
| `watch` | pass | `StreamAgrees`, `NeverSilent`, `CutOffEnds`, `TypeOK` |
| `requests` | pass | `QuotaBounds`: how far concurrent writers can pass a limit; `AccountingAgrees`: data, counter and stored total; `QuotaKept`: updates survive each other, failures and restarts; `RateHeld`; `AuditedWhenAnswered`; `WritesPermitted`; `TypeOK` |
| `batch_partial` | violation | a quota refusal inside a batch leaves its first writes in place |
| `keyspace` | pass | `ScanExact`, `BootScanExact`, `DecodeExact`, `BoundsExact`, `LookupExact`, `HrwMovesLittle`, `TypeOK` |

Each violation run states what a comment or document of the repository says, and `PROJECT.json`
quotes it. `PROJECT.json` also has findings without a run of their own, where the model has the
behaviour and a passing property names it as its exception: a sequence that restarts at 0 after an
interrupted rotation (`wal.rs:333`), a stream closed while the node runs (`grpc.rs:345`), a rate of 0
(`throttle.rs:64`), a lost quota update (`admin.rs:145`), a batch without authorization
(`grpc.rs:515`), and a shutdown that waits for ever (`main.rs:171`).

**Exceptions in the passing properties.** They say where the code gives no guarantee.
`ImplementsKvStore` lets a restart decide keys with an operation open, keys on which operations
overlapped, and keys on which log and storage went apart by an error (`halfway`): a storage call that
failed after the append, a failed append whose frame reached the file later (in both the caller saw an
error and the write may still appear after a restart), or a write acknowledged behind the torn bytes
of an earlier one. `UsageConserved` assumes no overlap on one key;
`EvictsOnlyExpired` and `WatcherAgrees` likewise, per key. `TtlCovered` excludes keys whose eviction
failed: `ttl.rs` logs the error and the key is in no index until the next start; `EventuallyEvicted`
excludes the same keys (`missed`), and a sweeper that is disabled or has ended. `ShutdownCompletes`
starts where the sweeper has received a signal or ended and the admin server has ended (`Told`): a
signal that came before one of them listened, and an admin request that its client keeps open, leave
`main` waiting without end (`main.rs:169-177`), and the property does not hide it. `CleanExit`
excludes a server cut off by its timeout, whose requests go on while `main` syncs. `AppendLog` lets
the log lose records and numbers once a failed call has damaged the file (`damaged`), and `Mend` says
when it is whole again. `QuotaBounds` takes what a restart finds, when that differs from what the node
had, for a limit of its own: replay checks no quota. In `Requests`, `apart` (no two writes of one key overlapped), `in_order` (no
two totals stored at once, none failed, no restart found other data), `raced` (operators' calls overlapped) and the `disturbed`
window (a limiter replaced, or built twice at once) are the cases in which `QuotaBounds`,
`AccountingAgrees`, `QuotaKept` and `RateHeld` promise nothing. `BoundsExact` leaves out prefixes of
0xFF bytes only, which no tenant prefix is.

**Bounds.** `node_service`: two clients, the sweeper, two keys, two values, with and without TTL, two
operations, one error, one crash, both backends, a limit that two large writes exceed, and a log that
is due for rotation after one record (3.1 million states): enough for every pair of operations to overlap at every pair of
steps, for an eviction to meet a put, and for a crash in each step and in each step of start-up.
`wal`: three appends, two crashes, two outages and two errors, so that a failure can follow a
recovery from a failure (0.2 million states). `lifecycle` (0.6 million states, and two liveness
formulas over them): one writer on one key with TTLs 0, 1, 2, making two puts in either order without
an admin server (a later put that expires earlier, the case a notification exists for) or one with it
(`Setups`: the two do not interact, and the product is too large), a sweep interval of 1 or none, one change of the wall clock; the clock goes on until every expiration
and one whole interval have passed (`SweeperAssumption` states it), and the timeout falls between.
`watch`: a ring of two events, two keys in the prefix and one outside it, so that a client can lag,
and writes can meet at every step; there is no bound on the number of writes. `requests`: two
clients, two operators, three keys of which one is empty, a limit that one entry fills, and four events (calls, updates,
failures, restarts, seconds) in any mixture: enough for three calls to overlap and a restart to
follow, for two updates with a failed one or a restart between them, and for a rate to change under a
call (2.0 million states). `keyspace`: two good tenant names, one the front part of the other, and two that must be
refused, three user keys of which one ends in 0xFF and two are also the names of records, three writes, two shards in two
layouts, a page of two entries in chunks of one; strings of up to four bytes out of six for decode
and bounds; three ranges over four points; four nodes with three scores. Symmetry is used for clients
and keys in the safety runs of `NodeService` and for clients and operators in `requests`. Deadlock is
checked where the system must not stop (`watch`); the other models stop when their bounds are spent,
or when the process exits.

**Fairness.** `Lifecycle`: weak fairness of every task that the runtime polls (sweeper, main,
servers, handlers) and of time. Nothing makes a client send or leave, an admin request end, or the
host signal.
`Watch`: weak fairness of a writer's announcement, of the stream's deliveries and its end, and of time; strong
fairness of the heartbeat, because `select!` without `biased` polls its branches in random order, so
a timer that is ready again and again is eventually taken although events are ready too.

## 4. Proofs

Every invariant the passing runs check, the action property `EvictsOnlyExpired` and both
refinements are theorems, proved by TLAPS for any sets of clients, keys, values, tenants, ranges and
nodes and for any bounds. Each module's opening comment says what it proves.

| Module | Theorems (the property they state) |
|---|---|
| `NodeServiceProofs` | `TypeCorrect`, `TtlCoverage` (`TtlCovered`), `WatchersAgree` (`WatcherAgrees`), `EvictionsExpired` (`EvictsOnlyExpired`), `UsageExact` (`UsageConserved`), `ServesKvStore` (`ImplementsKvStore`) |
| `WalProofs` | `TypeCorrect`, `OwedRecoverableAlways`, `LogOrderedAlways`, `RefusedOnlyAfterCutOffAlways`, `LogServesNode` (`ImplementsAppendLog`) |
| `LifecycleProofs` | `TypeCorrect`, `WakesInTimeAlways`, `ExitsClean` (`CleanExit`) |
| `WatchProofs` | `TypeCorrect`, `StreamsAgree` (`StreamAgrees`) |
| `RequestsProofs` | `TypeCorrect`, `AuditedAlways`, `WritesPermittedAlways`, `QuotaKeptAlways`, `RateHeldAlways`, `AccountingAlways`, `QuotaBoundsAlways` |
| `KeyspaceProofs` | `DecodeExactAlways`, `BoundsExactAlways` (and `DecodesWhatIsEncoded`, `BoundsOfAnyPrefix`: the same for any bytes at all), `LookupExactAlways`, `HrwMovesLittleAlways` |
| `ScanProofs` | `TypeCorrect`, `BootScanExactAlways`, `ScanExactAlways` |
| `ProofFacts` | lemmas the others share: least elements, sums of functions over finite sets |

### The arguments

**TTL coverage** (`TtlInv == TypeOK /\ SweepIdle /\ TtlCovered`). `TtlCovered` is not inductive by
itself: `DrainDue` overwrites the sweeper's batch, so a sweeper between two passes must be known to
hold no candidate (`SweepIdle`). A write to storage moves its process to `schedule`, which covers the
key; `Schedule` moves the pair into the index; `DrainDue` moves pairs to the batch; `Examine` drops a
candidate only when it evicts it, reschedules it, or finds that it does not expire; a failed eviction
is remembered in `leaked`; `Bootstrap` rebuilds the index from storage.

**One writer per key** (`WriterInv`). Two open operations on a key are remembered as overlapped
(`OneWriter`); therefore what an operation wrote is still there when it is announced (`Landed`), the
delta it carries is what its write changes (`Planned`), a watcher lags only by writes not announced
yet (`Told`), and what the sweeper found expired is still there when it deletes it (`Verified`).
`WatcherAgrees` and `EvictsOnlyExpired` follow.

**Usage** (`BooksInv`, in `NodeServiceProofs` and `RequestsProofs`). The counter is a sum: there is a
ledger that holds for every key what was counted for it, which is the size of its entry, less the
delta of the one operation that has landed and not committed. A sum of naturals shows that the
saturating subtraction never cuts anything off, which the equation alone does not. `StoredInv` adds
that the one call at its store has the current total in hand.

**A crash** (`LogInv`, for `ServesKvStore`). While the node is up, the last record about a key tells
what storage holds, or what the one operation that has appended is about to write, unless an error set
the two apart (`LogUp`). While it
is not, storage is the log as far as it was replayed, and the rest of the log still tells what
clients were served (`LogDown`), so a crash during start-up begins again from the same promise. Only
a durable backend's log is ever rotated (`RotatesDurable`). The mapping sends the node's storage, or
the map last served while it is down, to the map of `KvStore`.

**The log** (`WalInv`). What is written and what the BufWriter still holds is one line. While no
error has damaged the segment the next frame continues it (`LineGood`): a failed append may leave a
frame with the next number, an answered one may not. A damaged segment has a torn frame or no header,
and takes in nothing that opening yields (`LineBad`). What was forced to disk is a front part of the
file, or what a rotation dropped (`OnDisk`): this is what an outage needs. `HeadKept` ties a missing
header to an interrupted window (`cut_off`). For `LogServesNode` each file operation is shown to be a step of `AppendLog`
or none.

**Wake-ups** (`WakeInv`, `ExitInv`). Between the two reads of `compute_wakeup`, no expiration in the
index is before the one it saw, or a notification is under way (`SawDue`). `MainOrder` says that the
server has ended before `main` waits for the sweeper, and the sweeper before the last sync.

**Watch** (`StreamInv`). A client has, or has in its queue, the newest value of each key with no
publication under way, as long as its receiver is attached and missed nothing; an attached receiver
is on the channel in the map (`OnChannel`).

**Requests.** `CallInv`: a call at an operation has passed its checks, and only one that has landed
and is not accounted for lacks its audit line. `QuotaInv`: while operators' calls do not overlap, the
one under way holds the quota the operators expect. `RateInv`: what was let in and what the limiter
has left are together at most its rate, and whoever is about to charge holds this limiter. `LoadInv`:
the usage and the growth of all writes in flight are together at most the limit and one largest entry
for each client but one, because each write was checked against a usage that missed only the others.
`LogOK`: what a restart replays are entries of admissible size.

**Keys and ranges.** The byte order is shown to be a strict total order through the first place where
two strings differ; then the strings from a prefix to its bound are those that start with it, and
`decode` undoes `encode`. The range map stays sorted by start and insertion (`SortedMap`), so the last
range at or before a key is the newest. For rendezvous hashing nobody left out of a selection has a
higher score than somebody in it, whatever the order of equal scores; counting the nodes of two such
selections, with and without a node, shows which of them can differ (`SelectionsApart`).
`ScanProofs` shows that storage agrees with what was written (`StoreAgrees`) through the keys of two
tenants never being equal; `BootScanExact` is then the round trip of the codec.

**A scan** (`ScanInv`). What has been collected after some shards (`Collected`) is stated against what
the scan may see: each key's current entry is among those seen; what was found was seen, lies in a
shard already visited and is there once per key; a key in such a shard that was there all along has
been found. A write between two visits only adds to what was seen, so it keeps this, on either side of
the scan; a visit adds the keys of its shard because the range of `encode_data_scan_bounds` is exactly
the tenant's keys under the prefix (`ScannedKeys`). Once all shards are visited the answer is a
function of what was collected. A finite set of entries with different keys has a sorted sequence, in
which the place of an entry is the number of entries up to it (`SortedExists`);
keys of a tenant are in the order of their payloads (`KeyOrder`) and stripping the front leaves the
payload (`StripKey`); and the chunks, joined, are the answer they were cut from (`ChunkFacts`).

There is no induction over data in these proofs. What would be one (a sum over a finite set, a
ranking of it, the first difference of two strings, the joined chunks) is proved from the least counterexample, with
`LeastNumber` and `LeastSubset` of `ProofFacts`.

### Assumptions

`ConstantsAssumption`: the sweeper is not a client; clients and keys are finite; there is a key.
`SweeperAssumption`: there is a key, and the clock outlasts all expirations. `WatchAssumption`: a ring
of at least two events, as the configuration requires. `LimitsAssumption`, `RequestsAssumption`,
`CallsAssumption`: finite clients and keys, the shape of the requests the
protocol has. `BoundsAssumption`, `MarkersAssumption`: a torn frame is no frame, a missing header no
number. `KeyspaceAssumption`, `ScanAssumption`, `PlacementAssumption`: keys, prefixes and points are strings of
bytes, tenant names are UTF-8 (they are `String`s in the code), there is a shard, scores are numbers;
`None` is no entry and no quota. TLC evaluates all of them.

### Only model-checked

`EventuallyEvicted`, `ShutdownCompletes`, `NeverSilent`, `CutOffEnds`: liveness under fairness, which
is outside the prover's reach. The six violation runs are counterexamples, and TLC's.

## 5. Not modelled

Losses of power for *storage*: which writes fjall makes durable without `flush` is not visible here,
so `NodeService` keeps all of a durable backend at a crash, and `rotation_race` is stated about the
log and the last fsync alone. Configuration files, metrics, TLS, the CLI, the coordinator's process
and generated code keep no state that the modelled properties depend on; API keys and roles
(`ferriskv-auth`), the term and the leader hint of the coordinator have no caller yet. The byte
layouts of values and frames, and the refusal of malformed ones, are covered by the fuzz targets and
property tests of the repository. The endpoints that only read (`get`, the quota listings, health,
readiness, metrics) appear as far as admission goes. Tokens are verified by a library.

## 6. Plan

Done: `NodeService` with `KvStore`; `Wal` with `AppendLog`; `TtlSweeper` in `Lifecycle`; `Watch`;
`Limits` and `Access` in `Requests`; `Keyspace`, `Scan`, `Placement`; the theorems of section 4.

Left: the four liveness properties stay with TLC. A change of the code that adds a step to a component
starts at the component's inductive invariant (section 4), which names what the other steps rely on.
