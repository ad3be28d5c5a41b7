----------------------------- MODULE NodeService -----------------------------
(***************************************************************************)
(* The write path of a node (ferriskv-node, service.rs), the TTL sweeper    *)
(* (ttl.rs) and start-up.  Request handlers and the sweeper run on          *)
(* different threads and share the storage, the log, the TTL index and the  *)
(* usage counter; each of those is atomic by itself (a mutex, a map, an     *)
(* atomic), and nothing is held from one to the next.  So an operation is   *)
(* a process that takes one step per shared object it touches, in the       *)
(* order of the code, and operations interleave at every step.              *)
(*                                                                          *)
(* Abstracted: a value is its length; one tenant; the log is the sequence   *)
(* of records a reopened segment would yield (Wal.tla has its bytes, and    *)
(* AppendLog.tla what is used of it here); a watcher is the map it builds   *)
(* from the events it is sent.                                              *)
(***************************************************************************)
EXTENDS Integers, Sequences, FiniteSets, Functions

CONSTANTS
  Clients,     \* request handlers that may run at the same time
  Sweeper,     \* the TTL sweeper task
  Keys,
  Values,      \* payloads, each standing for its own length in bytes
  Ttls,        \* ttl_ms of a put; 0 asks for no expiration
  Backends,    \* the configured storage: "Memory", "Fjall"
  Limit,       \* max_bytes of the tenant's quota; 0 is unlimited
  RotateAt,    \* wal_rotate_bytes, in records
  MaxClock,    \* bound on the clock
  MaxOps,      \* bound on the client operations started
  MaxErrors,   \* bound on the storage and log calls that fail
  MaxCrashes,  \* bound on the process crashes
  None         \* no entry, no operation

ASSUME ConstantsAssumption ==
  /\ Sweeper \notin Clients
  /\ IsFiniteSet(Clients)
  /\ Keys # {} /\ IsFiniteSet(Keys)
  /\ Values \subseteq Nat
  /\ Ttls \subseteq Nat
  /\ Backends \subseteq {"Memory", "Fjall"}
  /\ {Limit, RotateAt, MaxClock, MaxOps, MaxErrors, MaxCrashes} \subseteq Nat

VARIABLES
  backend,    \* the configured storage backend
  node,       \* "down", then the steps of open_with_clock, then "up"
  now,        \* the wall clock, in ticks
  store,      \* storage as get sees it
  wal,        \* records of the current log segment, in append order
  segment,    \* its size as the node counts it, and whether an error has
              \* damaged it so that it takes in nothing more
  replayed,   \* start-up: how many records replay has applied
  ttl_index,  \* <<expiration, key>> pairs of TtlIndex.by_expiry
  used,       \* the in-memory usage counter of the tenant
  view,       \* a watcher's map: the last event of each key
  pc,         \* the next step of each process
  op,         \* the operation each process carries out
  sweep,      \* the pass under way: its now_ms and the candidates left
  budget,     \* what is left of MaxOps, MaxErrors and MaxCrashes
  ghost       \* observations for the properties; no action reads it

vars == <<backend, node, now, store, wal, segment, replayed, ttl_index, used, view,
          pc, op, sweep, budget, ghost>>

Procs == Clients \cup {Sweeper}
NoExpiry == 0
Entries == [val : Values, exp : Nat]
Slots == Entries \cup {None}
Records == [key : Keys, entry : Slots]          \* entry None is a Delete
Operations == [key : Keys, entry : Slots, delta : Int]

\* Steps at which an operation on its key is open: started, not yet announced.
OpenSteps == {"plan", "append", "apply", "schedule", "commit", "publish"}
Steps == {"idle", "examine", "reschedule", "rotate_check", "flush", "rotate"}
           \cup OpenSteps

IsOpen(p, k) == pc[p] \in OpenSteps /\ op[p].key = k
OpenKeys == {k \in Keys : \E p \in Procs : IsOpen(p, k)}

Segments == [bytes : Nat, damaged : BOOLEAN]
Sweeps == [now : Nat, due : SUBSET (Nat \X Keys)]
Budgets == [ops : Nat, errors : Nat, crashes : Nat]

\* overlapped: keys on which two operations were open at once
\* halfway:    keys with a record in the log that did not reach storage, or the
\*             other way round, because a call failed
\* leaked:     keys the sweeper dropped from the TTL index because of an error
\* unsynced:   keys written since storage was last fsynced
\* unsure, live: the keys not settled and the content of storage at the crash
Ghosts == [overlapped : SUBSET Keys, halfway : SUBSET Keys, leaked : SUBSET Keys,
           unsynced : SUBSET Keys, unsure : SUBSET Keys, live : [Keys -> Slots]]

TypeOK ==
  /\ backend \in Backends
  /\ node \in {"down", "replay", "boot_flush", "boot_rotate", "bootstrap", "up"}
  /\ now \in Nat
  /\ store \in [Keys -> Slots]
  /\ wal \in Seq(Records)
  /\ segment \in Segments
  /\ replayed \in Nat
  /\ ttl_index \in SUBSET (Nat \X Keys)
  /\ view \in [Keys -> Values \cup {None}]
  /\ pc \in [Procs -> Steps]
  /\ op \in [Procs -> Operations \cup {None}]
  /\ \A p \in Procs : pc[p] \notin {"idle", "examine"} => op[p] \in Operations
  /\ \A p \in Procs : pc[p] \in {"schedule", "reschedule"}
                        => op[p].entry \in Entries
  /\ sweep \in Sweeps
  /\ budget \in Budgets
  /\ ghost \in Ghosts

-----------------------------------------------------------------------------
(* Values, expiration and accounting *)

IsExpired(entry, t) == entry.exp # NoExpiry /\ entry.exp <= t

\* The caller's value inside an encoded entry, as watchers are sent it.
Payload(slot) == IF slot = None THEN None ELSE slot.val

\* Bytes a key/value pair counts for; every key is one byte long.
KeyLen == 1
EntryBytes(slot) == IF slot = None THEN 0 ELSE KeyLen + slot.val

StoredBytes(map) == SumFunction([k \in Keys |-> EntryBytes(map[k])])

(* Mutant: only additions are counted, the replaced entry is not. *)
PlanAdditionsOnly(k, entry) == EntryBytes(entry)

\* What a put changes in the usage, given what the key holds right now.
PlanAccounting(k, entry) == EntryBytes(entry) - EntryBytes(store[k])

PlanDeleteAccounting(k) == -EntryBytes(store[k])

CheckWrite(delta) == Limit = 0 \/ delta <= 0 \/ used + delta <= Limit

Adjust(delta) == IF used + delta < 0 THEN 0 ELSE used + delta

EmptyMap == [k \in Keys |-> None]
FreshSegment == [bytes |-> 0, damaged |-> FALSE]
IdleSweep == [now |-> 0, due |-> {}]
QuietGhost == [overlapped |-> {}, halfway |-> {}, leaked |-> {}, unsynced |-> {},
               unsure |-> {}, live |-> EmptyMap]

Init ==
  /\ backend \in Backends
  /\ node = "down"
  /\ now = 0
  /\ store = EmptyMap
  /\ wal = <<>>
  /\ segment = FreshSegment
  /\ replayed = 0
  /\ ttl_index = {}
  /\ used = 0
  /\ view = EmptyMap
  /\ pc = [p \in Procs |-> "idle"]
  /\ op = [p \in Procs |-> None]
  /\ sweep = IdleSweep
  /\ budget = [ops |-> MaxOps, errors |-> MaxErrors, crashes |-> MaxCrashes]
  /\ ghost = QuietGhost

-----------------------------------------------------------------------------
(* Moving a process *)

Goto(p, step) == pc' = [pc EXCEPT ![p] = step]

\* The operation returns to its caller: a handler's client, or sweep_once.
Return(p) ==
  /\ pc' = [pc EXCEPT ![p] = IF p = Sweeper THEN "examine" ELSE "idle"]
  /\ op' = [op EXCEPT ![p] = None]

\* p opens an operation on k; ghost remembers if another one is still open.
Open(p, k, step, operation) ==
  /\ Goto(p, step)
  /\ op' = [op EXCEPT ![p] = operation]
  /\ ghost' = IF \E q \in Procs \ {p} : IsOpen(q, k)
              THEN [ghost EXCEPT !.overlapped = @ \cup {k}]
              ELSE ghost

\* The bounds of a run.
SpendOp == budget.ops > 0 /\ budget' = [budget EXCEPT !.ops = @ - 1]
SpendError == budget.errors > 0 /\ budget' = [budget EXCEPT !.errors = @ - 1]
SpendCrash == budget.crashes > 0 /\ budget' = [budget EXCEPT !.crashes = @ - 1]

-----------------------------------------------------------------------------
(* put_with_ttl and delete: one step per shared object *)

\* expires_at, plan_accounting and check_write.  A refusal returns before
\* anything is written, so a refused put is a put that never starts.
PutPlan(c, k) ==
  \E v \in Values, ttl \in Ttls :
    LET exp == IF ttl > 0 THEN now + ttl ELSE NoExpiry
        entry == [val |-> v, exp |-> exp]
        delta == PlanAccounting(k, entry)
    IN /\ node = "up"
       /\ pc[c] = "idle"
       /\ SpendOp
       /\ CheckWrite(delta)
       /\ Open(c, k, "append", [key |-> k, entry |-> entry, delta |-> delta])
       /\ UNCHANGED <<backend, node, now, store, wal, segment, replayed, ttl_index, used,
                      view, sweep>>

\* plan_delete_accounting for a client's delete.
DeletePlan(c, k) ==
  /\ node = "up"
  /\ pc[c] = "idle"
  /\ SpendOp
  /\ Open(c, k, "append",
          [key |-> k, entry |-> None, delta |-> PlanDeleteAccounting(k)])
  /\ UNCHANGED <<backend, node, now, store, wal, segment, replayed, ttl_index, used, view,
                 sweep>>

\* plan_delete_accounting for an eviction: storage is read a second time.
EvictPlan ==
  /\ pc[Sweeper] = "plan"
  /\ op' = [op EXCEPT ![Sweeper] =
              [@ EXCEPT !.delta = PlanDeleteAccounting(op[Sweeper].key)]]
  /\ Goto(Sweeper, "append")
  /\ UNCHANGED <<backend, node, now, store, wal, segment, replayed, ttl_index, used, view,
                 sweep, budget, ghost>>

RecordOf(p) == [key |-> op[p].key, entry |-> op[p].entry]

\* wal.append succeeds.  Behind the bytes an earlier append left half written
\* the record is acknowledged all the same, and is not read back.
WalAppend(p) ==
  /\ pc[p] = "append"
  /\ segment' = [segment EXCEPT !.bytes = @ + 1]
  /\ IF segment.damaged
     THEN /\ ghost' = [ghost EXCEPT !.halfway = @ \cup {op[p].key}]
          /\ UNCHANGED wal
     ELSE /\ wal' = Append(wal, RecordOf(p))
          /\ UNCHANGED ghost
  /\ Goto(p, "apply")
  /\ UNCHANGED <<backend, node, now, store, replayed, ttl_index, used, view, op,
                 sweep, budget>>

(* Mutant: an eviction goes straight to storage, past accounting and watch. *)
AfterApplyBypass(p) ==
  IF p = Sweeper THEN "rotate_check"
  ELSE IF op[p].entry # None /\ op[p].entry.exp # NoExpiry
       THEN "schedule" ELSE "commit"

(* Mutant: every operation goes on to schedule. *)
AfterApplySchedule(p) == "schedule"

\* Only a put with a TTL goes on to schedule.
AfterApply(p) ==
  IF op[p].entry # None /\ op[p].entry.exp # NoExpiry
  THEN "schedule" ELSE "commit"

\* storage.put or storage.delete.
StorageApply(p) ==
  /\ pc[p] = "apply"
  /\ store' = [store EXCEPT ![op[p].key] = op[p].entry]
  /\ Goto(p, AfterApply(p))
  /\ ghost' = [ghost EXCEPT !.unsynced = @ \cup {op[p].key}]
  /\ UNCHANGED <<backend, node, now, wal, segment, replayed, ttl_index, used, view, op,
                 sweep, budget>>

\* An eviction that fails has already left the TTL index.
Leaks(p) == IF p = Sweeper THEN {op[p].key} ELSE {}

\* wal.append fails, and `?` hands the error to the caller.  The frame is gone,
\* or it stays in the BufWriter and reaches the file with the next append (it
\* is counted as there from now on; if no append follows, it was not), or part
\* of it is in the file for good.
AppendFails(p) ==
  /\ pc[p] = "append"
  /\ SpendError
  /\ Return(p)
  /\ \/ /\ ghost' = [ghost EXCEPT !.leaked = @ \cup Leaks(p)]
        /\ UNCHANGED <<wal, segment>>
     \/ /\ ~segment.damaged
        /\ wal' = Append(wal, RecordOf(p))
        /\ ghost' = [ghost EXCEPT !.halfway = @ \cup {op[p].key},
                                  !.leaked = @ \cup Leaks(p)]
        /\ UNCHANGED segment
     \/ /\ segment' = [segment EXCEPT !.damaged = TRUE]
        /\ ghost' = [ghost EXCEPT !.leaked = @ \cup Leaks(p)]
        /\ UNCHANGED wal
  /\ UNCHANGED <<backend, node, now, store, replayed, ttl_index, used, view, sweep>>

\* The storage answers with an error, which `?` hands straight to the caller:
\* at the second read of an eviction, or at the write, when the record is
\* already in the log and stays there.
OperationFails(p) ==
  /\ pc[p] \in {"plan", "apply"}
  /\ SpendError
  /\ Return(p)
  /\ ghost' = [ghost EXCEPT
       !.halfway = IF pc[p] = "apply" THEN @ \cup {op[p].key} ELSE @,
       !.leaked = @ \cup Leaks(p)]
  /\ UNCHANGED <<backend, node, now, store, wal, segment, replayed, ttl_index, used,
                 view, sweep>>

Schedule(p) ==
  /\ pc[p] = "schedule"
  /\ ttl_index' = ttl_index \cup {<<op[p].entry.exp, op[p].key>>}
  /\ Goto(p, "commit")
  /\ UNCHANGED <<backend, node, now, store, wal, segment, replayed, used, view, op, sweep,
                 budget, ghost>>

CommitAccounting(p) ==
  /\ pc[p] = "commit"
  /\ used' = Adjust(op[p].delta)
  /\ Goto(p, "publish")
  /\ UNCHANGED <<backend, node, now, store, wal, segment, replayed, ttl_index, view, op,
                 sweep, budget, ghost>>

PublishChange(p) ==
  /\ pc[p] = "publish"
  /\ view' = [view EXCEPT ![op[p].key] = Payload(op[p].entry)]
  /\ Goto(p, "rotate_check")
  /\ UNCHANGED <<backend, node, now, store, wal, segment, replayed, ttl_index, used, op,
                 sweep, budget, ghost>>

-----------------------------------------------------------------------------
(* rotate_wal_if_needed: check, flush, rotate *)

IsDurable == backend = "Fjall"

(* Mutant: the log is rotated whatever the backend. *)
RotateAnyBackend == segment.bytes >= RotateAt

RotationDue == IsDurable /\ segment.bytes >= RotateAt

RotateCheck(p) ==
  /\ pc[p] = "rotate_check"
  /\ IF RotationDue
     THEN Goto(p, "flush") /\ UNCHANGED op
     ELSE Return(p)
  /\ UNCHANGED <<backend, node, now, store, wal, segment, replayed, ttl_index, used, view,
                 sweep, budget, ghost>>

\* storage.flush, whose failure is only logged: the operation still succeeds.
\* A failure of wal.rotate that leaves the file alone ends in the same state.
FlushStorage(p) ==
  /\ pc[p] = "flush"
  /\ \/ /\ Goto(p, "rotate")
        /\ ghost' = [ghost EXCEPT !.unsynced = {}]
        /\ UNCHANGED <<op, budget>>
     \/ Return(p) /\ SpendError /\ UNCHANGED ghost
  /\ UNCHANGED <<backend, node, now, store, wal, segment, replayed, ttl_index, used, view,
                 sweep>>

\* wal.rotate.  A failure after the truncation is only logged too; without its
\* header the segment takes in nothing more, and may not open again (Wal.tla).
RotateWal(p) ==
  /\ pc[p] = "rotate"
  /\ wal' = <<>>
  /\ \/ segment' = FreshSegment /\ UNCHANGED budget
     \/ /\ SpendError
        /\ \E damaged \in BOOLEAN : segment' = [segment EXCEPT !.damaged = damaged]
  /\ Return(p)
  /\ UNCHANGED <<backend, node, now, store, replayed, ttl_index, used, view,
                 sweep, ghost>>

-----------------------------------------------------------------------------
(* sweep_once *)

DrainDue ==
  LET due == {e \in ttl_index : e[1] <= now} IN
  /\ pc[Sweeper] = "idle"
  /\ due # {}
  /\ sweep' = [now |-> now, due |-> due]
  /\ ttl_index' = ttl_index \ due
  /\ Goto(Sweeper, "examine")
  /\ UNCHANGED <<backend, node, now, store, wal, segment, replayed, used, view, op, budget,
                 ghost>>

(* Mutant: a drained candidate is taken to be expired. *)
TrustIndex(slot, t) == slot # None

\* The candidate holds an expired entry.
MustEvict(slot, t) == slot # None /\ IsExpired(slot, t)

\* The candidate was overwritten by an entry that expires later.
MustPostpone(slot, t) ==
  slot # None /\ ~IsExpired(slot, t) /\ slot.exp # NoExpiry

\* storage.get of one candidate and the match on what it holds: evict it,
\* put it back under its stored expiration, or forget it.
Examine(e) ==
  LET k == e[2]
      slot == store[k]
      evict == MustEvict(slot, sweep.now)
      postpone == MustPostpone(slot, sweep.now)
      eviction == [key |-> k, entry |-> None, delta |-> 0]
      postponed == [key |-> k, entry |-> slot, delta |-> 0]
  IN
  /\ pc[Sweeper] = "examine"
  /\ sweep' = [sweep EXCEPT !.due = @ \ {e}]
  /\ \/ /\ evict
        /\ Open(Sweeper, k, "plan", eviction)
     \/ /\ ~evict /\ postpone
        /\ Goto(Sweeper, "reschedule")
        /\ op' = [op EXCEPT ![Sweeper] = postponed]
        /\ UNCHANGED ghost
     \/ /\ ~evict /\ ~postpone
        /\ UNCHANGED <<pc, op, ghost>>
  /\ UNCHANGED <<backend, node, now, store, wal, segment, replayed, ttl_index, used, view,
                 budget>>

\* storage.get fails: a warning, and the candidate is forgotten.
ExamineFails(e) ==
  /\ pc[Sweeper] = "examine"
  /\ SpendError
  /\ sweep' = [sweep EXCEPT !.due = @ \ {e}]
  /\ ghost' = [ghost EXCEPT !.leaked = @ \cup {e[2]}]
  /\ UNCHANGED <<backend, node, now, store, wal, segment, replayed, ttl_index, used, view,
                 pc, op>>

Reschedule ==
  /\ pc[Sweeper] = "reschedule"
  /\ ttl_index' = ttl_index \cup {<<op[Sweeper].entry.exp, op[Sweeper].key>>}
  /\ Return(Sweeper)
  /\ UNCHANGED <<backend, node, now, store, wal, segment, replayed, used, view, sweep,
                 budget, ghost>>

SweepDone ==
  /\ pc[Sweeper] = "examine"
  /\ sweep.due = {}
  /\ sweep' = IdleSweep
  /\ Goto(Sweeper, "idle")
  /\ UNCHANGED <<backend, node, now, store, wal, segment, replayed, ttl_index, used, view,
                 op, budget, ghost>>

-----------------------------------------------------------------------------
(* The process dies, and open_with_clock brings it back *)

\* Everything in memory is gone, the Memory backend's data included.  What the
\* operating system holds (the log, Fjall's journal) stays.
Crash ==
  /\ node # "down"
  /\ SpendCrash
  /\ node' = "down"
  /\ store' = IF IsDurable THEN store ELSE EmptyMap
  /\ replayed' = 0
  /\ ttl_index' = {}
  /\ used' = 0
  /\ view' = EmptyMap
  /\ pc' = [p \in Procs |-> "idle"]
  /\ op' = [p \in Procs |-> None]
  /\ sweep' = IdleSweep
  /\ segment' = FreshSegment
  /\ ghost' = IF node = "up"
              THEN [QuietGhost EXCEPT
                     !.unsure = OpenKeys \cup ghost.overlapped \cup ghost.halfway,
                     !.live = store]
              ELSE ghost
  /\ UNCHANGED <<backend, now, wal>>

\* Wal::open cuts off a damaged tail, and counts what it has read.
OpenStorageAndWal ==
  /\ node = "down"
  /\ node' = "replay"
  /\ segment' = [FreshSegment EXCEPT !.bytes = Len(wal)]
  /\ UNCHANGED <<backend, now, store, wal, replayed, ttl_index, used, view, pc, op,
                 sweep, budget, ghost>>

Replay ==
  LET record == wal[replayed + 1] IN
  /\ node = "replay"
  /\ replayed < Len(wal)
  /\ store' = [store EXCEPT ![record.key] = record.entry]
  /\ replayed' = replayed + 1
  /\ UNCHANGED <<backend, node, now, wal, segment, ttl_index, used, view, pc, op, sweep,
                 budget, ghost>>

ReplayDone ==
  /\ node = "replay"
  /\ replayed = Len(wal)
  /\ node' = IF IsDurable THEN "boot_flush" ELSE "bootstrap"
  /\ UNCHANGED <<backend, now, store, wal, segment, replayed, ttl_index, used, view, pc, op,
                 sweep, budget, ghost>>

BootFlush ==
  /\ node = "boot_flush"
  /\ node' = "boot_rotate"
  /\ UNCHANGED <<backend, now, store, wal, segment, replayed, ttl_index, used, view, pc, op,
                 sweep, budget, ghost>>

BootRotate ==
  /\ node = "boot_rotate"
  /\ wal' = <<>>
  /\ segment' = FreshSegment
  /\ replayed' = 0
  /\ node' = "bootstrap"
  /\ UNCHANGED <<backend, now, store, ttl_index, used, view, pc, op, sweep, budget,
                 ghost>>

(* Mutant: only the usage is rebuilt at start-up. *)
ForgottenIndex == {}

\* The expirations that the stored entries carry.
StoredIndex ==
  {<<store[k].exp, k>> :
    k \in {j \in Keys : store[j] # None /\ store[j].exp # NoExpiry}}

\* bootstrap_from_storage: the TTL index and the usage, from the data itself.
\* Watchers connect to the open node and read what it holds first.
Bootstrap ==
  /\ node = "bootstrap"
  /\ ttl_index' = StoredIndex
  /\ used' = StoredBytes(store)
  /\ view' = [k \in Keys |-> Payload(store[k])]
  /\ node' = "up"
  /\ replayed' = 0
  /\ ghost' = QuietGhost
  /\ UNCHANGED <<backend, now, store, wal, segment, pc, op, sweep, budget>>

-----------------------------------------------------------------------------

Tick ==
  /\ now < MaxClock
  /\ now' = now + 1
  /\ UNCHANGED <<backend, node, store, wal, segment, replayed, ttl_index, used, view, pc,
                 op, sweep, budget, ghost>>

ClientStep(c) == \E k \in Keys : PutPlan(c, k) \/ DeletePlan(c, k)

\* Open operations exist only on a node that is up (Crash ends them all).

WriteStep(p) ==
  \/ WalAppend(p)
  \/ AppendFails(p)
  \/ StorageApply(p)
  \/ OperationFails(p)
  \/ Schedule(p)
  \/ CommitAccounting(p)
  \/ PublishChange(p)
  \/ RotateCheck(p)
  \/ FlushStorage(p)
  \/ RotateWal(p)

SweeperStep ==
  \/ DrainDue
  \/ \E e \in sweep.due : Examine(e) \/ ExamineFails(e)
  \/ Reschedule
  \/ EvictPlan
  \/ SweepDone

BootStep ==
  \/ OpenStorageAndWal
  \/ Replay
  \/ ReplayDone
  \/ BootFlush
  \/ BootRotate
  \/ Bootstrap

Next ==
  \/ \E c \in Clients : ClientStep(c)
  \/ \E p \in Procs : WriteStep(p)
  \/ SweeperStep
  \/ BootStep
  \/ Crash
  \/ Tick

Spec == Init /\ [][Next]_vars

-----------------------------------------------------------------------------
(* Properties *)

HasExpiry(k) == store[k] # None /\ store[k].exp # NoExpiry

\* The stored entry of k is in the TTL index, its writer is about to put it
\* there, the sweeper holds it, or an eviction of k failed.
OnItsWay(k) ==
  \/ <<store[k].exp, k>> \in ttl_index
  \/ \E p \in Procs : pc[p] = "schedule" /\ op[p].key = k /\ op[p].entry = store[k]
  \/ \E e \in sweep.due : e[2] = k
  \/ pc[Sweeper] \in {"plan", "append", "apply"} /\ op[Sweeper].key = k
  \/ /\ pc[Sweeper] = "reschedule"
     /\ op[Sweeper].key = k
     /\ op[Sweeper].entry = store[k]
  \/ k \in ghost.leaked

\* Every stored entry with an expiration is on its way to being evicted.  The
\* sweeper forgets entries it drained (drain_due), writers overwrite entries
\* it is looking at, and start-up rebuilds the index; an entry outside all of
\* them would stay on disk for ever.  An eviction that failed is the exception
\* (ttl.rs:182 logs it and moves on).
TtlCovered == node = "up" => \A k \in Keys : HasExpiry(k) => OnItsWay(k)

\* What each process has yet to add to the usage for its change of storage.
Uncommitted ==
  [p \in Procs |-> IF pc[p] \in {"schedule", "commit"} THEN op[p].delta ELSE 0]

\* The usage counter, corrected by the operations that have changed storage
\* and not yet the counter, is the size of the data, through overwrites,
\* deletes, evictions, failures and restarts -- as long as no two operations
\* on one key were open at once (plan_accounting reads an entry that another
\* writer may replace before the delta is applied).
UsageConserved ==
  node = "up" /\ ghost.overlapped = {} =>
    used + SumFunction(Uncommitted) = StoredBytes(store)

\* A watcher that applies its events in order holds what storage holds, for
\* every key with no operation open, evictions included (the sweeper deletes
\* through the service so that watchers are told).
WatcherAgrees ==
  node = "up" =>
    \A k \in Keys \ (OpenKeys \cup ghost.overlapped) :
      view[k] = Payload(store[k])

\* The step by which the sweeper removes k from storage.
Evicts(k) ==
  /\ pc[Sweeper] = "apply"
  /\ pc'[Sweeper] = "commit"
  /\ op[Sweeper].key = k
  /\ store[k] # None

\* The sweeper removes only expired entries, unless an operation on the same
\* key overlapped the eviction.
EvictsOnlyExpired ==
  [][\A k \in Keys : Evicts(k) /\ k \notin ghost.overlapped
                       => IsExpired(store[k], now)]_vars

\* ttl.rs:164-166 on sweep_once: it "verifies the actual expiration in storage
\* to stay safe against concurrent writes".  The sweeper never removes an
\* entry that has not expired.
EvictionSafe ==
  [][\A k \in Keys : Evicts(k) => IsExpired(store[k], now)]_vars

\* service.rs:322-325 on replay: "re-applying a record that did land is a
\* no-op".  With no operation open, the last record the log holds of a key
\* whose storage calls all succeeded is what storage holds of it.
ReplayIsNoOp ==
  node = "up" /\ OpenKeys = {} =>
    \A i \in 1..Len(wal) :
      \/ \E j \in i+1..Len(wal) : wal[j].key = wal[i].key
      \/ wal[i].key \in ghost.halfway
      \/ wal[i].entry = store[wal[i].key]

\* service.rs:322-325 on replay: a segment is rotated only after storage was
\* fsynced, "so what remains is exactly the suffix storage may be missing".
\* A key written since the last fsync, with no operation open, has a record.
LogCoversUnsynced ==
  node = "up" /\ IsDurable =>
    \A k \in ghost.unsynced \ OpenKeys :
      \E i \in 1..Len(wal) : wal[i].key = k

\* The node implements the map its clients rely on (KvStore): what they were
\* served before a crash is what they are served after it, whatever steps the
\* crash fell between, except for keys with an operation open, keys two
\* operations overlapped on, keys whose call failed when its record was or came
\* to be in the log (wal.rs:305-306, service.rs:196), and keys written behind
\* bytes that a failed call left in the log.  Crashes during start-up change
\* nothing.
Kv == INSTANCE KvStore WITH
        dict <- IF node = "up" THEN store ELSE ghost.live,
        unsettled <- IF node = "up"
                     THEN OpenKeys \cup ghost.overlapped \cup ghost.halfway
                     ELSE ghost.unsure
ImplementsKvStore == Kv!Spec
=============================================================================
