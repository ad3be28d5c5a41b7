------------------------------ MODULE Requests -------------------------------
(***************************************************************************)
(* The gRPC handlers of one tenant (ferriskv-node, grpc.rs) on top of its   *)
(* limits: a call is checked, admitted by the rate limiter, and then does   *)
(* its operations one by one, each with its quota check, its write, its     *)
(* accounting and its audit line.  Calls run concurrently and interleave at *)
(* every access to shared state; the node may be killed and started again.  *)
(*                                                                          *)
(* Abstracted: a value is its length, of the log only the last record of    *)
(* each key that a start-up would find is kept (Wal has its bytes), and a   *)
(* rotation is one step (NodeService and Wal have its parts).  Reads change *)
(* nothing.                                                                 *)
(***************************************************************************)
EXTENDS Limits, Access, FiniteSets, FiniteSetsExt, Functions

CONSTANTS
  Clients,
  Calls,         \* the calls they make: [rpc, token, ops]
  Keys,
  KeySize,       \* the size of each key
  Backends,      \* of {TRUE, FALSE}: whether storage survives a restart
  MaxKeySize, MaxValueSize, MaxBatchOps,  \* limits.*
  MaxEvents      \* bound on the calls of clients and operators, the failing
                 \* calls to storage and the log, restarts and seconds that
                 \* pass, together

\* Limits::validate.
ValidLimits == {MaxKeySize, MaxValueSize, MaxBatchOps} \subseteq Nat \ {0}

ASSUME RequestsAssumption ==
  /\ ValidLimits
  /\ MaxEvents \in Nat
  /\ KeySize \in [Keys -> Nat]
  /\ Backends \subseteq BOOLEAN
  /\ IsFiniteSet(Keys)
  /\ IsFiniteSet(Clients) /\ Clients # {}

\* The request messages: a get has no operation here, a put and a delete have
\* one, and a batch has any number, of any op code.
ASSUME CallsAssumption ==
  \A call \in Calls :
    /\ call.rpc \in {"get", "put", "delete", "batch"}
    /\ call.ops \in Seq([op : {"put", "delete", "other"}, key : Keys, len : Nat])
    /\ call.rpc = "get" => call.ops = <<>>
    /\ call.rpc \in {"put", "delete"} => Len(call.ops) = 1 /\ call.ops[1].op = call.rpc

VARIABLES
  durable,   \* storage survives a restart
  data,      \* the length of the value of each key, or None
  log,       \* the last record of each key a start-up would replay, likewise
  torn,      \* a failed append left bytes that hide the records behind it
  req,       \* each client's call
  budget,    \* how many events are left
  wanted,    \* the quota the operators were told is in force
  raced,     \* two operators' calls have overlapped since start-up
  cap,       \* the highest byte limit a growing write was checked against
  apart,     \* no two writes of one key have overlapped
  in_order,  \* no two totals were stored at once, and none failed to be
  window     \* operations charged since the last tick

\* From wanted to window they are observations for the properties.
observed == <<wanted, raced, cap, apart, in_order, window>>
diskVars == <<durable, data, log, torn>>
vars == <<limitsVars, diskVars, req, budget, observed>>

Unlimited == -1   \* no cap: some write was checked without a limit
NoRecord == -1    \* the log has no record of this key

Idle == [step |-> "idle", call |-> None, rate |-> 0, limiter |-> 0, op |-> 0,
         delta |-> 0, total |-> None, unaudited |-> 0]

EntryBytes(k, len) == IF len = None THEN 0 ELSE KeySize[k] + len
StoredBytes(d) == SumFunction([k \in Keys |-> EntryBytes(k, d[k])])

NoRecords == [k \in Keys |-> NoRecord]

Init ==
  /\ LimitsInit
  /\ durable \in Backends
  /\ data = [k \in Keys |-> None]
  /\ log = NoRecords
  /\ torn = FALSE
  /\ req = [c \in Clients |-> Idle]
  /\ budget = MaxEvents
  /\ wanted = DefaultQuota
  /\ raced = FALSE
  /\ cap = 0
  /\ apart = TRUE
  /\ in_order = TRUE
  /\ window = [charged |-> 0, disturbed |-> FALSE]

SpendEvent == budget > 0 /\ budget' = budget - 1

-----------------------------------------------------------------------------
(* From the request to its admission *)

\* The permission an operation of a batch is authorized with.
PermFor(op) == IF op.op = "put" THEN "write" ELSE "delete"

(* Mutant: a batch is authorized like a put. *)
NeedsWrite(call) == IF call.rpc = "get" THEN {"read"} ELSE {"write"}

\* What a handler asks `authorize` for (scan asks for "read" and watch for
\* "watch": their handlers are in Scan and Watch, past that point).
Needs(call) ==
  IF call.rpc = "get" THEN {"read"}
  ELSE {PermFor(op) : op \in {o \in Range(call.ops) : o.op \in {"put", "delete"}}}

\* How many operations a call is.
Operations(call) == IF call.ops = <<>> THEN 1 ELSE Len(call.ops)

(* Mutant: a batch costs one operation. *)
CostPerCall(call) == 1

\* A batch costs what it holds, any other call one operation.
Cost(call) == IF call.rpc = "batch" THEN Len(call.ops) ELSE 1

Admitting == {"lookup", "install", "charge"}
InAdmission(c) == req[c].step \in Admitting

\* The checks in front of the admission; a call that fails one changes nothing.
Accepts(call) ==
  /\ \E principal \in Intercept(call.token) :
       \A perm \in Needs(call) : Authorize(principal, perm)
  /\ call.rpc = "batch" => Len(call.ops) <= MaxBatchOps

\* On to operation `op`; behind the last one the call is answered.
GoOn(r, op) ==
  IF op > Len(r.call.ops) THEN [Idle EXCEPT !.unaudited = r.unaudited]
  ELSE [Idle EXCEPT !.step = "next", !.call = r.call, !.op = op,
                    !.unaudited = r.unaudited]

\* admit reads the rate; without a rate, or for an empty batch, nothing is
\* charged.
Receive(c, call) ==
  /\ req[c].step = "idle"
  /\ Accepts(call)
  /\ SpendEvent
  /\ req' = [req EXCEPT ![c] =
       LET r == [Idle EXCEPT !.call = call, !.rate = RateInForce, !.step = "lookup"]
       IN IF RateInForce = 0 \/ Cost(call) = 0 THEN GoOn(r, 1) ELSE r]
  /\ UNCHANGED <<limitsVars, diskVars, observed>>

LookupLimiter(c) ==
  /\ req[c].step = "lookup"
  /\ req' = [req EXCEPT ![c] =
       IF LimiterFits(@.rate) THEN [@ EXCEPT !.limiter = current, !.step = "charge"]
       ELSE [@ EXCEPT !.step = "install"]]
  /\ UNCHANGED <<limitsVars, diskVars, budget, observed>>

Disturbed == [charged |-> 0, disturbed |-> TRUE]

\* A new limiter disturbs the window if there was one before, or if another
\* call was between its own look and its charge.
Install(c) ==
  /\ req[c].step = "install"
  /\ InstallLimiter(req[c].rate)
  /\ req' = [req EXCEPT ![c].limiter = current', ![c].step = "charge"]
  /\ window' = IF current # 0 \/ \E d \in Clients \ {c} : InAdmission(d)
               THEN Disturbed ELSE window
  /\ UNCHANGED <<quotaVars, usageVars, operator, diskVars, budget, wanted, raced,
                 cap, apart, in_order>>

Admit(c) ==
  LET cost == Cost(req[c].call) IN
  /\ req[c].step = "charge"
  /\ CanCharge(req[c].limiter, cost)
  /\ ChargeLimiter(req[c].limiter, cost)
  /\ req' = [req EXCEPT ![c] = GoOn(@, 1)]
  /\ window' = IF window.disturbed THEN window
               ELSE [window EXCEPT !.charged = @ + Operations(req[c].call)]
  /\ UNCHANGED <<quotaVars, usageVars, operator, diskVars, budget, wanted, raced,
                 cap, apart, in_order>>

\* The call is over, with whatever answer; what it did stays.
Answered(c) == [req EXCEPT ![c] = [Idle EXCEPT !.unaudited = req[c].unaudited]]

\* RateLimited if waiting helps, an invalid argument if it never will: the
\* call is over either way.
Throttled(c) ==
  /\ req[c].step = "charge"
  /\ ~CanCharge(req[c].limiter, Cost(req[c].call))
  /\ req' = Answered(c)
  /\ UNCHANGED <<limitsVars, diskVars, budget, observed>>

-----------------------------------------------------------------------------
(* The operations of a call *)

Op(c) == req[c].call.ops[req[c].op]
Writing(c) == req[c].step \in {"append", "store", "adjust", "persist"}

\* enforce_key_size, enforce_value_size and the match on the op code.
WellFormed(op) ==
  /\ KeySize[op.key] <= MaxKeySize
  /\ op.op = "put" => op.len <= MaxValueSize
  /\ op.op \in {"put", "delete"}

NewLen(op) == IF op.op = "put" THEN op.len ELSE None

\* plan_accounting and plan_delete_accounting.
PlannedDelta(op) == EntryBytes(op.key, NewLen(op)) - EntryBytes(op.key, data[op.key])

\* The quota check: the operation is refused, or goes on with its delta.
Plan(c) ==
  LET op == Op(c)
      delta == PlannedDelta(op)
  IN /\ req[c].step = "next" /\ WellFormed(op)
     /\ CheckWrite(delta)
     /\ req' = [req EXCEPT ![c].step = "append", ![c].delta = delta]
     /\ cap' = IF delta <= 0 THEN cap
               ELSE IF Quota.max_bytes = 0 \/ cap = Unlimited THEN Unlimited
               ELSE Max({cap, Quota.max_bytes})
     /\ apart' = (apart /\ \A d \in Clients \ {c} : Writing(d) => Op(d).key # op.key)
     /\ UNCHANGED <<limitsVars, diskVars, budget, wanted, raced, in_order, window>>

\* The call ends at the first operation that is refused, for whatever reason;
\* the ones before it stay.
Refuse(c) ==
  LET op == Op(c) IN
  /\ req[c].step = "next"
  /\ ~WellFormed(op) \/ ~CheckWrite(PlannedDelta(op))
  /\ req' = Answered(c)
  /\ UNCHANGED <<limitsVars, diskVars, budget, observed>>

(* Mutant: one audit line per call, at its end. *)
AuditedAtEnd(r) == IF r.op = Len(r.call.ops) THEN 0 ELSE 1

\* audit::write, once for every operation that landed.
Audited(r) == 0

NextOp(r) == GoOn([r EXCEPT !.unaudited = Audited(r)], r.op + 1)

\* A start-up finds a record unless torn bytes are in front of it.
Logged(c) == IF torn THEN log ELSE [log EXCEPT ![Op(c).key] = NewLen(Op(c))]

AppendRecord(c) ==
  /\ req[c].step = "append"
  /\ log' = Logged(c)
  /\ req' = [req EXCEPT ![c].step = "store"]
  /\ UNCHANGED <<limitsVars, durable, data, torn, budget, observed>>

\* The append fails: nothing of the frame reaches the segment, or all of it
\* does, with the next flush of the buffer, or a part of it does and stays.
AppendFails(c) ==
  /\ req[c].step = "append"
  /\ SpendEvent
  /\ req' = Answered(c)
  /\ \/ log' \in {log, Logged(c)} /\ UNCHANGED torn
     \/ torn' = TRUE /\ UNCHANGED log
  /\ UNCHANGED <<limitsVars, durable, data, observed>>

\* rotate_wal_if_needed, the last step of an operation: where storage is
\* durable, a long enough log is emptied.
RotateIfNeeded ==
  \/ UNCHANGED <<log, torn>>
  \/ durable /\ log' = NoRecords /\ torn' = FALSE

\* The write lands; an operation that leaves the usage as it was is done.
Store(c) ==
  /\ req[c].step = "store"
  /\ data' = [data EXCEPT ![Op(c).key] = NewLen(Op(c))]
  /\ \/ /\ req[c].delta = 0
        /\ req' = [req EXCEPT ![c] = NextOp(@)]
        /\ RotateIfNeeded
     \/ /\ req[c].delta # 0
        /\ req' = [req EXCEPT ![c].step = "adjust", ![c].unaudited = 1]
        /\ UNCHANGED <<log, torn>>
  /\ UNCHANGED <<limitsVars, durable, budget, observed>>

\* The storage call fails, and the record stays in the log.
StoreFails(c) ==
  /\ req[c].step = "store"
  /\ SpendEvent
  /\ req' = Answered(c)
  /\ UNCHANGED <<limitsVars, diskVars, observed>>

\* QuotaStore::apply: the counter is moved, ...
Adjust(c) ==
  /\ req[c].step = "adjust"
  /\ used' = Adjusted(req[c].delta)
  /\ req' = [req EXCEPT ![c].step = "persist", ![c].total = used']
  /\ UNCHANGED <<quotaVars, stored_usage, throttleVars, operator, diskVars, budget,
                 observed>>

(* Mutant: the total stored is read before the counter is moved. *)
TotalBefore(c) == req[c].total - req[c].delta

TotalToStore(c) == req[c].total

\* ... and the new total is stored; a failure is only logged.
Persist(c) ==
  LET alone == \A d \in Clients \ {c} : req[d].step # "persist" IN
  /\ req[c].step = "persist"
  /\ \/ stored_usage' = TotalToStore(c) /\ in_order' = (in_order /\ alone) /\ UNCHANGED budget
     \/ SpendEvent /\ in_order' = FALSE /\ UNCHANGED stored_usage
  /\ req' = [req EXCEPT ![c] = NextOp(@)]
  /\ RotateIfNeeded
  /\ UNCHANGED <<quotaVars, used, throttleVars, operator, durable, data, wanted, raced,
                 cap, apart, window>>

-----------------------------------------------------------------------------
(* Operators, time and restarts *)

BusyOperators == {o \in Operators : operator[o].step # "idle"}

\* A set_quota that was answered, as the operator understands it.
Told(body, quota) == [f \in DOMAIN quota |-> IF body[f] = None THEN quota[f] ELSE body[f]]

OperatorStarts(o) ==
  /\ SpendEvent
  /\ (\E body \in Bodies : SetQuotaRead(o, body)) \/ ClearQuotaStore(o)
  /\ raced' = (raced \/ BusyOperators # {})
  /\ UNCHANGED <<diskVars, req, wanted, cap, apart, in_order, window>>

OperatorStores(o) ==
  /\ \/ SetQuotaStore(o) /\ UNCHANGED budget
     \/ SetQuotaFails(o) /\ SpendEvent
  /\ UNCHANGED <<diskVars, req, observed>>

OperatorCaches(o) ==
  /\ \/ SetQuotaCache(o) /\ wanted' = Told(operator[o].body, wanted)
     \/ ClearQuotaCache(o) /\ wanted' = DefaultQuota
  /\ UNCHANGED <<diskVars, req, budget, raced, cap, apart, in_order,
                 window>>

\* A second passes.
Tick ==
  /\ SpendEvent
  /\ RefillLimiters
  /\ window' = [charged |-> 0, disturbed |-> \E c \in Clients : InAdmission(c)]
  /\ UNCHANGED <<quotaVars, usageVars, operator, diskVars, req, wanted, raced,
                 cap, apart, in_order>>

\* What a start-up ends with: storage, if it survived, overwritten by the
\* records of the log, also by those whose operation was refused by an error,
\* and without a quota check.
Replayed ==
  [k \in Keys |-> IF log[k] # NoRecord THEN log[k]
                  ELSE IF durable THEN data[k] ELSE None]

\* The node is killed at any point and started again.  Beside durable storage
\* the log is then emptied; torn bytes are cut off either way.  A call of an
\* operator that was cut short may or may not have taken effect.
Restart ==
  /\ SpendEvent
  /\ data' = Replayed
  /\ log' = IF durable THEN NoRecords ELSE log
  /\ torn' = FALSE
  /\ LimitsRestart(durable, StoredBytes(data'))
  /\ req' = [c \in Clients |-> Idle]
  /\ wanted' = IF durable /\ BusyOperators = {} /\ ~raced THEN wanted
               ELSE IF cached' = None THEN DefaultQuota ELSE cached'
  /\ raced' = FALSE
  /\ in_order' = (durable /\ in_order /\ data' = data /\ \A c \in Clients : ~Writing(c))
  /\ cap' = IF data' = data \/ cap = Unlimited THEN cap
            ELSE Max({cap, StoredBytes(data')})
  /\ window' = [charged |-> 0, disturbed |-> FALSE]
  /\ UNCHANGED <<durable, apart>>

Admission(c) == LookupLimiter(c) \/ Install(c) \/ Admit(c) \/ Throttled(c)
Operation(c) == Plan(c) \/ Refuse(c) \/ AppendRecord(c) \/ AppendFails(c) \/ Store(c)
                \/ StoreFails(c) \/ Adjust(c) \/ Persist(c)

Next ==
  \/ \E c \in Clients : (\E call \in Calls : Receive(c, call)) \/ Admission(c) \/ Operation(c)
  \/ \E o \in Operators : OperatorStarts(o) \/ OperatorStores(o) \/ OperatorCaches(o)
  \/ Tick
  \/ Restart

Spec == Init /\ [][Next]_vars

-----------------------------------------------------------------------------
(* Properties *)

TypeOK ==
  /\ LimitsTypeOK
  /\ durable \in Backends
  /\ data \in [Keys -> 0..MaxValueSize \cup {None}]
  /\ log \in [Keys -> 0..MaxValueSize \cup {None, NoRecord}]
  /\ \A c \in Clients :
       /\ req[c].step \in Admitting \cup {"idle", "next", "append", "store", "adjust",
                                         "persist"}
       /\ req[c].step # "idle" => req[c].call \in Calls
       /\ req[c].step = "charge" => req[c].limiter \in DOMAIN limiters
       /\ req[c].step \in {"next", "append", "store", "adjust", "persist"} =>
            req[c].op \in DOMAIN req[c].call.ops
       /\ req[c].step = "persist" => req[c].total \in Nat
  /\ wanted \in Quotas
  /\ {torn, raced, apart, in_order} \subseteq BOOLEAN
  /\ cap \in Nat \cup {Unlimited}

\* quota.rs:164-185: check_write does not see the writes in flight, so together
\* they can pass the limit, by at most one entry for each of the other clients;
\* a limit that is lowered later takes nothing back.  A start-up checks nothing:
\* where it finds other data than the node had, because it replays the record of
\* a write that failed or lacks the records behind torn bytes, what it finds
\* counts like a limit of its own.  Writes of one key that overlap may leave the
\* counter too low, and are left out.
QuotaBounds ==
  apart /\ cap # Unlimited =>
    StoredBytes(data) <= cap + (Cardinality(Clients) - 1) * (MaxKeySize + MaxValueSize)

\* README.md:164: the counter is the data, whatever part of its operations a
\* call has done before it failed, and across restarts, whatever they replay,
\* unless writes of one key have overlapped; and the total stored for billing is
\* the counter, unless two totals were stored at once, storing one failed, or a
\* restart lost it or found other data than the node had.
AccountingAgrees ==
  apart /\ (\A c \in Clients : ~Writing(c)) =>
    /\ used = StoredBytes(data)
    /\ in_order => stored_usage = used \/ (stored_usage = None /\ used = 0)

\* admin.rs:138 "leaving unspecified fields as they were": as long as calls of
\* operators do not overlap, the limits in force are the node's default changed
\* by every update that was answered, also when one failed in between, and on a
\* durable backend also after a restart.
QuotaKept == BusyOperators = {} /\ ~raced => Quota = wanted

\* throttle.rs:57-62: between two refills at most `rate` operations are let in,
\* batches counted by what they hold, unless the limiter was replaced in between
\* or was being built by two calls at once.
RateHeld ==
  ~window.disturbed /\ current # 0 => window.charged <= limiters[current].rate

\* README.md:75 "A structured audit log records writes": when a call is over,
\* every operation of it that landed has its line, however the call ended.
AuditedWhenAnswered == \A c \in Clients : req[c].step = "idle" => req[c].unaudited = 0

\* README.md:160 "nothing is written - a quota refusal is never a partial
\* success", here of a batch: the quota refuses it at its first operation or not
\* at all.  batch_impl checks the quota of an operation when the ones in front
\* of it have landed, so this fails.
NeverPartial ==
  [][\A c \in Clients : Refuse(c) /\ WellFormed(Op(c)) => req[c].op = 1]_vars

\* grpc.rs:125-145 and 513-522: whatever a call writes, batches included, its
\* caller holds the permission for, and for this tenant.
WritesPermitted ==
  \A c \in Clients : Writing(c) =>
    \/ Insecure
    \/ /\ req[c].call.token.genuine
       /\ req[c].call.token.tenant = Own
       /\ PermFor(Op(c)) \in req[c].call.token.perms \/ "admin" \in req[c].call.token.perms
=============================================================================
