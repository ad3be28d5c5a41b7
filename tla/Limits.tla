------------------------------- MODULE Limits --------------------------------
(***************************************************************************)
(* One tenant's limits (ferriskv-node): the quota and usage it has in       *)
(* memory and in storage (quota.rs), the rate limiter built from its quota  *)
(* (throttle.rs), and the operators who change the quota (admin.rs).        *)
(*                                                                          *)
(* The maps are locked during one access only: an operator's call reads,    *)
(* stores and caches in separate steps, and a request looks its limiter up  *)
(* and installs a new one in separate steps.  The token bucket is the       *)
(* governor library: a burst of `rate` operations, full again a tick later. *)
(***************************************************************************)
EXTENDS Integers, Sequences

CONSTANTS
  Operators,     \* concurrent callers of the admin server
  Bodies,        \* the bodies they send: a field is a number or None
  DefaultQuota,  \* the node's quota.default_max_bytes and _max_ops_per_sec
  None

Quotas == [max_bytes : Nat, max_ops_per_sec : Nat]

ASSUME LimitsAssumption ==
  /\ DefaultQuota \in Quotas
  /\ None \notin Nat \cup Quotas
  /\ Bodies \subseteq [max_bytes : Nat \cup {None}, max_ops_per_sec : Nat \cup {None}]

VARIABLES
  cached,        \* QuotaStore.quotas: the tenant's own quota, or None
  stored_quota,  \* the quota record in its metadata, or None
  used,          \* QuotaStore.usage: the counter
  stored_usage,  \* the usage record in its stats, or None
  limiters,      \* the limiters built since start-up, with what they have left
  current,       \* which of them Throttle.limiters holds, 0 for none
  operator       \* what each operator's call has still to do

quotaVars == <<cached, stored_quota>>
usageVars == <<used, stored_usage>>
throttleVars == <<limiters, current>>
limitsVars == <<quotaVars, usageVars, throttleVars, operator>>

NoCall == [step |-> "idle", body |-> None, quota |-> None]

LimitsTypeOK ==
  /\ {cached, stored_quota} \subseteq Quotas \cup {None}
  /\ used \in Nat
  /\ stored_usage \in Nat \cup {None}
  /\ limiters \in Seq([rate : Nat \ {0}, left : Nat])
  /\ \A i \in DOMAIN limiters : limiters[i].left <= limiters[i].rate
  /\ current \in 0..Len(limiters)
  /\ operator \in [Operators -> [step : {"idle", "store", "cache", "uncache"},
                                 body : Bodies \cup {None}, quota : Quotas \cup {None}]]

LimitsInit ==
  /\ cached = None /\ stored_quota = None
  /\ used = 0 /\ stored_usage = None
  /\ limiters = <<>> /\ current = 0
  /\ operator = [o \in Operators |-> NoCall]

-----------------------------------------------------------------------------
(* Quotas *)

\* QuotaStore::quota: the limits in force.
Quota == IF cached = None THEN DefaultQuota ELSE cached

OrElse(field, old) == IF field = None THEN old ELSE field

(* Mutant: fields left out are taken from the node's default. *)
MergeDefault(body, quota) ==
  [max_bytes |-> OrElse(body.max_bytes, DefaultQuota.max_bytes),
   max_ops_per_sec |-> OrElse(body.max_ops_per_sec, DefaultQuota.max_ops_per_sec)]

Merge(body, quota) ==
  [max_bytes |-> OrElse(body.max_bytes, quota.max_bytes),
   max_ops_per_sec |-> OrElse(body.max_ops_per_sec, quota.max_ops_per_sec)]

\* admin set_quota: read and merge, store the record, cache it.
SetQuotaRead(o, body) ==
  /\ operator[o].step = "idle"
  /\ operator' = [operator EXCEPT ![o] = [step |-> "store", body |-> body,
                                          quota |-> Merge(body, Quota)]]
  /\ UNCHANGED <<quotaVars, usageVars, throttleVars>>

SetQuotaStore(o) ==
  /\ operator[o].step = "store"
  /\ stored_quota' = operator[o].quota
  /\ operator' = [operator EXCEPT ![o].step = "cache"]
  /\ UNCHANGED <<cached, usageVars, throttleVars>>

\* The storage call fails: the operator is told, and the cache is left alone.
SetQuotaFails(o) ==
  /\ operator[o].step = "store"
  /\ operator' = [operator EXCEPT ![o] = NoCall]
  /\ UNCHANGED <<quotaVars, usageVars, throttleVars>>

SetQuotaCache(o) ==
  /\ operator[o].step = "cache"
  /\ cached' = operator[o].quota
  /\ operator' = [operator EXCEPT ![o] = NoCall]
  /\ UNCHANGED <<stored_quota, usageVars, throttleVars>>

ClearQuotaStore(o) ==
  /\ operator[o].step = "idle"
  /\ stored_quota' = None
  /\ operator' = [operator EXCEPT ![o].step = "uncache"]
  /\ UNCHANGED <<cached, usageVars, throttleVars>>

ClearQuotaCache(o) ==
  /\ operator[o].step = "uncache"
  /\ cached' = None
  /\ operator' = [operator EXCEPT ![o] = NoCall]
  /\ UNCHANGED <<stored_quota, usageVars, throttleVars>>

(* Mutant: the check looks at what is used, not at what would be. *)
CheckWriteUsed(delta) ==
  Quota.max_bytes = 0 \/ delta <= 0 \/ used <= Quota.max_bytes

\* check_write: only growth past the limit is refused.
CheckWrite(delta) ==
  Quota.max_bytes = 0 \/ delta <= 0 \/ used + delta <= Quota.max_bytes

(* Mutant: the counter goes below zero. *)
AdjustedBelowZero(delta) == used + delta

\* apply_delta: the counter stops at zero.
Adjusted(delta) == IF used + delta < 0 THEN 0 ELSE used + delta

-----------------------------------------------------------------------------
(* The rate limiter *)

\* Throttle::check: a tenant without a rate of its own, or with rate 0, gets
\* the node's default.
RateInForce ==
  IF Quota.max_ops_per_sec > 0 THEN Quota.max_ops_per_sec
  ELSE DefaultQuota.max_ops_per_sec

\* Throttle::entry finds the tenant's limiter, built for this rate.
LimiterFits(rate) == current # 0 /\ limiters[current].rate = rate

InstallLimiter(rate) ==
  /\ limiters' = Append(limiters, [rate |-> rate, left |-> rate])
  /\ current' = Len(limiters')

\* check_n: `cost` operations fit into what is left.
CanCharge(i, cost) == cost <= limiters[i].left

ChargeLimiter(i, cost) ==
  /\ limiters' = [limiters EXCEPT ![i].left = @ - cost]
  /\ UNCHANGED current

RefillLimiters ==
  /\ limiters' = [i \in DOMAIN limiters |-> [limiters[i] EXCEPT !.left = limiters[i].rate]]
  /\ UNCHANGED current

-----------------------------------------------------------------------------
(* Start-up *)

\* open_with_clock: quotas are loaded from storage, usage is rebuilt from the
\* data, and the limiters are gone.  The in-memory backend starts empty, and
\* the log that refills it holds data only.
LimitsRestart(durable, bytes) ==
  /\ stored_quota' = IF durable THEN stored_quota ELSE None
  /\ stored_usage' = IF durable THEN stored_usage ELSE None
  /\ cached' = stored_quota'
  /\ used' = bytes
  /\ limiters' = <<>> /\ current' = 0
  /\ operator' = [o \in Operators |-> NoCall]
=============================================================================
