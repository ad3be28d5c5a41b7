----------------------------- MODULE TtlSweeper -----------------------------
(***************************************************************************)
(* When the TTL sweeper of a node wakes up (ferriskv-node, ttl.rs): the     *)
(* index of expirations, the notification a new earliest expiration sends,  *)
(* and the loop of run_sweeper, which sleeps until a deadline computed from *)
(* an index that writers go on changing.                                    *)
(*                                                                          *)
(* The sleep is measured on the monotonic clock (now), expirations on the   *)
(* wall clock (Wall), which the host may set forward.  Abstracted: a stored *)
(* entry is its expiration, a put without a TTL and a delete leave None.    *)
(* NodeService has the steps inside a write and an eviction; here a write   *)
(* is the storage call, the insertion into the index and the notification,  *)
(* and an eviction is one step.  A key due under two expirations is         *)
(* examined once.                                                           *)
(***************************************************************************)
EXTENDS Integers, FiniteSets

CONSTANTS
  Writers,    \* request handlers
  Keys,
  Ttls,       \* ttl_ms of the puts; 0 asks for no expiration
  Intervals,  \* ttl_sweep_interval_secs; 0 disables the sweeper
  MaxPuts,    \* bound on the writes
  MaxSkew,    \* bound on how far the wall clock is set forward
  LastPut,    \* no write starts after this instant
  Horizon,    \* the clock stops here, after every expiration and a full sleep
  None        \* no expiration

ASSUME SweeperAssumption ==
  /\ Keys # {}
  /\ Ttls \subseteq Nat
  /\ Intervals \subseteq Nat
  /\ {MaxPuts, MaxSkew, LastPut, Horizon} \subseteq Nat
  /\ None \notin Nat
  /\ \A ttl \in Ttls, i \in Intervals : LastPut + MaxSkew + ttl + i <= Horizon

VARIABLES
  now,       \* Instant::now()
  skew,      \* wall clock minus monotonic clock
  stored,    \* the expiration of each stored entry, or None
  index,     \* TtlIndex.by_expiry as <<expiration, key>> pairs
  permit,    \* the permit of TtlIndex.notify
  writer,    \* step and arguments of each writer
  puts,      \* writes left
  interval,  \* fallback_interval
  shutdown,  \* the sweeper's shutdown future: it receives signals from its
             \* first poll on
  spc,       \* where run_sweeper is
  seen,      \* compute_wakeup: the instant it read and the earliest expiration
  wake_at,   \* the deadline of the sleep
  pass,      \* sweep_once: its now_ms and the keys left to examine
  clock_set, \* the wall clock was set since compute_wakeup began
  missed     \* keys drained from the index, not evicted for an error, and in
             \* the index under no other expiration

\* clock_set and missed are observations for the properties.
sweeperVars == <<now, skew, stored, index, permit, writer, puts, interval, shutdown,
                 spc, seen, wake_at, pass, clock_set, missed>>

Wall == now + skew
Expirations == Nat \cup {None}
IdleWriter == [step |-> "idle", key |-> CHOOSE k \in Keys : TRUE, exp |-> 0]
EmptyPass == [now |-> 0, keys |-> {}]
Unread == [at |-> 0, due |-> None]

SweeperTypeOK ==
  /\ now \in Nat /\ skew \in Nat
  /\ stored \in [Keys -> Expirations]
  /\ index \in SUBSET (Nat \X Keys)
  /\ permit \in BOOLEAN
  /\ writer \in [Writers -> [step : {"idle", "insert", "notify"},
                             key : Keys, exp : Nat]]
  /\ puts \in Nat
  /\ interval \in Intervals
  /\ shutdown \in {"unpolled", "listening", "received"}
  /\ spc \in {"start", "read_due", "read_clock", "sleep", "drain", "examine", "ended"}
  /\ seen \in [at : Nat, due : Expirations]
  /\ wake_at \in Nat
  /\ pass \in [now : Nat, keys : SUBSET Keys]
  /\ clock_set \in BOOLEAN
  /\ missed \in SUBSET Keys

SweeperInit ==
  /\ now = 0 /\ skew = 0
  /\ stored = [k \in Keys |-> None]
  /\ index = {}
  /\ permit = FALSE
  /\ writer = [w \in Writers |-> IdleWriter]
  /\ puts \in 0..MaxPuts
  /\ interval \in Intervals
  /\ shutdown = "unpolled"
  /\ spc = "start"
  /\ seen = Unread
  /\ wake_at = 0
  /\ pass = EmptyPass
  /\ clock_set = FALSE
  /\ missed = {}

-----------------------------------------------------------------------------
(* TtlIndex *)

\* next_due_ms.
NextDue == IF index = {} THEN None
           ELSE CHOOSE t \in {e[1] : e \in index} : \A e \in index : t <= e[1]

(* Mutant: the sweeper is notified only of the first expiration. *)
WakesIfEmpty(exp) == index = {}

\* schedule: a new earliest expiration wakes the sweeper.
Wakes(exp) == NextDue = None \/ exp < NextDue

IndexWith(k, exp) == index \cup {<<exp, k>>}

\* drain_due: what it hands out, ...
Due(t) == {e \in index : e[1] <= t}

(* Mutant: a bucket is popped before its expiration is compared. *)
PopThenCompare(t) ==
  LET rest == index \ Due(t)
  IN {e \in rest : \E f \in rest : f[1] < e[1]}

\* ... and what stays in the index.
NotDue(t) == index \ Due(t)

-----------------------------------------------------------------------------
(* Writers *)

\* The storage call of a put; only one with a TTL goes on to schedule.
Put(w, k, ttl) ==
  /\ writer[w].step = "idle"
  /\ puts > 0 /\ now <= LastPut
  /\ puts' = puts - 1
  /\ IF ttl > 0
     THEN /\ stored' = [stored EXCEPT ![k] = Wall + ttl]
          /\ writer' = [writer EXCEPT
                ![w] = [step |-> "insert", key |-> k, exp |-> Wall + ttl]]
     ELSE /\ stored' = [stored EXCEPT ![k] = None]
          /\ UNCHANGED writer
  /\ UNCHANGED <<now, skew, index, permit, interval, shutdown, spc, seen, wake_at, pass,
                 clock_set, missed>>

\* schedule under the lock of the index.
Insert(w) ==
  LET k == writer[w].key
      exp == writer[w].exp
  IN /\ writer[w].step = "insert"
     /\ index' = IndexWith(k, exp)
     /\ writer' = [writer EXCEPT
          ![w] = IF Wakes(exp) THEN [@ EXCEPT !.step = "notify"] ELSE IdleWriter]
     /\ missed' = missed \ {k}
     /\ UNCHANGED <<now, skew, stored, permit, puts, interval, shutdown, spc, seen,
                    wake_at, pass, clock_set>>

\* notify_one, after the lock is released.
NotifyOne(w) ==
  /\ writer[w].step = "notify"
  /\ permit' = TRUE
  /\ writer' = [writer EXCEPT ![w] = IdleWriter]
  /\ UNCHANGED <<now, skew, stored, index, puts, interval, shutdown, spc, seen, wake_at,
                 pass, clock_set, missed>>

-----------------------------------------------------------------------------
(* run_sweeper *)

SweeperStart ==
  /\ spc = "start"
  /\ spc' = IF interval = 0 THEN "ended" ELSE "read_due"
  /\ UNCHANGED <<now, skew, stored, index, permit, writer, puts, interval, shutdown,
                 seen, wake_at, pass, clock_set, missed>>

\* compute_wakeup reads the instant and the index ...
ReadDue ==
  /\ spc = "read_due"
  /\ seen' = [at |-> now, due |-> NextDue]
  /\ spc' = "read_clock"
  /\ UNCHANGED <<now, skew, stored, index, permit, writer, puts, interval, shutdown,
                 wake_at, pass, clock_set, missed>>

(* Mutant: the subtraction is done without the comparison before it. *)
WakeAtUnguarded(at, due, wall) ==
  IF due # None /\ due - wall < interval THEN at + (due - wall) ELSE at + interval

\* ... and the wall clock, to turn an expiration into an instant.
WakeAt(at, due, wall) ==
  IF due = None THEN at + interval
  ELSE IF due <= wall THEN at
  ELSE IF due - wall < interval THEN at + (due - wall) ELSE at + interval

ReadClock ==
  /\ spc = "read_clock"
  /\ wake_at' = WakeAt(seen.at, seen.due, Wall)
  /\ seen' = Unread
  /\ spc' = "sleep"
  /\ UNCHANGED <<now, skew, stored, index, permit, writer, puts, interval, shutdown, pass,
                 clock_set, missed>>

\* The select polls its branches in any order, until one is ready: the shutdown
\* future may see its first poll long after the sweeper has started.
SweeperListens ==
  /\ spc = "sleep" /\ shutdown = "unpolled"
  /\ shutdown' = "listening"
  /\ UNCHANGED <<now, skew, stored, index, permit, writer, puts, interval, spc, seen,
                 wake_at, pass, clock_set, missed>>

\* The three branches of the select: the sleep ends, a permit is there, the
\* node shuts down.
WakeUp ==
  /\ spc = "sleep"
  /\ \/ now >= wake_at /\ spc' = "drain" /\ UNCHANGED permit
     \/ permit /\ permit' = FALSE /\ spc' = "drain"
     \/ shutdown = "received" /\ spc' = "ended" /\ UNCHANGED permit
  /\ wake_at' = 0
  /\ clock_set' = FALSE
  /\ UNCHANGED <<now, skew, stored, index, writer, puts, interval, shutdown, seen, pass,
                 missed>>

Drain ==
  /\ spc = "drain"
  /\ pass' = [now |-> Wall, keys |-> {e[2] : e \in Due(Wall)}]
  /\ index' = NotDue(Wall)
  /\ spc' = "examine"
  /\ UNCHANGED <<now, skew, stored, permit, writer, puts, interval, shutdown, seen,
                 wake_at, clock_set, missed>>

IsExpired(k) == stored[k] # None /\ stored[k] <= pass.now

\* sweep_once on one key: evict it, or ...
Evict(k) ==
  /\ spc = "examine" /\ k \in pass.keys
  /\ IsExpired(k)
  /\ stored' = [stored EXCEPT ![k] = None]
  /\ pass' = [pass EXCEPT !.keys = @ \ {k}]
  /\ UNCHANGED <<now, skew, index, permit, writer, puts, interval, shutdown, spc, seen,
                 wake_at, clock_set, missed>>

\* ... schedule it again under the expiration it has now, or forget it.
Keep(k) ==
  /\ spc = "examine" /\ k \in pass.keys
  /\ ~IsExpired(k)
  /\ IF stored[k] # None
     THEN /\ index' = IndexWith(k, stored[k])
          /\ permit' = (permit \/ Wakes(stored[k]))
     ELSE UNCHANGED <<index, permit>>
  /\ pass' = [pass EXCEPT !.keys = @ \ {k}]
  /\ UNCHANGED <<now, skew, stored, writer, puts, interval, shutdown, spc, seen, wake_at,
                 clock_set, missed>>

\* The get fails, or the delete of an expired key: the key was drained and is
\* not scheduled again.
ExamineFails(k) ==
  /\ spc = "examine" /\ k \in pass.keys
  /\ missed' = IF \E e \in index : e[2] = k THEN missed ELSE missed \cup {k}
  /\ pass' = [pass EXCEPT !.keys = @ \ {k}]
  /\ UNCHANGED <<now, skew, stored, index, permit, writer, puts, interval, shutdown, spc,
                 seen, wake_at, clock_set>>

PassDone ==
  /\ spc = "examine" /\ pass.keys = {}
  /\ pass' = EmptyPass
  /\ spc' = "read_due"
  /\ UNCHANGED <<now, skew, stored, index, permit, writer, puts, interval, shutdown, seen,
                 wake_at, clock_set, missed>>

-----------------------------------------------------------------------------
(* Clocks and shutdown *)

Tick ==
  /\ now < Horizon
  /\ now' = now + 1
  /\ UNCHANGED <<skew, stored, index, permit, writer, puts, interval, shutdown, spc, seen,
                 wake_at, pass, clock_set, missed>>

\* The host sets the wall clock forward.
SetClock ==
  /\ skew < MaxSkew
  /\ skew' = skew + 1
  /\ clock_set' = (spc \in {"read_clock", "sleep"})
  /\ UNCHANGED <<now, stored, index, permit, writer, puts, interval, shutdown, spc, seen,
                 wake_at, pass, missed>>

\* SIGINT or SIGTERM, once the future listens for it; the second one changes
\* nothing.
ShutdownSignal ==
  /\ shutdown = "listening"
  /\ shutdown' = "received"
  /\ UNCHANGED <<now, skew, stored, index, permit, writer, puts, interval, spc, seen,
                 wake_at, pass, clock_set, missed>>

WriterStep(w) == Insert(w) \/ NotifyOne(w)

SweeperStep ==
  \/ SweeperStart
  \/ ReadDue
  \/ ReadClock
  \/ SweeperListens
  \/ WakeUp
  \/ Drain
  \/ \E k \in Keys : Evict(k) \/ Keep(k) \/ ExamineFails(k)
  \/ PassDone

-----------------------------------------------------------------------------
(* Properties *)

\* README.md:180: the sweeper "wakes exactly when the next key is due".  While
\* it sleeps no indexed expiration is missed: each one is at or after the
\* deadline of the sleep, or the deadline has passed, or a notification is on
\* its way (the permit, or a writer that has released the lock and not yet
\* called notify_one).  compute_wakeup uses an index that writers change before
\* the sleep starts.  Only a wall clock set in between may make it late.
WakesInTime ==
  spc = "sleep" /\ ~clock_set =>
    \/ permit
    \/ \E w \in Writers : writer[w].step = "notify"
    \/ wake_at <= now
    \/ \A e \in index : wake_at + skew <= e[1]

\* An expired entry does not stay: it is evicted or replaced, whoever wrote it
\* while the sweeper computed its deadline and however the wall clock was set.
\* The exceptions: the sweeper was disabled (interval 0) or has shut down, or
\* the call that should have evicted the entry failed (ttl.rs:182, 194), which
\* leaves it in no index until the key is written again or the node restarts.
EventuallyEvicted ==
  \A k \in Keys :
    stored[k] # None /\ stored[k] <= Wall
      ~> (stored[k] = None \/ stored[k] > Wall \/ spc = "ended" \/ k \in missed)
=============================================================================
