--------------------------- MODULE LifecycleProofs ---------------------------
(***************************************************************************)
(* Proofs about Lifecycle and the TtlSweeper in it, for any number of       *)
(* writers and keys, any lifetimes and any bounds.                          *)
(*                                                                          *)
(* WakesInTime speaks of the sleep only.  What makes it true is decided     *)
(* before, between the read of the index and the read of the clock: SawDue  *)
(* says that the earliest expiration compute_wakeup has read is still the   *)
(* earliest, or that whoever came before it is about to notify.             *)
(*                                                                          *)
(* CleanExit needs to know who can still write when main syncs: MainOrder   *)
(* says that the server has ended before main waits for anyone else, and    *)
(* that the sweeper has ended before main syncs.                            *)
(***************************************************************************)
EXTENDS Lifecycle, TLAPS, ProofFacts

\* A notification the sweeper has not taken yet.
Notified == permit \/ \E w \in Writers : writer[w].step = "notify"

\* compute_wakeup between its two reads: no expiration is before the one it saw.
SawDue ==
  spc = "read_clock" =>
    /\ seen.at <= now
    /\ \/ Notified
       \/ IF seen.due = None THEN index = {} ELSE \A e \in index : seen.due <= e[1]

\* main waits for the server, then for the sweeper, and only then syncs.
MainOrder ==
  /\ main # "serve" => server \in {"stopped", "failed", "timed_out"}
  /\ main \in {"sync", "synced", "sync_failed", "exited"} => spc = "ended"

WakeInv == TypeOK /\ SawDue /\ WakesInTime
ExitInv == MainOrder /\ CleanExit

-----------------------------------------------------------------------------
(* Building blocks *)

\* next_due_ms is the earliest expiration in the index.
LEMMA NextDueIsEarliest ==
  ASSUME index \in SUBSET (Nat \X Keys), index # {}
  PROVE  /\ NextDue \in Nat
         /\ \E e \in index : NextDue = e[1]
         /\ \A e \in index : NextDue <= e[1]
<1> DEFINE T == {e[1] : e \in index}
<1>1. T \in SUBSET Nat /\ T # {}
  OBVIOUS
<1>2. \E m \in T : \A n \in T : m <= n
  BY <1>1, LeastNumber, Zenon
<1>3. \E m \in T : \A e \in index : m <= e[1]
  BY <1>2
<1>4. NextDue = CHOOSE t \in T : \A e \in index : t <= e[1]
  BY DEF NextDue
<1>5. NextDue \in T /\ \A e \in index : NextDue <= e[1]
  BY <1>3, <1>4, Zenon
<1>6. QED
  BY <1>1, <1>5

\* next_due_ms yields an expiration or None.
LEMMA NextDueType ==
  ASSUME index \in SUBSET (Nat \X Keys)
  PROVE  NextDue \in Expirations
<1>1. CASE index = {}
  BY <1>1 DEF NextDue, Expirations
<1>2. CASE index # {}
  BY <1>2, NextDueIsEarliest DEF Expirations
<1>3. QED
  BY <1>1, <1>2

\* A writer that has nothing to do has the type of a writer.
LEMMA IdleWriterType ==
  IdleWriter \in [step : {"idle", "insert", "notify"}, key : Keys, exp : Nat]
<1>1. (CHOOSE k \in Keys : TRUE) \in Keys
  BY SweeperAssumption, Zenon DEF SweeperAssumption
<1>2. QED
  BY <1>1 DEF IdleWriter

\* The deadline of a sleep is an instant.
LEMMA WakeAtType ==
  ASSUME TypeOK, NEW at \in Nat, NEW due \in Expirations
  PROVE  WakeAt(at, due, Wall) \in Nat
<1> now \in Nat /\ skew \in Nat /\ interval \in Nat
  BY SweeperAssumption DEF TypeOK, SweeperTypeOK, SweeperAssumption
<1>1. CASE due = None
  BY <1>1 DEF WakeAt
<1>2. CASE due \in Nat
  BY <1>2 DEF WakeAt, Wall
<1>3. QED
  BY <1>1, <1>2 DEF Expirations

\* The deadline has come, or is no later than the expiration it is for.
LEMMA WakeAtInTime ==
  ASSUME TypeOK, NEW at \in Nat, at <= now, NEW due \in Nat
  PROVE  \/ WakeAt(at, due, Wall) <= now
         \/ WakeAt(at, due, Wall) + skew <= due
<1> now \in Nat /\ skew \in Nat /\ interval \in Nat /\ due # None
  BY SweeperAssumption DEF TypeOK, SweeperTypeOK, SweeperAssumption
<1>1. QED
  BY DEF WakeAt, Wall

-----------------------------------------------------------------------------
(* Type correctness *)

\* A process that was just started.
LEMMA TypeInit == Init => TypeOK
<1> SUFFICES ASSUME Init PROVE TypeOK
  OBVIOUS
<1> USE SweeperAssumption DEF SweeperAssumption
<1>1. puts \in Nat
  BY DEF Init, SweeperInit
<1>2. SweeperTypeOK
  BY <1>1, IdleWriterType DEF Init, SweeperInit, SweeperTypeOK, Expirations, Unread, EmptyPass
<1>3. QED
  BY <1>2 DEF Init, TypeOK

\* The steps of the servers and of main leave the sweeper alone.
LEMMA TypeServers ==
  ASSUME TypeOK, Servers \/ MainTask \/ CloseStream \/ CloseAdminRequest
  PROVE  TypeOK'
<1>1. UNCHANGED sweeperVars
  BY DEF Servers, MainTask, StartServer, GracefulShutdown, Timeout, StartAdmin, ServeEnded,
         AwaitAdmin, AwaitSweeper, SyncWal, Exit, CloseStream, CloseAdminRequest
<1>2. SweeperTypeOK'
  BY <1>1 DEF TypeOK, SweeperTypeOK, sweeperVars
<1>3. QED
  BY <1>2 DEF TypeOK, Servers, MainTask, StartServer, GracefulShutdown, Timeout, StartAdmin,
              ServeEnded, AwaitAdmin, AwaitSweeper, SyncWal, Exit, CloseStream, CloseAdminRequest

\* A put, the insertion of its expiration and its notification.
LEMMA TypeWriter ==
  ASSUME SweeperTypeOK, NEW w \in Writers,
         WriterStep(w) \/ \E k \in Keys, ttl \in Ttls : Put(w, k, ttl)
  PROVE  SweeperTypeOK'
<1> USE DEF SweeperTypeOK
<1>1. CASE Insert(w)
  BY <1>1, IdleWriterType DEF Insert, IndexWith
<1>2. CASE NotifyOne(w)
  BY <1>2, IdleWriterType DEF NotifyOne
<1>3. ASSUME NEW k \in Keys, NEW ttl \in Ttls, Put(w, k, ttl)
      PROVE  SweeperTypeOK'
  <2>1. Wall + ttl \in Nat
    BY SweeperAssumption DEF SweeperAssumption, Wall
  <2>2. /\ stored' \in [Keys -> Expirations]
        /\ writer' \in [Writers -> [step : {"idle", "insert", "notify"},
                                    key : Keys, exp : Nat]]
    BY <1>3, <2>1 DEF Put, Expirations
  <2>3. puts' \in Nat
    BY <1>3 DEF Put
  <2>4. QED
    BY <1>3, <2>2, <2>3 DEF Put
<1>4. QED
  BY <1>1, <1>2, <1>3 DEF WriterStep

\* The loop of run_sweeper.
LEMMA TypeSweeper ==
  ASSUME TypeOK, RunningSweeper \/ \E k \in Keys : Evict(k) \/ ExamineFails(k)
  PROVE  SweeperTypeOK'
<1> SweeperTypeOK
  BY DEF TypeOK
<1>1. CASE ReadDue
  BY <1>1, NextDueType DEF ReadDue, SweeperTypeOK
<1>2. CASE ReadClock
  <2>1. seen.at \in Nat /\ seen.due \in Expirations
    BY DEF SweeperTypeOK
  <2>2. wake_at' \in Nat
    BY <1>2, <2>1, WakeAtType DEF ReadClock
  <2>3. QED
    BY <1>2, <2>2 DEF ReadClock, SweeperTypeOK, Unread, Expirations
<1>3. CASE SweeperStart
  BY <1>3 DEF SweeperStart, SweeperTypeOK
<1>4. CASE WakeUp
  BY <1>4 DEF WakeUp, SweeperTypeOK
<1>5. CASE Drain
  BY <1>5 DEF Drain, SweeperTypeOK, Due, NotDue, Wall
<1>6. CASE PassDone
  BY <1>6 DEF PassDone, SweeperTypeOK, EmptyPass
<1>7. ASSUME NEW k \in Keys, Keep(k)
      PROVE  SweeperTypeOK'
  <2>1. stored[k] # None => stored[k] \in Nat
    BY DEF SweeperTypeOK, Expirations
  <2>2. index' \in SUBSET (Nat \X Keys)
    BY <1>7, <2>1 DEF Keep, SweeperTypeOK, IndexWith
  <2>3. permit' \in BOOLEAN
    <3>1. permit' = (permit \/ Wakes(stored[k])) \/ permit' = permit
      BY <1>7 DEF Keep
    <3>2. QED
      BY <3>1, Zenon DEF SweeperTypeOK
  <2>4. QED
    BY <1>7, <2>2, <2>3 DEF Keep, SweeperTypeOK
<1>8. ASSUME NEW k \in Keys, Evict(k)
      PROVE  SweeperTypeOK'
  BY <1>8 DEF Evict, SweeperTypeOK, Expirations
<1>9. ASSUME NEW k \in Keys, ExamineFails(k)
      PROVE  SweeperTypeOK'
  BY <1>9 DEF ExamineFails, SweeperTypeOK
<1>10. CASE SweeperListens
  BY <1>10 DEF SweeperListens, SweeperTypeOK
<1>11. QED
  BY <1>1, <1>2, <1>3, <1>4, <1>5, <1>6, <1>7, <1>8, <1>9, <1>10 DEF RunningSweeper

\* Clocks and the signal.
LEMMA TypeEnvironment ==
  ASSUME SweeperTypeOK, SetClock \/ ShutdownSignal \/ Tick
  PROVE  SweeperTypeOK'
<1>1. CASE SetClock
  <2>1. clock_set' = (spc \in {"read_clock", "sleep"})
    BY <1>1 DEF SetClock
  <2>2. clock_set' \in BOOLEAN
    BY <2>1
  <2>3. QED
    BY <1>1, <2>2 DEF SetClock, SweeperTypeOK
<1>2. CASE ShutdownSignal
  BY <1>2 DEF ShutdownSignal, SweeperTypeOK
<1>3. CASE Tick
  BY <1>3 DEF Tick, SweeperTypeOK
<1>4. QED
  BY <1>1, <1>2, <1>3

\* Every step of the process keeps the types.
LEMMA TypeNext ==
  ASSUME TypeOK, [Next]_vars
  PROVE  TypeOK'
<1> SweeperTypeOK
  BY DEF TypeOK
<1>1. CASE SweeperTask
  <2>1. SweeperTypeOK'
    BY <1>1, TypeSweeper DEF SweeperTask
  <2>2. QED
    BY <1>1, <2>1 DEF SweeperTask, TypeOK, lifeVars
<1>2. CASE MainTask \/ Servers \/ CloseStream \/ CloseAdminRequest
  BY <1>2, TypeServers
<1>3. ASSUME NEW w \in Writers, NEW k \in Keys, NEW ttl \in Ttls, StartRequest(w, k, ttl)
      PROVE  TypeOK'
  <2>1. SweeperTypeOK'
    BY <1>3, TypeWriter DEF StartRequest
  <2>2. QED
    BY <1>3, <2>1 DEF StartRequest, TypeOK
<1>4. ASSUME NEW w \in Writers, Handler(w)
      PROVE  TypeOK'
  <2>1. SweeperTypeOK'
    BY <1>4, TypeWriter DEF Handler
  <2>2. QED
    BY <1>4, <2>1 DEF Handler, TypeOK, lifeVars
<1>5. CASE Environment \/ Time
  <2>1. SweeperTypeOK'
    BY <1>5, TypeEnvironment DEF Environment, Time
  <2>2. QED
    BY <1>5, <2>1 DEF Environment, Time, TypeOK, lifeVars
<1>6. CASE Signal
  <2>1. SweeperTypeOK'
    <3>1. CASE ShutdownSignal
      BY <3>1, TypeEnvironment
    <3>2. CASE UNCHANGED sweeperVars
      BY <3>2 DEF sweeperVars, SweeperTypeOK
    <3>3. QED
      BY <1>6, <3>1, <3>2 DEF Signal
  <2>2. QED
    BY <1>6, <2>1 DEF Signal, TypeOK
<1>7. CASE UNCHANGED vars
  BY <1>7 DEF vars, sweeperVars, lifeVars, TypeOK, SweeperTypeOK
<1>8. QED
  BY <1>1, <1>2, <1>3, <1>4, <1>5, <1>6, <1>7 DEF Next, Requests

\* Types hold throughout: the deadline of a sleep is never before the epoch,
\* whatever the wall clock did between the two reads of compute_wakeup.
THEOREM TypeCorrect == Spec => []TypeOK
<1>1. Init => TypeOK
  BY TypeInit
<1>2. TypeOK /\ [Next]_vars => TypeOK'
  BY TypeNext
<1>3. QED
  BY <1>1, <1>2, PTL DEF Spec
-----------------------------------------------------------------------------
(* The sweeper wakes in time *)

\* An expiration that wakes nobody is not before the earliest one.
LEMMA QuietInsert ==
  ASSUME index \in SUBSET (Nat \X Keys), NEW exp \in Nat, ~Wakes(exp)
  PROVE  index # {} /\ \E e \in index : e[1] <= exp
<1>1. NextDue # None /\ ~(exp < NextDue)
  BY DEF Wakes
<1>2. index # {}
  BY <1>1 DEF NextDue
<1>3. QED
  BY <1>1, <1>2, NextDueIsEarliest

\* Steps that touch neither the sweeper's plans nor the index keep it in time;
\* the clock may go on.
LEMMA WakeUndisturbed ==
  ASSUME WakeInv, TypeOK', now' \in Nat, now <= now',
         UNCHANGED <<index, permit, writer, spc, seen, wake_at>>,
         UNCHANGED skew \/ clock_set' \/ spc \notin {"read_clock", "sleep"},
         clock_set => clock_set'
  PROVE  WakeInv'
<1> now \in Nat /\ skew \in Nat /\ wake_at \in Nat /\ seen.at \in Nat
  BY DEF WakeInv, TypeOK, SweeperTypeOK
<1>1. SawDue'
  BY DEF WakeInv, SawDue, Notified
<1>2. WakesInTime'
  BY DEF WakeInv, WakesInTime
<1>3. QED
  BY <1>1, <1>2 DEF WakeInv

\* schedule: the new expiration is covered by the deadline, or its writer
\* goes on to notify.
LEMMA WakeInsert ==
  ASSUME WakeInv, TypeOK', NEW w \in Writers, Insert(w)
  PROVE  WakeInv'
<1> DEFINE exp == writer[w].exp
           k == writer[w].key
<1>1. /\ index \in SUBSET (Nat \X Keys) /\ exp \in Nat /\ k \in Keys
      /\ wake_at \in Nat /\ skew \in Nat /\ seen.due \in Expirations
      /\ writer \in [Writers -> [step : {"idle", "insert", "notify"}, key : Keys, exp : Nat]]
  BY DEF WakeInv, TypeOK, SweeperTypeOK
<1>2. /\ index' = index \cup {<<exp, k>>}
      /\ UNCHANGED <<now, skew, permit, spc, seen, wake_at, clock_set>>
      /\ writer[w].step = "insert"
  BY DEF Insert, IndexWith
<1>3. CASE Wakes(exp)
  <2>1. writer'[w].step = "notify"
    BY <1>1, <1>3 DEF Insert
  <2>2. QED
    BY <1>2, <2>1 DEF WakeInv, SawDue, Notified, WakesInTime
<1>4. CASE ~Wakes(exp)
  <2>1. \A v \in Writers : writer[v].step = "notify" => writer'[v].step = "notify"
    BY <1>1, <1>2 DEF Insert
  <2>2. index # {} /\ \E e \in index : e[1] <= exp
    BY <1>1, <1>4, QuietInsert
  <2>3. ASSUME NEW t \in Nat, \A e \in index : t <= e[1]
        PROVE  \A e \in index' : t <= e[1]
    BY <1>1, <1>2, <2>2, <2>3
  <2>4. SawDue'
    <3>1. SUFFICES ASSUME spc = "read_clock", ~Notified
                   PROVE  IF seen.due = None THEN index' = {}
                          ELSE \A e \in index' : seen.due <= e[1]
      BY <1>2, <2>1 DEF WakeInv, SawDue, Notified
    <3>2. IF seen.due = None THEN index = {} ELSE \A e \in index : seen.due <= e[1]
      BY <3>1 DEF WakeInv, SawDue
    <3>3. QED
      BY <1>1, <2>2, <2>3, <3>2 DEF Expirations
  <2>5. WakesInTime'
    <3>1. wake_at + skew \in Nat
      BY <1>1
    <3>2. (\A e \in index : wake_at + skew <= e[1])
            => \A e \in index' : wake_at + skew <= e[1]
      BY <2>3, <3>1
    <3>3. QED
      BY <1>2, <2>1, <3>2 DEF WakeInv, WakesInTime
  <2>6. QED
    BY <2>4, <2>5 DEF WakeInv
<1>5. QED
  BY <1>3, <1>4

\* compute_wakeup and the sleep.
LEMMA WakeCompute ==
  ASSUME WakeInv, TypeOK', ReadDue \/ ReadClock
  PROVE  WakeInv'
<1>1. /\ index \in SUBSET (Nat \X Keys) /\ now \in Nat /\ skew \in Nat
      /\ seen \in [at : Nat, due : Expirations]
  BY DEF WakeInv, TypeOK, SweeperTypeOK
<1>2. CASE ReadDue
  <2>1. /\ spc' = "read_clock" /\ seen' = [at |-> now, due |-> NextDue]
        /\ UNCHANGED <<index, now, skew>>
    BY <1>2 DEF ReadDue
  <2>2. index # {} => \A e \in index : NextDue <= e[1]
    BY <1>1, NextDueIsEarliest
  <2>3. index # {} => NextDue # None
    BY <1>1, NextDueIsEarliest, SweeperAssumption DEF SweeperAssumption
  <2>4. SawDue'
    BY <1>1, <2>1, <2>2, <2>3 DEF SawDue
  <2>5. QED
    BY <2>1, <2>4 DEF WakeInv, WakesInTime
<1>3. CASE ReadClock
  <2>1. /\ spc = "read_clock" /\ spc' = "sleep"
        /\ wake_at' = WakeAt(seen.at, seen.due, Wall)
        /\ UNCHANGED <<index, now, skew, permit, writer>>
    BY <1>3 DEF ReadClock
  <2>2. SUFFICES ASSUME ~Notified
                 PROVE  \/ wake_at' <= now
                        \/ \A e \in index : wake_at' + skew <= e[1]
    BY <2>1 DEF WakeInv, SawDue, WakesInTime, Notified
  <2>3. /\ seen.at <= now
        /\ IF seen.due = None THEN index = {} ELSE \A e \in index : seen.due <= e[1]
    BY <2>1, <2>2 DEF WakeInv, SawDue
  <2>4. CASE seen.due = None
    BY <2>3, <2>4
  <2>5. CASE seen.due \in Nat
    <3>1. wake_at' <= now \/ wake_at' + skew <= seen.due
      BY <1>1, <2>1, <2>3, <2>5, WakeAtInTime DEF WakeInv
    <3>2. wake_at' \in Nat /\ seen.due # None
      BY <2>5, SweeperAssumption DEF TypeOK, SweeperTypeOK, SweeperAssumption
    <3>3. QED
      BY <1>1, <2>3, <2>5, <3>1, <3>2
  <2>6. QED
    BY <1>1, <2>4, <2>5 DEF Expirations
<1>4. QED
  BY <1>2, <1>3

\* The rest of run_sweeper ends awake.
LEMMA WakeSweeper ==
  ASSUME WakeInv, TypeOK', RunningSweeper \/ \E k \in Keys : Evict(k) \/ ExamineFails(k)
  PROVE  WakeInv'
<1>1. CASE ReadDue \/ ReadClock
  BY <1>1, WakeCompute
<1>2. CASE SweeperListens
  <2>1. now \in Nat /\ now' \in Nat
    BY DEF WakeInv, TypeOK, SweeperTypeOK
  <2>2. QED
    BY <1>2, <2>1, WakeUndisturbed DEF SweeperListens
<1>3. CASE \/ SweeperStart \/ WakeUp \/ Drain \/ PassDone
           \/ \E k \in Keys : Keep(k) \/ Evict(k) \/ ExamineFails(k)
  <2>1. spc' \notin {"read_clock", "sleep"}
    BY <1>3 DEF SweeperStart, WakeUp, Drain, PassDone, Keep, Evict, ExamineFails
  <2>2. QED
    BY <2>1 DEF WakeInv, SawDue, WakesInTime
<1>4. QED
  BY <1>1, <1>2, <1>3 DEF RunningSweeper

\* The conjunction is inductive.
LEMMA WakeNext ==
  ASSUME WakeInv, [Next]_vars
  PROVE  WakeInv'
<1>1. TypeOK'
  BY TypeNext DEF WakeInv
<1>2. now \in Nat /\ now' \in Nat
  BY <1>1 DEF WakeInv, TypeOK, SweeperTypeOK
<1>3. CASE SweeperTask
  BY <1>1, <1>3, WakeSweeper DEF SweeperTask
<1>4. CASE MainTask \/ Servers \/ CloseStream \/ CloseAdminRequest \/ UNCHANGED vars
  <2>1. UNCHANGED sweeperVars
    BY <1>4 DEF Servers, MainTask, StartServer, GracefulShutdown, Timeout, StartAdmin,
                ServeEnded, AwaitAdmin, AwaitSweeper, SyncWal, Exit, CloseStream,
                CloseAdminRequest, vars
  <2>2. QED
    BY <1>1, <1>2, <2>1, WakeUndisturbed DEF sweeperVars
<1>5. ASSUME NEW w \in Writers, NEW k \in Keys, NEW ttl \in Ttls, StartRequest(w, k, ttl)
      PROVE  WakeInv'
  <2>1. /\ UNCHANGED <<now, skew, index, permit, spc, seen, wake_at, clock_set>>
        /\ writer[w].step = "idle"
        /\ \A v \in Writers \ {w} : writer'[v] = writer[v]
    BY <1>5 DEF StartRequest, Put, WakeInv, TypeOK, SweeperTypeOK
  <2>2. QED
    BY <1>1, <2>1 DEF WakeInv, SawDue, Notified, WakesInTime
<1>6. ASSUME NEW w \in Writers, Handler(w)
      PROVE  WakeInv'
  <2>1. CASE Insert(w)
    BY <1>1, <2>1, WakeInsert
  <2>2. CASE NotifyOne(w)
    BY <1>1, <2>2 DEF NotifyOne, WakeInv, SawDue, Notified, WakesInTime
  <2>3. QED
    BY <1>6, <2>1, <2>2 DEF Handler, WriterStep
<1>7. CASE Environment \/ Time
  <2>1. CASE SetClock
    BY <1>1, <2>1 DEF SetClock, WakeInv, SawDue, Notified, WakesInTime
  <2>2. CASE Tick
    <3>1. now <= now'
      BY <1>2, <2>2 DEF Tick
    <3>2. QED
      BY <1>1, <1>2, <2>2, <3>1, WakeUndisturbed DEF Tick
  <2>3. QED
    BY <1>7, <2>1, <2>2 DEF Environment, Time
<1>8. CASE Signal
  <2>1. UNCHANGED <<now, skew, index, permit, writer, spc, seen, wake_at, clock_set>>
    BY <1>8 DEF Signal, ShutdownSignal, sweeperVars
  <2>2. QED
    BY <1>1, <1>2, <2>1, WakeUndisturbed
<1>9. QED
  BY <1>3, <1>4, <1>5, <1>6, <1>7, <1>8 DEF Next, Requests

\* The sweeper never sleeps past an expiration it was not told of, whatever
\* writers insert between its read of the index and its sleep.
THEOREM WakesInTimeAlways == Spec => []WakesInTime
<1>1. Init => WakeInv
  BY TypeInit DEF Init, SweeperInit, WakeInv, SawDue, WakesInTime
<1>2. WakeInv /\ [Next]_vars => WakeInv'
  BY WakeNext
<1>3. WakeInv => WakesInTime
  BY DEF WakeInv
<1>4. QED
  BY <1>1, <1>2, <1>3, PTL DEF Spec

-----------------------------------------------------------------------------
(* A clean exit *)

\* Who still runs when main syncs, and what that means for the log.
LEMMA ExitNext ==
  ASSUME ExitInv, [Next]_vars
  PROVE  ExitInv'
<1> USE DEF ExitInv, MainOrder, CleanExit
<1>1. CASE MainTask
  BY <1>1 DEF MainTask, ServeEnded, AwaitAdmin, AwaitSweeper, SweeperJoined, SyncWal, Exit,
              sweeperVars
<1>2. CASE Servers
  BY <1>2 DEF Servers, StartServer, GracefulShutdown, Timeout, StartAdmin, sweeperVars
<1>3. CASE SweeperTask
  <2>1. spc # "ended"
    BY <1>3 DEF SweeperTask, RunningSweeper, SweeperStart, ReadDue, ReadClock, WakeUp, Drain,
                PassDone, Keep, Evict, ExamineFails, SweeperListens
  <2>2. main' = main /\ server' = server
    BY <1>3 DEF SweeperTask, lifeVars
  <2>3. QED
    BY <2>1, <2>2
<1>4. CASE Requests
  <2>1. UNCHANGED <<spc, server, main>> /\ (dirty' # dirty => server = "serving")
    BY <1>4 DEF Requests, StartRequest, Put, CloseStream, CloseAdminRequest, sweeperVars
  <2>2. QED
    BY <2>1
<1>5. CASE Environment \/ Time \/ \E w \in Writers : Handler(w)
  <2>1. UNCHANGED <<spc, server, main, dirty>>
    BY <1>5 DEF Environment, Time, Handler, SetClock, Tick, WriterStep, Insert,
                NotifyOne, lifeVars
  <2>2. QED
    BY <2>1
<1>6. CASE Signal
  BY <1>6 DEF Signal, ShutdownSignal, sweeperVars
<1>7. CASE UNCHANGED vars
  BY <1>7 DEF vars, sweeperVars, lifeVars
<1>8. QED
  BY <1>1, <1>2, <1>3, <1>4, <1>5, <1>6, <1>7 DEF Next

\* A process that synced its log and was not cut off leaves nothing unsynced
\* behind.
THEOREM ExitsClean == Spec => []CleanExit
<1>1. Init => ExitInv
  BY DEF Init, ExitInv, MainOrder, CleanExit
<1>2. ExitInv /\ [Next]_vars => ExitInv'
  BY ExitNext
<1>3. ExitInv => CleanExit
  BY DEF ExitInv
<1>4. QED
  BY <1>1, <1>2, <1>3, PTL DEF Spec
=============================================================================
