------------------------------ MODULE Lifecycle ------------------------------
(***************************************************************************)
(* The life of a node process (ferriskv-node, main.rs): the gRPC server,    *)
(* the admin server and the TTL sweeper run until a shutdown signal, and    *)
(* main then waits for each of them and syncs the log.  The server's future *)
(* is wrapped in a timeout.  The sweeper is the one of TtlSweeper.          *)
(*                                                                          *)
(* tonic and axum are external: a server that shuts down gracefully stops   *)
(* taking requests and ends when the last open one does.  A Watch stream is *)
(* a request that ends only when its client leaves, and an admin request    *)
(* lasts as long as its client takes to send it and to read the answer.     *)
(*                                                                          *)
(* Each of the three tasks has its own shutdown future, and installs its    *)
(* listener when that future is first polled, a server when it has bound    *)
(* its address: a signal before is not seen by that task.  A signal before  *)
(* any listener is installed kills the process, which is a crash and not a  *)
(* shutdown.                                                                *)
(***************************************************************************)
EXTENDS TtlSweeper

CONSTANTS
  ServeTimeout,  \* shutdown_timeout_secs + 5
  Setups         \* pairs to try: the number of writes, and whether
                 \* admin_listen is set

ASSUME LifecycleAssumption ==
  /\ ServeTimeout \in 1..Horizon
  /\ Setups \subseteq (0..MaxPuts) \X BOOLEAN

VARIABLES
  server,   \* the gRPC server
  watching, \* a Watch stream is open and the server waits for it
  admin,    \* the admin server's task
  main,     \* where main is
  dirty,    \* the log holds a record that was not synced
  signalled \* a task has received a signal (an observation for the properties)

lifeVars == <<server, watching, admin, main, dirty, signalled>>
vars == <<sweeperVars, lifeVars>>

TypeOK ==
  /\ SweeperTypeOK
  /\ server \in {"starting", "serving", "draining", "stopped", "failed", "timed_out"}
  /\ watching \in BOOLEAN
  /\ admin \in {"off", "starting", "serving", "draining", "ended"}
  /\ main \in {"serve", "await_admin", "await_sweeper", "sync", "synced",
              "sync_failed", "exited"}
  /\ dirty \in BOOLEAN
  /\ signalled \in BOOLEAN

Init ==
  /\ SweeperInit
  /\ server = "starting"
  /\ watching = FALSE
  /\ \E setup \in Setups : /\ puts = setup[1]
                            /\ admin = IF setup[2] THEN "starting" ELSE "off"
  /\ main = "serve"
  /\ dirty = FALSE
  /\ signalled = FALSE

-----------------------------------------------------------------------------
(* The servers *)

\* The server binds its address, or its future ends with an error.
StartServer ==
  /\ server = "starting"
  /\ server' \in {"serving", "failed"}
  /\ UNCHANGED <<sweeperVars, watching, admin, main, dirty, signalled>>

StartRequest(w, k, ttl) ==
  /\ server = "serving"
  /\ Put(w, k, ttl)
  /\ dirty' = TRUE
  /\ UNCHANGED <<server, watching, admin, main, signalled>>

CloseStream ==
  /\ watching
  /\ watching' = FALSE
  /\ UNCHANGED <<sweeperVars, server, admin, main, dirty, signalled>>

\* serve_with_shutdown after the signal: no new request, then no open one.
Idle == ~watching /\ \A w \in Writers : writer[w].step = "idle"

GracefulShutdown ==
  /\ server = "draining" /\ Idle
  /\ server' = "stopped"
  /\ UNCHANGED <<sweeperVars, watching, admin, main, dirty, signalled>>

(* Mutant: nothing bounds the time the server takes to drain. *)
TimeoutNever == FALSE

\* The timer of the timeout around the server's future runs from the start.
TimeoutDue == now >= ServeTimeout

\* The future is dropped; requests that are open go on in their own tasks.  Its
\* first poll binds the address, and comes before the timer is looked at.
Timeout ==
  /\ server \in {"serving", "draining"}
  /\ TimeoutDue
  /\ server' = "timed_out"
  /\ watching' = FALSE
  /\ UNCHANGED <<sweeperVars, admin, main, dirty, signalled>>

\* admin::serve binds its address, or its task ends.
StartAdmin ==
  /\ admin = "starting"
  /\ admin' \in {"serving", "ended"}
  /\ UNCHANGED <<sweeperVars, server, watching, main, dirty, signalled>>

\* with_graceful_shutdown: the client of the request it waits for is done.
\* Nothing bounds the time that takes.
CloseAdminRequest ==
  /\ admin = "draining"
  /\ admin' = "ended"
  /\ UNCHANGED <<sweeperVars, server, watching, main, dirty, signalled>>

\* SIGINT or SIGTERM: every task that listens by then receives it, and a
\* server takes no new request from then on.  A stream or an admin request may
\* be open then; one that ended before leaves no trace.
Signal ==
  /\ shutdown = "listening" \/ server = "serving" \/ admin = "serving"
  /\ ShutdownSignal \/ (shutdown # "listening" /\ UNCHANGED sweeperVars)
  /\ \/ server = "serving" /\ server' = "draining" /\ watching' \in BOOLEAN
     \/ server # "serving" /\ UNCHANGED <<server, watching>>
  /\ \/ admin = "serving" /\ admin' \in {"draining", "ended"}
     \/ admin # "serving" /\ UNCHANGED admin
  /\ signalled' = TRUE
  /\ UNCHANGED <<main, dirty>>

-----------------------------------------------------------------------------
(* main *)

ServeEnded ==
  /\ main = "serve"
  /\ server \in {"stopped", "failed", "timed_out"}
  /\ main' = "await_admin"
  /\ UNCHANGED <<sweeperVars, server, watching, admin, dirty, signalled>>

AwaitAdmin ==
  /\ main = "await_admin"
  /\ admin \in {"off", "ended"}
  /\ main' = "await_sweeper"
  /\ UNCHANGED <<sweeperVars, server, watching, admin, dirty, signalled>>

(* Mutant: the sweeper's task is not awaited. *)
SweeperDetached == TRUE

SweeperJoined == spc = "ended"

AwaitSweeper ==
  /\ main = "await_sweeper"
  /\ SweeperJoined
  /\ main' = "sync"
  /\ UNCHANGED <<sweeperVars, server, watching, admin, dirty, signalled>>

\* wal.sync, whose failure is only reported.
SyncWal ==
  /\ main = "sync"
  /\ \/ main' = "synced" /\ dirty' = FALSE
     \/ main' = "sync_failed" /\ UNCHANGED dirty
  /\ UNCHANGED <<sweeperVars, server, watching, admin, signalled>>

\* main returns, and the runtime ends with every task it still has.
Exit ==
  /\ main \in {"synced", "sync_failed"}
  /\ main' = "exited"
  /\ UNCHANGED <<sweeperVars, server, watching, admin, dirty, signalled>>

-----------------------------------------------------------------------------

RunningSweeper ==
  \/ SweeperStart \/ ReadDue \/ ReadClock \/ SweeperListens \/ WakeUp \/ Drain \/ PassDone
  \/ \E k \in Keys : Keep(k)

\* An eviction appends a record, one that fails may have.
SweeperTask ==
  \/ RunningSweeper /\ UNCHANGED lifeVars
  \/ /\ \E k \in Keys : \/ Evict(k) /\ dirty' = TRUE
                        \/ ExamineFails(k) /\ dirty' \in {dirty, TRUE}
     /\ UNCHANGED <<server, watching, admin, main, signalled>>

MainTask == ServeEnded \/ AwaitAdmin \/ AwaitSweeper \/ SyncWal \/ Exit

Servers == StartServer \/ GracefulShutdown \/ Timeout \/ StartAdmin

Requests ==
  \/ \E w \in Writers, k \in Keys, ttl \in Ttls : StartRequest(w, k, ttl)
  \/ CloseStream
  \/ CloseAdminRequest

Environment == SetClock /\ UNCHANGED lifeVars

Handler(w) == WriterStep(w) /\ UNCHANGED lifeVars
Time == Tick /\ UNCHANGED lifeVars

Next ==
  \/ main # "exited" /\ \/ SweeperTask
                        \/ MainTask
                        \/ Servers
                        \/ Requests
                        \/ Environment
                        \/ Signal
                        \/ \E w \in Writers : Handler(w)
                        \/ Time

\* The runtime polls every task that is ready, and time passes.  Nothing makes
\* a client send a request or leave, or the host signal or set its clock.
Fairness ==
  /\ WF_vars(SweeperTask)
  /\ WF_vars(MainTask)
  /\ WF_vars(Servers)
  /\ \A w \in Writers : WF_vars(Handler(w))
  /\ WF_vars(Time)

Spec == Init /\ [][Next]_vars /\ Fairness

-----------------------------------------------------------------------------
(* Properties *)

\* The two tasks that main awaits without a timeout have received a signal or
\* have ended, and no admin request is open.
Told ==
  /\ shutdown = "received" \/ spc = "ended"
  /\ admin \in {"off", "ended"}

\* README.md:75: shutdown "handles SIGINT and SIGTERM, drains in-flight
\* requests, and flushes the WAL before exiting".  Once the signal has reached
\* the sweeper and the admin server the process exits, although a Watch stream
\* never ends by itself, the sweeper may be in a pass and the signal may have
\* come before the gRPC server listened for it.  Two exceptions, which the code
\* has: a signal that came before one of the two listened, and an admin request
\* that its client keeps open, make main wait without end (main.rs:169-177).
ShutdownCompletes == Told ~> main = "exited"

\* From the last sync to the end of the process nothing is written to the log,
\* by a request or by an eviction, unless the server was cut off by its
\* timeout: main waits for everyone who writes before it syncs.
CleanExit == main = "synced" /\ server # "timed_out" => ~dirty

\* main.rs:166 reports the end of the timeout as "shutdown exceeded timeout,
\* forcing exit": the server is cut off only when a shutdown is under way.
ServesUntilSignal == server = "timed_out" => signalled
=============================================================================
