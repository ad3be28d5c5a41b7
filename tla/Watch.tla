-------------------------------- MODULE Watch --------------------------------
(***************************************************************************)
(* Change notification for one tenant (ferriskv-node): the hub (watch.rs),  *)
(* the end of a write that announces it (service.rs, publish_change), the   *)
(* stream that hands events to a client (grpc.rs, watch_stream), and a      *)
(* client that subscribes, then scans, then applies what it is sent.        *)
(*                                                                          *)
(* The map of channels is locked during one lookup, not from one lookup to  *)
(* the next: the test whether anyone listens, the publication and the       *)
(* removal of an abandoned channel are separate steps of a writer.  Writes  *)
(* to one key do not overlap here (NodeService has those that do).          *)
(* tokio's broadcast channel is external: a ring of Capacity events in      *)
(* which a receiver that falls behind loses the oldest and is told.         *)
(***************************************************************************)
EXTENDS Integers, Sequences, FiniteSets

CONSTANTS
  Keys,
  Prefix,       \* the keys that start with the prefix the clients watch
  Values,
  Subscribers,
  Capacity,     \* watch_buffer
  Heartbeat,    \* watch_heartbeat_secs, in ticks
  None          \* no value

ASSUME WatchAssumption ==
  /\ Prefix \subseteq Keys
  /\ Capacity \in Nat \ {0, 1}
  /\ Heartbeat \in Nat \ {0}
  /\ None \notin Values

VARIABLES
  store,   \* what a scan returns
  writer,  \* the step of the write to each key, if there is one
  entry,   \* the tenant has a channel in WatchHub.channels
  sub      \* each client: its stream, its receiver and its copy of the keys

vars == <<store, writer, entry, sub>>

Contents == Values \cup {None}
Events == [key : Keys, value : Contents]
Opened == {"subscribed", "streaming"}
Closings == {"away", "ended_lagged", "ended_closed"}

\* attached: the receiver is on the channel that `entry` stands for
\* queue, missed: the events not received, and whether some were overwritten
\* beat: ticks until next_beat; silent: ticks without an item on the stream
Streams == [step : Opened \cup Closings, attached : BOOLEAN, queue : Seq(Events),
            missed : BOOLEAN, view : [Prefix -> Contents], beat : 0..Heartbeat,
            silent : 0..Heartbeat]

TypeOK ==
  /\ store \in [Keys -> Contents]
  /\ writer \in [Keys -> {"idle", "announce", "publish", "remove"}]
  /\ entry \in BOOLEAN
  /\ sub \in [Subscribers -> Streams]
  /\ \A s \in Subscribers : Len(sub[s].queue) <= Capacity

Away(step) == [step |-> step, attached |-> FALSE, queue |-> <<>>, missed |-> FALSE,
               view |-> [k \in Prefix |-> None], beat |-> 0, silent |-> 0]

Init ==
  /\ store = [k \in Keys |-> None]
  /\ writer = [k \in Keys |-> "idle"]
  /\ entry = FALSE
  /\ sub = [s \in Subscribers |-> Away("away")]

-----------------------------------------------------------------------------
(* A write, from storage on *)

Receivers == {s \in Subscribers : sub[s].attached}

Write(k) ==
  /\ writer[k] = "idle"
  /\ \E v \in Contents \ {store[k]} : store' = [store EXCEPT ![k] = v]
  /\ writer' = [writer EXCEPT ![k] = "announce"]
  /\ UNCHANGED <<entry, sub>>

\* is_watched: no channel, or one without receivers, ends the announcement.
CheckWatched(k) ==
  /\ writer[k] = "announce"
  /\ writer' = [writer EXCEPT ![k] = IF entry /\ Receivers # {} THEN "publish"
                                     ELSE "idle"]
  /\ UNCHANGED <<store, entry, sub>>

(* Mutant: the buffer of a slow receiver grows. *)
OfferUnbounded(s, event) == [s EXCEPT !.queue = Append(@, event)]

Offer(s, event) ==
  IF Len(s.queue) < Capacity
  THEN [s EXCEPT !.queue = Append(@, event)]
  ELSE [s EXCEPT !.queue = Append(Tail(@), event), !.missed = TRUE]

\* publish: the lookup decides between sending and collecting the channel.
Publish(k) ==
  LET event == [key |-> k, value |-> store[k]] IN
  /\ writer[k] = "publish"
  /\ writer' = [writer EXCEPT ![k] = IF entry /\ Receivers = {} THEN "remove" ELSE "idle"]
  /\ sub' = [s \in Subscribers |-> IF s \in Receivers THEN Offer(sub[s], event)
                                   ELSE sub[s]]
  /\ UNCHANGED <<store, entry>>

\* The removal looks the tenant up again, and drops whatever channel is there.
RemoveChannel(k) ==
  /\ writer[k] = "remove"
  /\ writer' = [writer EXCEPT ![k] = "idle"]
  /\ entry' = FALSE
  /\ sub' = [s \in Subscribers |-> [sub[s] EXCEPT !.attached = FALSE]]
  /\ UNCHANGED store

-----------------------------------------------------------------------------
(* A client and its stream *)

IsOpen(s) == sub[s].step \in Opened

Subscribe(s) ==
  /\ ~IsOpen(s)
  /\ entry' = TRUE
  /\ sub' = [sub EXCEPT ![s] = [Away("subscribed") EXCEPT !.attached = TRUE,
                                                          !.beat = Heartbeat]]
  /\ UNCHANGED <<store, writer>>

\* The client scans the prefix once it is subscribed.
Scan(s) ==
  /\ sub[s].step = "subscribed"
  /\ sub' = [sub EXCEPT ![s].step = "streaming",
                        ![s].view = [k \in Prefix |-> store[k]]]
  /\ UNCHANGED <<store, writer, entry>>

Emitted(s) == [s EXCEPT !.beat = Heartbeat, !.silent = 0]

(* Mutant: every event, sent on or not, moves the heartbeat. *)
FilterDefers(s, event) ==
  IF event.key \in Prefix
  THEN Emitted([s EXCEPT !.view[event.key] = event.value])
  ELSE [s EXCEPT !.beat = Heartbeat]

\* An event outside the prefix is dropped without moving the heartbeat.
Deliver(s, event) ==
  IF event.key \in Prefix
  THEN Emitted([s EXCEPT !.view[event.key] = event.value])
  ELSE s

Receive(s) ==
  /\ sub[s].step = "streaming"
  /\ ~sub[s].missed /\ sub[s].queue # <<>>
  /\ sub' = [sub EXCEPT ![s] = Deliver([sub[s] EXCEPT !.queue = Tail(@)],
                                      Head(sub[s].queue))]
  /\ UNCHANGED <<store, writer, entry>>

(* Mutant: the stream goes on with the events that are left. *)
LagContinues(s) == [s EXCEPT !.missed = FALSE]

\* RecvError::Lagged ends the stream with an error.
Lagged(s) == Away("ended_lagged")

ReceiveLagged(s) ==
  /\ sub[s].step = "streaming" /\ sub[s].missed
  /\ sub' = [sub EXCEPT ![s] = Lagged(@)]
  /\ UNCHANGED <<store, writer, entry>>

(* Mutant: a receiver on a dropped channel is polled again. *)
ClosedPollsAgain(s) ==
  /\ sub[s].step = "streaming"
  /\ ~sub[s].attached /\ ~sub[s].missed /\ sub[s].queue = <<>>
  /\ UNCHANGED vars

\* RecvError::Closed: the channel is gone and everything in it was received.
ReceiveClosed(s) ==
  /\ sub[s].step = "streaming"
  /\ ~sub[s].attached /\ ~sub[s].missed /\ sub[s].queue = <<>>
  /\ sub' = [sub EXCEPT ![s] = Away("ended_closed")]
  /\ UNCHANGED <<store, writer, entry>>

SendHeartbeat(s) ==
  /\ IsOpen(s) /\ sub[s].beat = 0
  /\ sub' = [sub EXCEPT ![s] = Emitted(@)]
  /\ UNCHANGED <<store, writer, entry>>

\* The client goes away and its receiver is dropped.
Leave(s) ==
  /\ IsOpen(s)
  /\ sub' = [sub EXCEPT ![s] = Away("away")]
  /\ UNCHANGED <<store, writer, entry>>

Tick ==
  /\ \E s \in Subscribers : IsOpen(s) /\ sub[s].beat > 0
  /\ sub' = [s \in Subscribers |->
       IF ~IsOpen(s) THEN sub[s]
       ELSE [sub[s] EXCEPT !.beat = IF @ = 0 THEN 0 ELSE @ - 1,
                           !.silent = IF @ = Heartbeat THEN @ ELSE @ + 1]]
  /\ UNCHANGED <<store, writer, entry>>

Announce(k) == CheckWatched(k) \/ Publish(k) \/ RemoveChannel(k)
Stream(s) == Receive(s) \/ ReceiveLagged(s) \/ ReceiveClosed(s)
Client(s) == Subscribe(s) \/ Scan(s) \/ Leave(s)

Next ==
  \/ \E k \in Keys : Write(k) \/ Announce(k)
  \/ \E s \in Subscribers : Client(s) \/ Stream(s) \/ SendHeartbeat(s)
  \/ Tick

\* select! polls its branches in random order, so a timer that is due again and
\* again is taken even when events keep coming: strong fairness.  Clients may
\* do nothing.
Fairness ==
  /\ \A k \in Keys : WF_vars(Announce(k))
  /\ \A s \in Subscribers : WF_vars(Stream(s)) /\ SF_vars(SendHeartbeat(s))
  /\ WF_vars(Tick)

Spec == Init /\ [][Next]_vars /\ Fairness

-----------------------------------------------------------------------------
(* Properties *)

\* grpc.rs:473-479: a client that subscribes before it scans misses nothing.
\* When it has received everything it was sent and no write to a key is still
\* being announced, its copy of the key is what the node stores, although the
\* scan and the events overlap, the writer skips announcements when nobody
\* listens, and events are lost when the client is slow.
StreamAgrees ==
  \A s \in Subscribers, k \in Prefix :
    /\ sub[s].step = "streaming" /\ sub[s].attached
    /\ ~sub[s].missed /\ sub[s].queue = <<>>
    /\ writer[k] = "idle"
    => sub[s].view[k] = store[k]

\* grpc.rs:264-268 on next_beat: traffic outside the prefix must not starve a
\* stream of heartbeats.  A stream that was silent for a whole period sends
\* something or ends, however many filtered events it spins on.
NeverSilent ==
  \A s \in Subscribers :
    IsOpen(s) /\ sub[s].silent = Heartbeat ~> (~IsOpen(s) \/ sub[s].silent = 0)

\* watch.rs:111-114: a subscription that falls between the moment a writer finds
\* the channel abandoned and the moment it removes it is on a channel nobody
\* publishes to any more.  Heartbeats alone would keep such a stream open for
\* ever; it ends once what is queued has been received.  It ends without an
\* error and while the node runs, although grpc.rs:345-346 holds that only a
\* shutdown can close a receiver, so the client must take the end of a stream
\* for a reason to read again.
CutOffEnds ==
  \A s \in Subscribers :
    sub[s].step = "streaming" /\ ~sub[s].attached ~> ~IsOpen(s)
=============================================================================
