----------------------------- MODULE WatchProofs -----------------------------
(***************************************************************************)
(* Proofs about Watch, for any number of keys, values and subscribers and   *)
(* any buffer.                                                              *)
(*                                                                          *)
(* StreamAgrees speaks of a stream whose buffer is empty.  The invariant    *)
(* behind it speaks of any stream: the newest event the buffer holds of a   *)
(* key carries what is stored, and if there is none the client's copy is    *)
(* what is stored (Shows).  It holds for the streams that publications      *)
(* reach (those attached, which need the channel to be in the map) and that *)
(* have lost nothing, while no write to the key waits to be published.      *)
(***************************************************************************)
EXTENDS Watch, TLAPS, SequenceTheorems

\* Event i is the newest of its key in the queue.
Newest(queue, i) == \A j \in i + 1..Len(queue) : queue[j].key # queue[i].key

\* The client of the stream has, or is on its way to, value v of key k.
Shows(stream, k, v) ==
  LET queue == stream.queue IN
  /\ \A i \in 1..Len(queue) : queue[i].key = k /\ Newest(queue, i) => queue[i].value = v
  /\ stream.step = "streaming" /\ (\A i \in 1..Len(queue) : queue[i].key # k)
       => stream.view[k] = v

Whole(stream) == stream.step \in Opened /\ stream.attached /\ ~stream.missed
Announced(k) == writer[k] \notin {"announce", "publish"}

\* A receiver is on the channel of the map, or on none.
OnChannel == \A s \in Subscribers : sub[s].attached => entry

AllShow == \A s \in Subscribers, k \in Prefix :
             Whole(sub[s]) /\ Announced(k) => Shows(sub[s], k, store[k])

StreamInv == TypeOK /\ OnChannel /\ AllShow

-----------------------------------------------------------------------------
(* Building blocks *)

\* A stream that is closed has the type of a stream.
LEMMA AwayType ==
  ASSUME NEW step \in Opened \cup Closings
  PROVE  Away(step) \in Streams
<1>1. 0 \in 0..Heartbeat
  BY WatchAssumption DEF WatchAssumption
<1>2. <<>> \in Seq(Events)
  BY EmptySeq
<1>3. [k \in Prefix |-> None] \in [Prefix -> Contents]
  BY DEF Contents
<1>4. QED
  BY <1>1, <1>2, <1>3 DEF Away, Streams

\* An offer to a stream: the event is the last of its queue, which stays
\* within the buffer, and the rest of the stream is as it was.
LEMMA OfferFacts ==
  ASSUME NEW s \in Streams, Len(s.queue) <= Capacity, NEW event \in Events
  PROVE  /\ Offer(s, event) \in Streams
         /\ Len(Offer(s, event).queue) <= Capacity
         /\ Offer(s, event).step = s.step
         /\ Offer(s, event).attached = s.attached
         /\ ~Offer(s, event).missed => /\ ~s.missed
                                       /\ Offer(s, event) = [s EXCEPT !.queue = Append(@, event)]
<1>1. s.queue \in Seq(Events) /\ Len(s.queue) \in Nat
  BY LenProperties DEF Streams
<1>2. Capacity \in Nat \ {0, 1}
  BY WatchAssumption DEF WatchAssumption
<1>3. CASE Len(s.queue) < Capacity
  <2>1. Append(s.queue, event) \in Seq(Events) /\ Len(Append(s.queue, event)) = Len(s.queue) + 1
    BY <1>1, AppendProperties
  <2>2. Offer(s, event) = [s EXCEPT !.queue = Append(s.queue, event)]
    BY <1>3 DEF Offer
  <2>3. Offer(s, event) \in Streams
    BY <2>1, <2>2 DEF Streams
  <2>4. /\ Offer(s, event).queue = Append(s.queue, event)
        /\ Offer(s, event).step = s.step /\ Offer(s, event).attached = s.attached
        /\ Offer(s, event).missed = s.missed
    BY <2>2 DEF Streams
  <2>5. Len(Offer(s, event).queue) <= Capacity
    BY <1>1, <1>2, <1>3, <2>1, <2>4
  <2>6. QED
    BY <2>2, <2>3, <2>4, <2>5
<1>4. CASE ~(Len(s.queue) < Capacity)
  <2>1. s.queue # <<>>
    BY <1>1, <1>2, <1>4, EmptySeq
  <2>2. Tail(s.queue) \in Seq(Events) /\ Len(Tail(s.queue)) = Len(s.queue) - 1
    BY <1>1, <2>1, HeadTailProperties
  <2>3. /\ Append(Tail(s.queue), event) \in Seq(Events)
        /\ Len(Append(Tail(s.queue), event)) = Len(s.queue)
    BY <1>1, <2>2, AppendProperties
  <2>4. Offer(s, event)
          = [s EXCEPT !.queue = Append(Tail(s.queue), event), !.missed = TRUE]
    BY <1>4 DEF Offer
  <2>5. QED
    BY <1>1, <2>3, <2>4 DEF Streams
<1>5. QED
  BY <1>3, <1>4

\* An appended event is the newest of its key and changes no other's.
LEMMA ShowsAppend ==
  ASSUME NEW s \in Streams, NEW event \in Events, NEW k \in Keys, NEW v,
         Shows(s, k, v) \/ event.key = k, event.key = k => event.value = v
  PROVE  Shows([s EXCEPT !.queue = Append(@, event)], k, v)
<1> DEFINE q == s.queue
           qq == Append(q, event)
           t == [s EXCEPT !.queue = qq]
<1>1. q \in Seq(Events) /\ Len(q) \in Nat
  BY LenProperties DEF Streams
<1>2. /\ Len(qq) = Len(q) + 1 /\ qq[Len(q) + 1] = event
      /\ \A i \in 1..Len(q) : qq[i] = q[i]
  BY <1>1, AppendProperties
<1>3. t.queue = qq /\ t.step = s.step /\ t.view = s.view
  BY DEF Streams
<1> HIDE DEF q, qq, t
<1>4. ASSUME NEW i \in 1..Len(qq), qq[i].key = k, Newest(qq, i)
      PROVE  qq[i].value = v
  <2>1. CASE i = Len(q) + 1
    BY <1>2, <1>4, <2>1
  <2>2. CASE i \in 1..Len(q)
    <3>1. Len(q) + 1 \in i + 1..Len(qq)
      BY <1>1, <1>2, <2>2
    <3>2. event.key # k
      BY <1>2, <1>4, <3>1 DEF Newest
    <3>3. Newest(q, i) /\ q[i].key = k
      BY <1>1, <1>2, <1>4, <2>2 DEF Newest
    <3>4. QED
      BY <1>2, <2>2, <3>2, <3>3 DEF Shows, q
  <2>3. QED
    BY <1>1, <1>2, <2>1, <2>2
<1>5. ASSUME s.step = "streaming", \A i \in 1..Len(qq) : qq[i].key # k
      PROVE  s.view[k] = v
  <2>1. event.key # k
    BY <1>1, <1>2, <1>5
  <2>2. \A i \in 1..Len(q) : q[i].key # k
    BY <1>1, <1>2, <1>5
  <2>3. QED
    BY <1>5, <2>1, <2>2 DEF Shows, q
<1>6. Shows(t, k, v)
  BY <1>3, <1>4, <1>5 DEF Shows
<1>7. QED
  BY <1>6 DEF t, qq, q

\* Delivering the first event to the client: the queue loses it and the copy
\* of its key, if that is watched, becomes its value.
LEMMA DeliverFacts ==
  ASSUME NEW s \in Streams, s.queue # <<>>, Len(s.queue) <= Capacity,
         NEW t, t = Deliver([s EXCEPT !.queue = Tail(@)], Head(s.queue))
  PROVE  /\ t \in Streams /\ Len(t.queue) <= Capacity
         /\ t.step = s.step /\ t.attached = s.attached /\ t.missed = s.missed
         /\ t.queue = Tail(s.queue)
         /\ \A k \in Prefix : t.view[k] = IF Head(s.queue).key = k THEN Head(s.queue).value
                                          ELSE s.view[k]
<1> DEFINE event == Head(s.queue)
           r == [s EXCEPT !.queue = Tail(s.queue)]
<1>1. /\ s.queue \in Seq(Events) /\ Len(s.queue) \in Nat /\ s.view \in [Prefix -> Contents]
  BY LenProperties DEF Streams
<1>2. event \in Events /\ Tail(s.queue) \in Seq(Events) /\ Len(Tail(s.queue)) = Len(s.queue) - 1
  BY <1>1, HeadTailProperties
<1>3. Capacity \in Nat /\ Heartbeat \in Nat
  BY WatchAssumption DEF WatchAssumption
<1>4. r \in Streams
  BY <1>2 DEF Streams
<1>5. Len(Tail(s.queue)) <= Capacity
  BY <1>1, <1>2, <1>3
<1> HIDE DEF event
<1>6. CASE event.key \in Prefix
  <2>1. t = [s EXCEPT !.queue = Tail(s.queue), !.view = [s.view EXCEPT ![event.key] = event.value],
                      !.beat = Heartbeat, !.silent = 0]
    BY <1>6 DEF Deliver, Emitted, Streams, event
  <2>2. [s.view EXCEPT ![event.key] = event.value] \in [Prefix -> Contents]
    BY <1>1, <1>2, <1>6 DEF Events
  <2>3. 0 \in 0..Heartbeat /\ Heartbeat \in 0..Heartbeat
    BY <1>3
  <2>4. t \in Streams
    BY <1>2, <2>1, <2>2, <2>3 DEF Streams
  <2>5. /\ t.queue = Tail(s.queue) /\ t.step = s.step /\ t.attached = s.attached
        /\ t.missed = s.missed /\ t.view = [s.view EXCEPT ![event.key] = event.value]
    BY <2>1 DEF Streams
  <2>6. \A k \in Prefix : t.view[k] = IF event.key = k THEN event.value ELSE s.view[k]
    BY <1>1, <2>5
  <2>7. QED
    BY <1>5, <2>4, <2>5, <2>6 DEF event
<1>7. CASE event.key \notin Prefix
  <2>1. t = r
    BY <1>7 DEF Deliver, event
  <2>2. /\ r.queue = Tail(s.queue) /\ r.step = s.step /\ r.attached = s.attached
        /\ r.missed = s.missed /\ r.view = s.view
    BY DEF Streams
  <2>3. QED
    BY <1>4, <1>5, <1>7, <2>1, <2>2 DEF event
<1>8. QED
  BY <1>6, <1>7
\* What a stream shows does not depend on its timers, and survives the delivery
\* of its first event.
LEMMA ShowsDeliver ==
  ASSUME NEW s \in Streams, s.queue # <<>>, NEW k \in Prefix, NEW v, Shows(s, k, v), NEW t,
         s.step = "streaming", t.step = s.step, t.queue = Tail(s.queue),
         t.view[k] = IF Head(s.queue).key = k THEN Head(s.queue).value ELSE s.view[k]
  PROVE  Shows(t, k, v)
<1> DEFINE q == s.queue
           qq == Tail(q)
<1>1. q \in Seq(Events) /\ Len(q) \in Nat \ {0}
  BY LenProperties, EmptySeq DEF Streams
<1>2. Len(qq) = Len(q) - 1 /\ (\A i \in 1..Len(qq) : qq[i] = q[i + 1])
  BY <1>1, HeadTailProperties
<1>3. Head(q) = q[1]
  BY <1>1
<1>4. \A i \in 1..Len(q) : q[i].key = k /\ Newest(q, i) => q[i].value = v
  BY DEF Shows
<1>5. (\A i \in 1..Len(q) : q[i].key # k) => s.view[k] = v
  BY DEF Shows
<1>6. t.view[k] = IF q[1].key = k THEN q[1].value ELSE s.view[k]
  BY <1>3
<1>7. t.queue = qq
  OBVIOUS
<1> HIDE DEF q, qq
<1>8. ASSUME NEW i \in 1..Len(qq), qq[i].key = k, Newest(qq, i)
      PROVE  qq[i].value = v
  <2>1. i + 1 \in 1..Len(q) /\ q[i + 1] = qq[i]
    BY <1>1, <1>2
  <2>2. ASSUME NEW j \in i + 2..Len(q)
        PROVE  q[j].key # q[i + 1].key
    <3>1. j - 1 \in i + 1..Len(qq) /\ q[j] = qq[j - 1]
      BY <1>1, <1>2
    <3>2. QED
      BY <1>8, <2>1, <3>1 DEF Newest
  <2>3. Newest(q, i + 1)
    BY <2>2 DEF Newest
  <2>4. QED
    BY <1>4, <1>8, <2>1, <2>3
<1>9. ASSUME \A i \in 1..Len(qq) : qq[i].key # k
      PROVE  t.view[k] = v
  <2>1. ASSUME NEW j \in 2..Len(q)
        PROVE  q[j].key # k
    <3>1. j - 1 \in 1..Len(qq) /\ q[j] = qq[j - 1]
      BY <1>1, <1>2
    <3>2. QED
      BY <1>9, <3>1
  <2>2. CASE q[1].key = k
    <3>1. Newest(q, 1)
      BY <2>1, <2>2 DEF Newest
    <3>2. QED
      BY <1>1, <1>4, <1>6, <2>2, <3>1
  <2>3. CASE q[1].key # k
    <3>1. \A i \in 1..Len(q) : q[i].key # k
      BY <1>1, <2>1, <2>3
    <3>2. QED
      BY <1>5, <1>6, <2>3, <3>1
  <2>4. QED
    BY <2>2, <2>3
<1>10. QED
  BY <1>7, <1>8, <1>9 DEF Shows

-----------------------------------------------------------------------------
(* Writers *)

\* The steps of a write keep the types.
LEMMA TypeWriter ==
  ASSUME TypeOK, NEW k \in Keys, Write(k) \/ Announce(k)
  PROVE  TypeOK'
<1>1. CASE Write(k)
  BY <1>1 DEF Write, TypeOK
<1>2. CASE CheckWatched(k)
  BY <1>2 DEF CheckWatched, TypeOK
<1>3. CASE Publish(k)
  <2> DEFINE event == [key |-> k, value |-> store[k]]
  <2>1. event \in Events
    BY DEF TypeOK, Events
  <2>2. sub' = [s \in Subscribers |-> IF s \in Receivers THEN Offer(sub[s], event) ELSE sub[s]]
    BY <1>3 DEF Publish
  <2> HIDE DEF event
  <2>3. \A s \in Subscribers : Offer(sub[s], event) \in Streams
                               /\ Len(Offer(sub[s], event).queue) <= Capacity
    BY <2>1, OfferFacts DEF TypeOK
  <2>4. /\ sub' \in [Subscribers -> Streams]
        /\ \A s \in Subscribers : Len(sub'[s].queue) <= Capacity
    BY <2>2, <2>3 DEF TypeOK
  <2>5. QED
    BY <1>3, <2>4 DEF Publish, TypeOK
<1>4. CASE RemoveChannel(k)
  <2>1. \A s \in Subscribers : /\ [sub[s] EXCEPT !.attached = FALSE] \in Streams
                               /\ [sub[s] EXCEPT !.attached = FALSE].queue = sub[s].queue
    BY DEF TypeOK, Streams
  <2>2. /\ sub' \in [Subscribers -> Streams]
        /\ \A s \in Subscribers : Len(sub'[s].queue) <= Capacity
    BY <1>4, <2>1 DEF RemoveChannel, TypeOK
  <2>3. QED
    BY <1>4, <2>2 DEF RemoveChannel, TypeOK
<1>5. QED
  BY <1>1, <1>2, <1>3, <1>4 DEF Announce

\* The steps of a write keep the streams in agreement.
LEMMA ShowWriter ==
  ASSUME StreamInv, TypeOK', NEW k \in Keys, Write(k) \/ Announce(k)
  PROVE  OnChannel' /\ AllShow'
<1> TypeOK /\ OnChannel /\ AllShow
  BY DEF StreamInv
<1>1. CASE Write(k)
  <2>1. /\ UNCHANGED <<entry, sub>> /\ writer' = [writer EXCEPT ![k] = "announce"]
        /\ \A j \in Keys \ {k} : store'[j] = store[j]
    BY <1>1 DEF Write, TypeOK
  <2>2. ASSUME NEW j \in Prefix, Announced(j)'
        PROVE  Announced(j) /\ store'[j] = store[j]
    <3>1. j \in Keys
      BY WatchAssumption DEF WatchAssumption
    <3>2. QED
      BY <2>1, <2>2, <3>1 DEF Announced, TypeOK
  <2>3. QED
    BY <2>1, <2>2 DEF OnChannel, AllShow
<1>2. CASE CheckWatched(k)
  <2>1. UNCHANGED <<store, entry, sub>>
    BY <1>2 DEF CheckWatched
  <2>2. ASSUME NEW s \in Subscribers, NEW j \in Prefix, Whole(sub[s]), Announced(j)'
        PROVE  Announced(j)
    <3>1. entry /\ Receivers # {}
      BY <2>2 DEF OnChannel, Whole, Receivers
    <3>2. writer' = [writer EXCEPT ![k] = "publish"]
      BY <1>2, <3>1 DEF CheckWatched
    <3>3. QED
      BY <2>2, <3>2 DEF Announced, TypeOK
  <2>3. QED
    BY <2>1, <2>2 DEF OnChannel, AllShow
<1>3. CASE Publish(k)
  <2> DEFINE event == [key |-> k, value |-> store[k]]
  <2>1. event \in Events /\ event.key = k /\ event.value = store[k]
    BY DEF TypeOK, Events
  <2>2. /\ sub' = [s \in Subscribers |-> IF s \in Receivers THEN Offer(sub[s], event)
                                         ELSE sub[s]]
        /\ \A j \in Keys \ {k} : writer'[j] = writer[j]
        /\ UNCHANGED <<store, entry>>
    BY <1>3 DEF Publish, TypeOK
  <2> HIDE DEF event
  <2>3. OnChannel'
    BY <2>1, <2>2, OfferFacts DEF OnChannel, TypeOK, Receivers
  <2>4. ASSUME NEW s \in Subscribers, NEW j \in Prefix, Whole(sub'[s]), Announced(j)'
        PROVE  Shows(sub'[s], j, store[j])
    <3>1. sub[s] \in Streams /\ Len(sub[s].queue) <= Capacity /\ j \in Keys
      BY WatchAssumption DEF TypeOK, WatchAssumption
    <3>2. s \in Receivers
      BY <2>2, <2>4 DEF Whole, Receivers
    <3>3. sub'[s] = Offer(sub[s], event)
      BY <2>2, <3>2
    <3> DEFINE t == Offer(sub[s], event)
    <3>a. /\ t.step = sub[s].step /\ t.attached = sub[s].attached
          /\ ~t.missed => /\ ~sub[s].missed
                          /\ t = [sub[s] EXCEPT !.queue = Append(@, event)]
      BY <2>1, <3>1, OfferFacts
    <3> HIDE DEF t
    <3>b. Whole(t)
      BY <2>4, <3>3 DEF t
    <3>4. /\ t = [sub[s] EXCEPT !.queue = Append(@, event)]
          /\ Whole(sub[s])
      BY <3>a, <3>b DEF Whole
    <3>5. j # k => Shows(sub[s], j, store[j])
      BY <2>2, <2>4, <3>1, <3>4 DEF AllShow, Announced
    <3>6. /\ Shows(sub[s], j, store[j]) \/ event.key = j
          /\ event.key = j => event.value = store[j]
      BY <2>1, <3>5
    <3>7. Shows([sub[s] EXCEPT !.queue = Append(@, event)], j, store[j])
      BY <2>1, <3>1, <3>6, ShowsAppend
    <3>8. QED
      BY <3>3, <3>4, <3>7 DEF t
  <2>5. QED
    BY <2>2, <2>3, <2>4 DEF AllShow
<1>4. CASE RemoveChannel(k)
  <2>1. \A s \in Subscribers : ~sub'[s].attached
    BY <1>4 DEF RemoveChannel, TypeOK, Streams
  <2>2. QED
    BY <2>1 DEF OnChannel, AllShow, Whole
<1>5. QED
  BY <1>1, <1>2, <1>3, <1>4 DEF Announce

-----------------------------------------------------------------------------
(* Clients and their streams *)

\* What has to be shown of a step that moves one stream.
LEMMA MoveStream ==
  ASSUME StreamInv, NEW s \in Subscribers, NEW t \in Streams,
         sub' = [sub EXCEPT ![s] = t],
         Len(t.queue) <= Capacity,
         UNCHANGED <<store, writer>>, entry' \in BOOLEAN, entry => entry',
         t.attached => entry',
         \A k \in Prefix : Whole(t) /\ Announced(k) => Shows(t, k, store[k])
  PROVE  StreamInv'
<1> TypeOK /\ OnChannel /\ AllShow
  BY DEF StreamInv
<1>1. /\ sub' \in [Subscribers -> Streams] /\ sub'[s] = t
      /\ \A r \in Subscribers \ {s} : sub'[r] = sub[r]
  BY DEF TypeOK
<1>2. TypeOK'
  BY <1>1 DEF TypeOK
<1>3. OnChannel'
  BY <1>1 DEF OnChannel
<1>4. ASSUME NEW r \in Subscribers, NEW k \in Prefix, Whole(sub'[r]), Announced(k)
      PROVE  Shows(sub'[r], k, store[k])
  BY <1>1, <1>4 DEF AllShow
<1>5. AllShow'
  BY <1>4 DEF AllShow, Announced
<1>6. QED
  BY <1>2, <1>3, <1>5 DEF StreamInv

\* A stream that ends or is left shows nothing.
LEMMA CloseStream ==
  ASSUME StreamInv, NEW s \in Subscribers, NEW step \in Closings,
         sub' = [sub EXCEPT ![s] = Away(step)], UNCHANGED <<store, writer, entry>>
  PROVE  StreamInv'
<1> DEFINE t == Away(step)
<1>1. t \in Streams
  BY AwayType
<1>2. ~t.attached /\ t.queue = <<>>
  BY DEF Away
<1>3. sub' = [sub EXCEPT ![s] = t]
  OBVIOUS
<1> HIDE DEF t
<1>4. Capacity \in Nat /\ entry' \in BOOLEAN /\ (entry => entry')
  BY WatchAssumption DEF WatchAssumption, StreamInv, TypeOK
<1>5. Len(t.queue) <= Capacity
  BY <1>2, <1>4
<1>6. (t.attached => entry') /\ ~Whole(t)
  BY <1>2 DEF Whole
<1>7. QED
  BY <1>1, <1>3, <1>4, <1>5, <1>6, MoveStream

\* The client's own steps.
LEMMA ShowClient ==
  ASSUME StreamInv, NEW s \in Subscribers, Client(s)
  PROVE  StreamInv'
<1> TypeOK /\ OnChannel /\ AllShow
  BY DEF StreamInv
<1>1. Capacity \in Nat /\ Heartbeat \in 0..Heartbeat /\ entry \in BOOLEAN
  BY WatchAssumption DEF WatchAssumption, TypeOK
<1>2. CASE Subscribe(s)
  <2> DEFINE t == [Away("subscribed") EXCEPT !.attached = TRUE, !.beat = Heartbeat]
  <2>1. Away("subscribed") \in Streams
    BY AwayType DEF Opened
  <2>2. t \in Streams
    BY <1>1, <2>1 DEF Streams
  <2>3. t.queue = <<>> /\ t.step = "subscribed"
    BY <2>1 DEF Streams, Away
  <2>4. sub' = [sub EXCEPT ![s] = t] /\ entry' = TRUE /\ UNCHANGED <<store, writer>>
    BY <1>2 DEF Subscribe
  <2> HIDE DEF t
  <2>5. Len(t.queue) = 0
    BY <2>3
  <2>6. \A k \in Prefix : Shows(t, k, store[k])
    BY <2>3, <2>5 DEF Shows
  <2>7. Len(t.queue) <= Capacity
    BY <1>1, <2>5
  <2>8. entry' \in BOOLEAN /\ (entry => entry') /\ (t.attached => entry')
    BY <2>4
  <2>9. QED
    BY <2>2, <2>4, <2>6, <2>7, <2>8, MoveStream
<1>3. CASE Scan(s)
  <2> DEFINE view == [k \in Prefix |-> store[k]]
             t == [sub[s] EXCEPT !.step = "streaming", !.view = view]
  <2>1. view \in [Prefix -> Contents]
    BY WatchAssumption DEF WatchAssumption, TypeOK
  <2>2. sub[s] \in Streams /\ Len(sub[s].queue) <= Capacity /\ sub[s].step = "subscribed"
    BY <1>3 DEF TypeOK, Scan
  <2>3. t \in Streams
    BY <2>1, <2>2 DEF Streams, Opened
  <2>4. /\ t.queue = sub[s].queue /\ t.view = view /\ t.attached = sub[s].attached
        /\ t.missed = sub[s].missed
    BY <2>2 DEF Streams
  <2>5. sub' = [sub EXCEPT ![s] = t] /\ UNCHANGED <<store, writer, entry>>
    BY <1>3 DEF Scan, TypeOK
  <2>6. \A k \in Prefix : view[k] = store[k]
    OBVIOUS
  <2> HIDE DEF t, view
  <2>7. ASSUME NEW k \in Prefix, Whole(t), Announced(k)
        PROVE  Shows(t, k, store[k])
    <3>1. Shows(sub[s], k, store[k])
      BY <2>2, <2>4, <2>7 DEF AllShow, Whole, Opened
    <3>2. QED
      BY <2>4, <2>6, <3>1 DEF Shows
  <2>8. t.attached => entry
    BY <2>4 DEF OnChannel
  <2>9. QED
    BY <1>1, <2>2, <2>3, <2>4, <2>5, <2>7, <2>8, MoveStream
<1>4. CASE Leave(s)
  <2>1. sub' = [sub EXCEPT ![s] = Away("away")] /\ UNCHANGED <<store, writer, entry>>
    BY <1>4 DEF Leave
  <2>2. QED
    BY <2>1, CloseStream DEF Closings
<1>5. QED
  BY <1>2, <1>3, <1>4 DEF Client

\* watch_stream.
LEMMA ShowStream ==
  ASSUME StreamInv, NEW s \in Subscribers, Stream(s)
  PROVE  StreamInv'
<1> TypeOK /\ OnChannel /\ AllShow
  BY DEF StreamInv
<1>1. CASE Receive(s)
  <2> DEFINE t == Deliver([sub[s] EXCEPT !.queue = Tail(@)], Head(sub[s].queue))
  <2>1. /\ sub[s] \in Streams /\ sub[s].queue # <<>> /\ Len(sub[s].queue) <= Capacity
        /\ sub[s].step = "streaming" /\ entry \in BOOLEAN
    BY <1>1 DEF TypeOK, Receive
  <2>2. sub' = [sub EXCEPT ![s] = t] /\ UNCHANGED <<store, writer, entry>>
    BY <1>1 DEF Receive
  <2>3. /\ t \in Streams /\ Len(t.queue) <= Capacity
        /\ t.step = sub[s].step /\ t.attached = sub[s].attached /\ t.missed = sub[s].missed
        /\ t.queue = Tail(sub[s].queue)
        /\ \A k \in Prefix : t.view[k] = IF Head(sub[s].queue).key = k
                                         THEN Head(sub[s].queue).value ELSE sub[s].view[k]
    BY <2>1, DeliverFacts
  <2> HIDE DEF t
  <2>4. ASSUME NEW k \in Prefix, Whole(t), Announced(k)
        PROVE  Shows(t, k, store[k])
    <3>1. Shows(sub[s], k, store[k])
      BY <2>3, <2>4 DEF AllShow, Whole
    <3>2. QED
      BY <2>1, <2>3, <3>1, ShowsDeliver
  <2>5. t.attached => entry
    BY <2>3 DEF OnChannel
  <2>6. QED
    BY <2>1, <2>2, <2>3, <2>4, <2>5, MoveStream
<1>2. CASE ReceiveLagged(s)
  <2>1. sub' = [sub EXCEPT ![s] = Away("ended_lagged")] /\ UNCHANGED <<store, writer, entry>>
    BY <1>2 DEF ReceiveLagged, Lagged
  <2>2. QED
    BY <2>1, CloseStream DEF Closings
<1>3. CASE ReceiveClosed(s)
  <2>1. sub' = [sub EXCEPT ![s] = Away("ended_closed")] /\ UNCHANGED <<store, writer, entry>>
    BY <1>3 DEF ReceiveClosed
  <2>2. QED
    BY <2>1, CloseStream DEF Closings
<1>4. QED
  BY <1>1, <1>2, <1>3 DEF Stream

\* Timers change nothing a client sees.
LEMMA ShowTimers ==
  ASSUME StreamInv, Tick \/ \E s \in Subscribers : SendHeartbeat(s)
  PROVE  StreamInv'
<1> TypeOK /\ OnChannel /\ AllShow
  BY DEF StreamInv
<1>1. Heartbeat \in Nat \ {0}
  BY WatchAssumption DEF WatchAssumption
<1>2. /\ sub' \in [Subscribers -> Streams]
      /\ \A s \in Subscribers : /\ sub'[s].step = sub[s].step
                                /\ sub'[s].attached = sub[s].attached
                                /\ sub'[s].missed = sub[s].missed
                                /\ sub'[s].queue = sub[s].queue
                                /\ sub'[s].view = sub[s].view
  <2>1. CASE Tick
    <3> DEFINE Aged(r) == [r EXCEPT !.beat = IF @ = 0 THEN 0 ELSE @ - 1,
                                    !.silent = IF @ = Heartbeat THEN @ ELSE @ + 1]
    <3>1. ASSUME NEW r \in Streams
          PROVE  /\ Aged(r) \in Streams
                 /\ Aged(r).step = r.step /\ Aged(r).attached = r.attached
                 /\ Aged(r).missed = r.missed /\ Aged(r).queue = r.queue
                 /\ Aged(r).view = r.view
      <4>1. r.beat \in 0..Heartbeat /\ r.silent \in 0..Heartbeat
        BY DEF Streams
      <4>2. /\ (IF r.beat = 0 THEN 0 ELSE r.beat - 1) \in 0..Heartbeat
            /\ (IF r.silent = Heartbeat THEN r.silent ELSE r.silent + 1) \in 0..Heartbeat
        BY <1>1, <4>1
      <4>3. QED
        BY <4>2 DEF Streams
    <3>2. sub' = [s \in Subscribers |-> IF ~IsOpen(s) THEN sub[s] ELSE Aged(sub[s])]
      BY <2>1 DEF Tick
    <3> HIDE DEF Aged
    <3>3. QED
      BY <3>1, <3>2 DEF TypeOK
  <2>2. ASSUME NEW s \in Subscribers, SendHeartbeat(s)
        PROVE  <1>2!1 /\ <1>2!2
    <3>1. sub[s] \in Streams /\ sub' = [sub EXCEPT ![s] = Emitted(sub[s])]
      BY <2>2 DEF SendHeartbeat, TypeOK
    <3>2. 0 \in 0..Heartbeat /\ Heartbeat \in 0..Heartbeat
      BY <1>1
    <3>3. /\ Emitted(sub[s]) \in Streams
          /\ Emitted(sub[s]).step = sub[s].step /\ Emitted(sub[s]).attached = sub[s].attached
          /\ Emitted(sub[s]).missed = sub[s].missed /\ Emitted(sub[s]).queue = sub[s].queue
          /\ Emitted(sub[s]).view = sub[s].view
      BY <3>1, <3>2 DEF Emitted, Streams
    <3>4. QED
      BY <3>1, <3>3 DEF TypeOK
  <2>3. QED
    BY <2>1, <2>2
<1>3. UNCHANGED <<store, writer, entry>>
  BY DEF Tick, SendHeartbeat
<1>4. TypeOK'
  BY <1>2, <1>3 DEF TypeOK
<1>5. OnChannel' /\ AllShow'
  BY <1>2, <1>3 DEF OnChannel, AllShow, Whole, Announced, Shows
<1>6. QED
  BY <1>4, <1>5 DEF StreamInv

-----------------------------------------------------------------------------
(* The theorems *)

\* Every step keeps the invariant.
LEMMA StreamInvNext ==
  ASSUME StreamInv, [Next]_vars
  PROVE  StreamInv'
<1>1. ASSUME NEW k \in Keys, Write(k) \/ Announce(k)
      PROVE  StreamInv'
  BY <1>1, TypeWriter, ShowWriter DEF StreamInv
<1>2. ASSUME NEW s \in Subscribers, Client(s) \/ Stream(s) \/ SendHeartbeat(s)
      PROVE  StreamInv'
  BY <1>2, ShowClient, ShowStream, ShowTimers
<1>3. CASE Tick
  BY <1>3, ShowTimers
<1>4. CASE UNCHANGED vars
  BY <1>4 DEF vars, StreamInv, TypeOK, OnChannel, AllShow, Announced
<1>5. QED
  BY <1>1, <1>2, <1>3, <1>4 DEF Next

\* The invariant holds from the start on.
LEMMA StreamInvAlways == Spec => []StreamInv
<1>1. ASSUME Init PROVE StreamInv
  <2>1. Away("away") \in Streams
    BY AwayType DEF Closings
  <2>2. ~Away("away").attached /\ Len(Away("away").queue) = 0
    BY DEF Away
  <2>3. Capacity \in Nat
    BY WatchAssumption DEF WatchAssumption
  <2>4. \A s \in Subscribers : sub[s] = Away("away")
    BY <1>1 DEF Init
  <2>5. store \in [Keys -> Contents] /\ writer \in [Keys -> {"idle"}] /\ entry \in BOOLEAN
    BY <1>1 DEF Init, Contents
  <2>6. sub \in [Subscribers -> Streams]
    BY <1>1, <2>1 DEF Init
  <2>7. \A s \in Subscribers : Len(sub[s].queue) <= Capacity
    BY <2>2, <2>3, <2>4
  <2>8. TypeOK
    BY <2>5, <2>6, <2>7 DEF TypeOK
  <2>9. OnChannel /\ AllShow
    BY <2>2, <2>4 DEF OnChannel, AllShow, Whole
  <2>10. QED
    BY <2>8, <2>9 DEF StreamInv
<1>2. StreamInv /\ [Next]_vars => StreamInv'
  BY StreamInvNext
<1>3. QED
  BY <1>1, <1>2, PTL DEF Spec

\* Types hold throughout; in particular no buffer grows past watch_buffer,
\* however slow a client is.
THEOREM TypeCorrect == Spec => []TypeOK
<1>1. StreamInv => TypeOK
  BY DEF StreamInv
<1>2. QED
  BY <1>1, StreamInvAlways, PTL

\* A client that subscribed before it scanned, has received all it was sent and
\* was told of no loss holds what the node stores, for every key with no write
\* under way, however writes, publications and its scan interleaved.
THEOREM StreamsAgree == Spec => []StreamAgrees
<1>1. ASSUME StreamInv PROVE StreamAgrees
  <2>1. SUFFICES ASSUME NEW s \in Subscribers, NEW k \in Prefix,
                        sub[s].step = "streaming", sub[s].attached,
                        ~sub[s].missed, sub[s].queue = <<>>, writer[k] = "idle"
                 PROVE  sub[s].view[k] = store[k]
    BY DEF StreamAgrees
  <2>2. Shows(sub[s], k, store[k])
    BY <1>1, <2>1 DEF StreamInv, AllShow, Whole, Announced, Opened
  <2>3. Len(sub[s].queue) = 0
    BY <2>1
  <2>4. QED
    BY <2>1, <2>2, <2>3 DEF Shows
<1>2. QED
  BY <1>1, StreamInvAlways, PTL
=============================================================================
