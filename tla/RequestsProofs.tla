---------------------------- MODULE RequestsProofs ----------------------------
(***************************************************************************)
(* Proofs about Requests, for any number of clients, operators and keys,    *)
(* any calls, limits and bounds.                                            *)
(*                                                                          *)
(* CallInv says what a call in progress has been admitted for and what it   *)
(* has done so far; QuotaInv what each operator's set_quota still has to    *)
(* do; RateInv how the limiter in the map relates to the ones requests      *)
(* still hold; BooksInv, StoredInv and LoadInv carry the sums of            *)
(* AccountingAgrees and QuotaBounds through every step.                     *)
(***************************************************************************)
EXTENDS Requests, ProofFacts, SequenceTheorems

-----------------------------------------------------------------------------
(* What a call in progress is *)

Doing == {"next", "append", "store", "adjust", "persist"}
Reqs == [step : Admitting \cup Doing \cup {"idle"}, call : Calls \cup {None}, rate : Nat,
         limiter : Nat, op : Nat, delta : Int, total : Nat \cup {None}, unaudited : {0, 1}]

\* A call that went past its checks, in front of a limiter or at one of its
\* operations; only one that has landed and is not accounted for lacks its
\* audit line.  n is the number of limiters.
Sound(r, n) ==
  /\ r.step # "idle" => r.call \in Calls /\ Accepts(r.call)
  /\ r.step \in Admitting => r.rate # 0 /\ Cost(r.call) # 0
  /\ r.step = "charge" => r.limiter \in 1..n
  /\ r.step \in Doing => r.op \in 1..Len(r.call.ops)
  /\ r.step \in Doing \ {"next"} => WellFormed(r.call.ops[r.op])
  /\ r.step = "persist" => r.total \in Nat
  /\ r.step \notin {"adjust", "persist"} => r.unaudited = 0

AllSound == req \in [Clients -> Reqs] /\ \A c \in Clients : Sound(req[c], Len(limiters))

StateOK ==
  /\ LimitsTypeOK
  /\ durable \in Backends
  /\ data \in [Keys -> 0..MaxValueSize \cup {None}]
  /\ {raced, apart, in_order} \subseteq BOOLEAN
  /\ cap \in Nat \cup {Unlimited}
  /\ window \in [charged : Nat, disturbed : BOOLEAN]

CallInv == StateOK /\ AllSound

\* What a restart finds is data.
LogOK == log \in [Keys -> 0..MaxValueSize \cup {None, NoRecord}] /\ torn \in BOOLEAN

-----------------------------------------------------------------------------
(* Building blocks *)

\* The constants, and what a call's operations are.
LEMMA Constants ==
  /\ DefaultQuota \in Quotas /\ None \notin Nat /\ None \notin Quotas
  /\ MaxKeySize \in Nat /\ MaxValueSize \in Nat
  /\ KeySize \in [Keys -> Nat]
<1>1. DefaultQuota \in Quotas /\ None \notin Nat /\ None \notin Quotas
  BY LimitsAssumption DEF LimitsAssumption
<1>2. QED
  BY <1>1, RequestsAssumption DEF RequestsAssumption, ValidLimits

\* A request that is over has the type of a request.
LEMMA IdleSound ==
  ASSUME NEW n \in Nat
  PROVE  Idle \in Reqs /\ Sound(Idle, n)
BY DEF Idle, Reqs, Sound, Doing, Admitting

\* Over, with every landed operation audited.
LEMMA OverSound ==
  ASSUME NEW n \in Nat, NEW r \in Reqs, NEW t, r.unaudited = 0,
         t = [Idle EXCEPT !.unaudited = r.unaudited]
  PROVE  t \in Reqs /\ Sound(t, n) /\ t.step = "idle"
BY DEF Idle, Reqs, Sound, Doing, Admitting

\* On to the next operation of an accepted call.
LEMMA GoOnSound ==
  ASSUME NEW n \in Nat, NEW r, r.call \in Calls, Accepts(r.call), r.unaudited = 0,
         NEW op \in Nat \ {0}, NEW t, t = GoOn(r, op)
  PROVE  /\ t \in Reqs /\ Sound(t, n) /\ t.step \in {"idle", "next"}
<1>1. Len(r.call.ops) \in Nat
  BY CallsAssumption, LenProperties DEF CallsAssumption
<1>2. CASE op > Len(r.call.ops)
  <2>1. t = [Idle EXCEPT !.unaudited = 0]
    BY <1>2 DEF GoOn
  <2>2. QED
    BY <2>1 DEF Idle, Reqs, Sound, Doing, Admitting
<1>3. CASE ~(op > Len(r.call.ops))
  <2>1. t = [Idle EXCEPT !.step = "next", !.call = r.call, !.op = op, !.unaudited = 0]
    BY <1>3 DEF GoOn
  <2>2. t \in Reqs
    <3>1. t = [step |-> "next", call |-> r.call, rate |-> 0, limiter |-> 0, op |-> op,
               delta |-> 0, total |-> None, unaudited |-> 0]
      BY <2>1 DEF Idle
    <3>2. QED
      BY <3>1 DEF Reqs, Doing
  <2>3. t.step = "next" /\ t.call = r.call /\ t.op = op /\ t.unaudited = 0
    BY <2>1 DEF Idle
  <2>4. op \in 1..Len(r.call.ops)
    BY <1>1, <1>3
  <2>5. QED
    BY <2>2, <2>3, <2>4 DEF Sound, Doing, Admitting
<1>4. QED
  BY <1>2, <1>3

\* The operation a call is at.
LEMMA OpFacts ==
  ASSUME CallInv, NEW c \in Clients, req[c].step \in Doing
  PROVE  /\ Op(c) \in [op : {"put", "delete", "other"}, key : Keys, len : Nat]
         /\ NewLen(Op(c)) \in Nat \cup {None}
         /\ EntryBytes(Op(c).key, NewLen(Op(c))) \in Nat
         /\ EntryBytes(Op(c).key, data[Op(c).key]) \in Nat
         /\ PlannedDelta(Op(c)) \in Int
<1>1. /\ req[c].call \in Calls /\ req[c].op \in 1..Len(req[c].call.ops)
  BY DEF CallInv, AllSound, Sound, Doing
<1>2. req[c].call.ops \in Seq([op : {"put", "delete", "other"}, key : Keys, len : Nat])
  BY <1>1, CallsAssumption DEF CallsAssumption
<1>3. Op(c) \in [op : {"put", "delete", "other"}, key : Keys, len : Nat]
  BY <1>1, <1>2, ElementOfSeq DEF Op
<1>4. NewLen(Op(c)) \in Nat \cup {None}
  BY <1>3 DEF NewLen
<1>5. data[Op(c).key] \in Nat \cup {None} /\ KeySize[Op(c).key] \in Nat
  BY <1>3, Constants DEF CallInv, StateOK
<1>6. EntryBytes(Op(c).key, NewLen(Op(c))) \in Nat /\ EntryBytes(Op(c).key, data[Op(c).key]) \in Nat
  BY <1>4, <1>5 DEF EntryBytes
<1>7. QED
  BY <1>3, <1>4, <1>6 DEF PlannedDelta

\* The rate admit reads.
LEMMA RateType ==
  ASSUME StateOK
  PROVE  Quota \in Quotas /\ RateInForce \in Nat
BY Constants DEF StateOK, LimitsTypeOK, Quota, RateInForce, Quotas

-----------------------------------------------------------------------------
(* The calls stay sound *)

\* One client's call moves on, and the limiters may grow.
LEMMA MoveCall ==
  ASSUME AllSound, LimitsTypeOK, LimitsTypeOK', NEW c \in Clients, NEW t \in Reqs,
         Sound(t, Len(limiters')), Len(limiters) <= Len(limiters'),
         req' = [req EXCEPT ![c] = t]
  PROVE  AllSound'
<1>1. Len(limiters) \in Nat /\ Len(limiters') \in Nat
  BY LenProperties DEF LimitsTypeOK
<1>2. \A d \in Clients : Sound(req[d], Len(limiters'))
  BY <1>1 DEF AllSound, Sound
<1>3. QED
  BY <1>2 DEF AllSound

\* A request in front of its admission.
LEMMA NewRequest ==
  ASSUME NEW call, NEW rate, NEW r,
         r = [Idle EXCEPT !.call = call, !.rate = rate, !.step = "lookup"]
  PROVE  r = [step |-> "lookup", call |-> call, rate |-> rate, limiter |-> 0, op |-> 0,
              delta |-> 0, total |-> None, unaudited |-> 0]
BY DEF Idle

\* From the request to its admission.
LEMMA SoundReceive ==
  ASSUME CallInv, NEW c \in Clients, NEW call \in Calls, Receive(c, call)
  PROVE  CallInv'
<1> StateOK /\ AllSound /\ LimitsTypeOK
  BY DEF CallInv, StateOK
<1> DEFINE r == [Idle EXCEPT !.call = call, !.rate = RateInForce, !.step = "lookup"]
           t == IF RateInForce = 0 \/ Cost(call) = 0 THEN GoOn(r, 1) ELSE r
<1>1. /\ req' = [req EXCEPT ![c] = t] /\ Accepts(call)
      /\ UNCHANGED <<limitsVars, durable, data, observed>>
  BY DEF Receive, diskVars
<1>2. UNCHANGED limiters /\ StateOK'
  BY <1>1 DEF StateOK, limitsVars, quotaVars, usageVars, throttleVars, observed, LimitsTypeOK
<1>3. Len(limiters) \in Nat /\ RateInForce \in Nat
  BY LenProperties, RateType DEF LimitsTypeOK
<1>4. r = [step |-> "lookup", call |-> call, rate |-> RateInForce, limiter |-> 0, op |-> 0,
           delta |-> 0, total |-> None, unaudited |-> 0]
  BY NewRequest
<1> HIDE DEF r
<1>5. t \in Reqs /\ Sound(t, Len(limiters))
  <2>1. CASE RateInForce = 0 \/ Cost(call) = 0
    <3>1. r.call \in Calls /\ Accepts(r.call) /\ r.unaudited = 0 /\ t = GoOn(r, 1)
      BY <1>1, <1>4, <2>1
    <3>2. QED
      BY <1>3, <3>1, GoOnSound
  <2>2. CASE ~(RateInForce = 0 \/ Cost(call) = 0)
    <3>1. t = r
      BY <2>2
    <3>2. r \in Reqs
      BY <1>3, <1>4 DEF Reqs, Admitting
    <3>3. Sound(r, Len(limiters))
      BY <1>1, <1>4, <2>2 DEF Sound, Doing, Admitting
    <3>4. QED
      BY <3>1, <3>2, <3>3
  <2>3. QED
    BY <2>1, <2>2
<1> HIDE DEF t
<1>6. AllSound'
  <2>1. LimitsTypeOK' /\ Len(limiters) <= Len(limiters') /\ Sound(t, Len(limiters'))
    BY <1>2, <1>3, <1>5 DEF StateOK
  <2>2. QED
    BY <1>1, <1>5, <2>1, MoveCall
<1>7. QED
  BY <1>2, <1>6 DEF CallInv

LEMMA SoundLookup ==
  ASSUME CallInv, NEW c \in Clients, LookupLimiter(c)
  PROVE  CallInv'
<1> StateOK /\ AllSound /\ LimitsTypeOK
  BY DEF CallInv, StateOK
<1> DEFINE t == IF LimiterFits(req[c].rate)
                THEN [req[c] EXCEPT !.limiter = current, !.step = "charge"]
                ELSE [req[c] EXCEPT !.step = "install"]
<1>1. /\ req' = [req EXCEPT ![c] = t] /\ req[c].step = "lookup"
      /\ UNCHANGED <<limitsVars, durable, data, observed>>
  BY DEF LookupLimiter, diskVars
<1>2. UNCHANGED limiters /\ StateOK'
  BY <1>1 DEF StateOK, limitsVars, quotaVars, usageVars, throttleVars, observed, LimitsTypeOK
<1>3. /\ Len(limiters) \in Nat /\ current \in 0..Len(limiters)
      /\ LimiterFits(req[c].rate) => current # 0
  BY LenProperties DEF LimitsTypeOK, LimiterFits
<1>4. req[c] \in Reqs /\ Sound(req[c], Len(limiters))
  BY DEF AllSound
<1>5. t \in Reqs
  <2>1. current \in Nat /\ {"charge", "install"} \subseteq Admitting
    BY <1>3 DEF Admitting
  <2>2. [req[c] EXCEPT !.limiter = current, !.step = "charge"] \in Reqs
    BY <1>4, <2>1 DEF Reqs
  <2>3. [req[c] EXCEPT !.step = "install"] \in Reqs
    BY <1>4, <2>1 DEF Reqs
  <2>4. QED
    BY <2>2, <2>3
<1>6. Sound(t, Len(limiters))
  BY <1>1, <1>3, <1>4 DEF Reqs, Sound, Doing, Admitting
<1> HIDE DEF t
<1>7. AllSound'
  <2>1. LimitsTypeOK' /\ Len(limiters) <= Len(limiters') /\ Sound(t, Len(limiters'))
    BY <1>2, <1>3, <1>6 DEF StateOK
  <2>2. QED
    BY <1>1, <1>5, <2>1, MoveCall
<1>8. QED
  BY <1>2, <1>7 DEF CallInv

LEMMA SoundInstall ==
  ASSUME CallInv, NEW c \in Clients, Install(c)
  PROVE  CallInv'
<1> StateOK /\ AllSound /\ LimitsTypeOK
  BY DEF CallInv, StateOK
<1> DEFINE new == [rate |-> req[c].rate, left |-> req[c].rate]
           t == [req[c] EXCEPT !.limiter = current', !.step = "charge"]
<1>1. req[c] \in Reqs /\ Sound(req[c], Len(limiters)) /\ req[c].step = "install"
  BY DEF AllSound, Install
<1>2. new \in [rate : Nat \ {0}, left : Nat] /\ new.left <= new.rate
  BY <1>1 DEF Sound, Reqs, Admitting
<1>3. /\ limiters' = Append(limiters, new) /\ current' = Len(limiters')
      /\ req' = [req EXCEPT ![c] = t]
      /\ UNCHANGED <<quotaVars, usageVars, operator, durable, data, wanted, raced, cap, apart,
                     in_order>>
      /\ window' \in {window, Disturbed}
  BY DEF Install, InstallLimiter, diskVars
<1> HIDE DEF new
<1>4. /\ limiters' \in Seq([rate : Nat \ {0}, left : Nat])
      /\ Len(limiters) \in Nat /\ Len(limiters') = Len(limiters) + 1
      /\ limiters'[Len(limiters) + 1] = new
      /\ \A i \in 1..Len(limiters) : limiters'[i] = limiters[i]
  BY <1>2, <1>3, AppendProperties, LenProperties DEF LimitsTypeOK
<1>5. DOMAIN limiters' = 1..Len(limiters') /\ DOMAIN limiters = 1..Len(limiters)
  BY <1>4, LenProperties DEF LimitsTypeOK
<1>6. ASSUME NEW i \in DOMAIN limiters'
      PROVE  limiters'[i].left <= limiters'[i].rate
  <2>1. i \in DOMAIN limiters \/ i = Len(limiters) + 1
    BY <1>4, <1>5
  <2>2. CASE i \in DOMAIN limiters
    BY <1>4, <1>5, <2>2 DEF LimitsTypeOK
  <2>3. CASE i = Len(limiters) + 1
    BY <1>2, <1>4, <2>3
  <2>4. QED
    BY <2>1, <2>2, <2>3
<1>7. LimitsTypeOK'
  BY <1>3, <1>4, <1>6 DEF LimitsTypeOK, quotaVars, usageVars
<1>8. StateOK'
  <2>1. window' \in [charged : Nat, disturbed : BOOLEAN]
    <3>1. {window, Disturbed} \subseteq [charged : Nat, disturbed : BOOLEAN]
      BY DEF StateOK, Disturbed
    <3>2. QED
      BY <1>3, <3>1
  <2>2. QED
    BY <1>3, <1>7, <2>1 DEF StateOK
<1>9. t \in Reqs
  <2>1. current' \in Nat /\ "charge" \in Admitting
    BY <1>3, <1>4 DEF Admitting
  <2>2. QED
    BY <1>1, <2>1 DEF Reqs
<1>10. Sound(t, Len(limiters'))
  BY <1>1, <1>3, <1>4 DEF Reqs, Sound, Doing, Admitting
<1> HIDE DEF t
<1>11. AllSound'
  <2>1. Len(limiters) <= Len(limiters')
    BY <1>4
  <2>2. QED
    BY <1>3, <1>7, <1>9, <1>10, <2>1, MoveCall
<1>12. QED
  BY <1>8, <1>11 DEF CallInv

\* What a limiter is.
LEMMA LimiterType ==
  ASSUME LimitsTypeOK, NEW i \in 1..Len(limiters)
  PROVE  limiters[i].rate \in Nat /\ limiters[i].left \in Nat
<1>1. limiters[i] \in [rate : Nat \ {0}, left : Nat]
  BY ElementOfSeq DEF LimitsTypeOK
<1>2. QED
  BY <1>1

\* A limiter that is charged stays one.
LEMMA ChargedLimiters ==
  ASSUME LimitsTypeOK, NEW i \in 1..Len(limiters), NEW cost \in Nat, cost <= limiters[i].left,
         limiters' = [limiters EXCEPT ![i].left = @ - cost],
         UNCHANGED <<quotaVars, usageVars, current, operator>>
  PROVE  /\ LimitsTypeOK' /\ Len(limiters') = Len(limiters)
         /\ limiters'[i].left = limiters[i].left - cost /\ limiters'[i].rate = limiters[i].rate
         /\ \A j \in 1..Len(limiters) : j # i => limiters'[j] = limiters[j]
<1> DEFINE L == [rate : Nat \ {0}, left : Nat]
           l == [limiters[i] EXCEPT !.left = limiters[i].left - cost]
<1>1. limiters \in Seq(L) /\ Len(limiters) \in Nat /\ DOMAIN limiters = 1..Len(limiters)
  BY LenProperties DEF LimitsTypeOK
<1>2. limiters[i] \in L /\ limiters[i].left <= limiters[i].rate
  BY <1>1, ElementOfSeq DEF LimitsTypeOK
<1>3. l \in L /\ l.left = limiters[i].left - cost /\ l.rate = limiters[i].rate /\ l.left <= l.rate
  BY <1>2
<1>4. limiters' = [limiters EXCEPT ![i] = l]
  OBVIOUS
<1> HIDE DEF L, l
<1>5. limiters' \in Seq(L) /\ Len(limiters') = Len(limiters)
  BY <1>1, <1>3, <1>4, ExceptSeq
<1>6. limiters'[i] = l /\ \A j \in 1..Len(limiters) : j # i => limiters'[j] = limiters[j]
  BY <1>1, <1>4
<1>7. DOMAIN limiters' = 1..Len(limiters)
  BY <1>5, LenProperties
<1>8. \A j \in DOMAIN limiters' : limiters'[j].left <= limiters'[j].rate
  BY <1>1, <1>3, <1>6, <1>7 DEF LimitsTypeOK
<1>9. LimitsTypeOK'
  BY <1>5, <1>8 DEF LimitsTypeOK, quotaVars, usageVars, L
<1>10. QED
  BY <1>3, <1>5, <1>6, <1>9

LEMMA SoundAdmit ==
  ASSUME CallInv, NEW c \in Clients, Admit(c)
  PROVE  CallInv'
<1> StateOK /\ AllSound /\ LimitsTypeOK
  BY DEF CallInv, StateOK
<1> DEFINE r == req[c]
           cost == Cost(r.call)
           t == GoOn(r, 1)
<1>1. r \in Reqs /\ Sound(r, Len(limiters)) /\ r.step = "charge"
  BY DEF AllSound, Admit
<1>2. r.call \in Calls /\ Accepts(r.call) /\ r.unaudited = 0 /\ r.limiter \in 1..Len(limiters)
  BY <1>1 DEF Sound, Admitting
<1>3. cost \in Nat /\ Operations(r.call) \in Nat
  BY <1>2, CallsAssumption, LenProperties DEF CallsAssumption, Cost, Operations
<1>4. /\ cost <= limiters[r.limiter].left
      /\ limiters' = [limiters EXCEPT ![r.limiter].left = @ - cost]
      /\ req' = [req EXCEPT ![c] = t]
      /\ UNCHANGED <<quotaVars, usageVars, current, operator, durable, data, wanted, raced, cap,
                     apart, in_order>>
      /\ window' = IF window.disturbed THEN window
                   ELSE [window EXCEPT !.charged = @ + Operations(r.call)]
  BY DEF Admit, CanCharge, ChargeLimiter, diskVars
<1> HIDE DEF cost, t, r
<1>5. LimitsTypeOK' /\ Len(limiters') = Len(limiters)
  BY <1>2, <1>3, <1>4, ChargedLimiters
<1>6. window' \in [charged : Nat, disturbed : BOOLEAN]
  <2>1. window \in [charged : Nat, disturbed : BOOLEAN]
    BY DEF StateOK
  <2>2. [window EXCEPT !.charged = @ + Operations(r.call)] \in [charged : Nat, disturbed : BOOLEAN]
    BY <1>3, <2>1
  <2>3. QED
    BY <1>4, <2>1, <2>2
<1>7. StateOK'
  BY <1>4, <1>5, <1>6 DEF StateOK
<1>8. Len(limiters) \in Nat
  BY LenProperties DEF LimitsTypeOK
<1>9. t \in Reqs /\ Sound(t, Len(limiters))
  BY <1>2, <1>8, GoOnSound DEF t
<1>10. AllSound'
  <2>1. Len(limiters) <= Len(limiters') /\ Sound(t, Len(limiters'))
    BY <1>5, <1>8, <1>9
  <2>2. QED
    BY <1>4, <1>5, <1>9, <2>1, MoveCall
<1>11. QED
  BY <1>7, <1>10 DEF CallInv

\* The steps at which a call is turned down leave the data and the limits alone.
LEMMA SoundAnswered ==
  ASSUME CallInv, NEW c \in Clients, Throttled(c) \/ Refuse(c) \/ AppendFails(c) \/ StoreFails(c)
  PROVE  CallInv'
<1> StateOK /\ AllSound /\ LimitsTypeOK
  BY DEF CallInv, StateOK
<1> DEFINE t == [Idle EXCEPT !.unaudited = req[c].unaudited]
<1>1. /\ req' = [req EXCEPT ![c] = t] /\ req[c].step \in {"charge", "next", "append", "store"}
      /\ UNCHANGED <<limitsVars, durable, data, observed>>
  BY DEF Throttled, Refuse, AppendFails, StoreFails, Answered, diskVars
<1>2. UNCHANGED limiters /\ StateOK'
  BY <1>1 DEF StateOK, limitsVars, quotaVars, usageVars, throttleVars, observed, LimitsTypeOK
<1>3. req[c] \in Reqs /\ req[c].unaudited = 0 /\ Len(limiters) \in Nat
  BY <1>1, LenProperties DEF AllSound, Sound, LimitsTypeOK
<1>4. t \in Reqs /\ Sound(t, Len(limiters))
  BY <1>3, OverSound
<1> HIDE DEF t
<1>5. AllSound'
  <2>1. LimitsTypeOK' /\ Len(limiters) <= Len(limiters') /\ Sound(t, Len(limiters'))
    BY <1>2, <1>3, <1>4 DEF StateOK
  <2>2. QED
    BY <1>1, <1>4, <2>1, MoveCall
<1>6. QED
  BY <1>2, <1>5 DEF CallInv

\* The larger of two numbers.
LEMMA MaxOfTwo ==
  ASSUME NEW a \in Nat, NEW b \in Nat
  PROVE  Max({a, b}) \in Nat /\ a <= Max({a, b}) /\ b <= Max({a, b})
<1>1. \E x \in {a, b} : \A y \in {a, b} : x >= y
  <2>1. CASE a >= b
    BY <2>1
  <2>2. CASE b >= a
    BY <2>2
  <2>3. QED
    BY <2>1, <2>2
<1>2. Max({a, b}) \in {a, b} /\ \A y \in {a, b} : Max({a, b}) >= y
  BY <1>1 DEF Max
<1>3. QED
  BY <1>2

LEMMA SoundPlan ==
  ASSUME CallInv, NEW c \in Clients, Plan(c)
  PROVE  CallInv'
<1> StateOK /\ AllSound /\ LimitsTypeOK
  BY DEF CallInv, StateOK
<1> DEFINE delta == PlannedDelta(Op(c))
           t == [req[c] EXCEPT !.step = "append", !.delta = delta]
<1>1. req[c] \in Reqs /\ Sound(req[c], Len(limiters)) /\ req[c].step = "next"
  BY DEF AllSound, Plan
<1>2. delta \in Int /\ WellFormed(Op(c))
  BY <1>1, OpFacts DEF Plan, Doing
<1>3. /\ req' = [req EXCEPT ![c] = t]
      /\ cap' = IF delta <= 0 THEN cap
                ELSE IF Quota.max_bytes = 0 \/ cap = Unlimited THEN Unlimited
                ELSE Max({cap, Quota.max_bytes})
      /\ apart' = (apart /\ \A d \in Clients \ {c} : Writing(d) => Op(d).key # Op(c).key)
      /\ UNCHANGED <<limitsVars, durable, data, wanted, raced, in_order, window>>
  BY DEF Plan, diskVars
<1> HIDE DEF delta
<1>4. cap' \in Nat \cup {Unlimited}
  <2>1. cap \in Nat \cup {Unlimited} /\ Quota.max_bytes \in Nat
    BY RateType DEF StateOK, Quotas
  <2>2. cap \in Nat => Max({cap, Quota.max_bytes}) \in Nat
    BY <2>1, MaxOfTwo
  <2>3. QED
    BY <1>3, <2>1, <2>2
<1>5. apart' \in BOOLEAN
  BY <1>3, Zenon
<1>6. UNCHANGED limiters /\ LimitsTypeOK'
  BY <1>3 DEF limitsVars, quotaVars, usageVars, throttleVars, LimitsTypeOK
<1>7. StateOK'
  BY <1>3, <1>4, <1>5, <1>6 DEF StateOK
<1>8. t \in Reqs
  <2>1. "append" \in Doing
    BY DEF Doing
  <2>2. QED
    BY <1>1, <1>2, <2>1 DEF Reqs
<1>9. t.step = "append" /\ t.call = req[c].call /\ t.op = req[c].op /\ t.unaudited = req[c].unaudited
  BY <1>1 DEF Reqs
<1> HIDE DEF t
<1>10. Sound(t, Len(limiters))
  BY <1>1, <1>2, <1>9 DEF Sound, Doing, Admitting, Op
<1>11. AllSound'
  <2>1. Len(limiters) <= Len(limiters') /\ Sound(t, Len(limiters'))
    BY <1>6, <1>10, LenProperties DEF LimitsTypeOK
  <2>2. QED
    BY <1>3, <1>6, <1>8, <2>1, MoveCall
<1>12. QED
  BY <1>7, <1>11 DEF CallInv

\* The call's next operation, once this one has its audit line.
LEMMA NextOpSound ==
  ASSUME NEW n \in Nat, NEW r \in Reqs, r.step \in Doing, Sound(r, n), NEW t, t = NextOp(r)
  PROVE  t \in Reqs /\ Sound(t, n) /\ t.step \in {"idle", "next"}
<1> DEFINE s == [r EXCEPT !.unaudited = 0]
<1>1. s.call = r.call /\ s.unaudited = 0
  BY DEF Reqs
<1>2. r.call \in Calls /\ Accepts(r.call) /\ r.op \in Nat
  BY DEF Sound, Doing, Reqs
<1>3. t = GoOn(s, r.op + 1) /\ r.op + 1 \in Nat \ {0}
  BY <1>2 DEF NextOp, Audited
<1> HIDE DEF s
<1>4. QED
  BY <1>1, <1>2, <1>3, GoOnSound

\* What an operation writes is data.
LEMMA NewLenType ==
  ASSUME CallInv, NEW c \in Clients, req[c].step \in {"append", "store"}
  PROVE  Op(c).key \in Keys /\ NewLen(Op(c)) \in 0..MaxValueSize \cup {None}
<1>1. Op(c) \in [op : {"put", "delete", "other"}, key : Keys, len : Nat] /\ WellFormed(Op(c))
  BY OpFacts DEF Doing, Sound, Op, CallInv, AllSound
<1>2. QED
  BY <1>1, Constants DEF WellFormed, NewLen

\* The append touches the log and nothing else.
LEMMA AppendFacts ==
  ASSUME CallInv, NEW c \in Clients, AppendRecord(c)
  PROVE  /\ UNCHANGED <<limitsVars, durable, data, observed>>
         /\ req[c].step = "append" /\ req' = [req EXCEPT ![c] = [req[c] EXCEPT !.step = "store"]]
         /\ \A d \in Clients \ {c} : req'[d] = req[d]
         /\ req'[c] \in Reqs /\ req'[c].step = "store" /\ req'[c].call = req[c].call
         /\ req'[c].op = req[c].op /\ req'[c].delta = req[c].delta
         /\ req'[c].unaudited = req[c].unaudited
<1>1. /\ req' = [req EXCEPT ![c] = [req[c] EXCEPT !.step = "store"]] /\ req[c].step = "append"
      /\ UNCHANGED <<limitsVars, durable, data, observed>>
  BY DEF AppendRecord
<1>2. req \in [Clients -> Reqs] /\ req[c] \in Reqs /\ "store" \in Doing
  BY DEF CallInv, AllSound, Doing
<1>3. [req[c] EXCEPT !.step = "store"] \in Reqs
  BY <1>2 DEF Reqs
<1>4. QED
  BY <1>1, <1>2, <1>3 DEF Reqs

LEMMA SoundAppend ==
  ASSUME CallInv, NEW c \in Clients, AppendRecord(c)
  PROVE  CallInv'
<1> StateOK /\ AllSound /\ LimitsTypeOK
  BY DEF CallInv, StateOK
<1>1. UNCHANGED <<limitsVars, durable, data, observed>>
  BY AppendFacts
<1>2. UNCHANGED limiters /\ StateOK'
  BY <1>1 DEF StateOK, limitsVars, quotaVars, usageVars, throttleVars, observed, LimitsTypeOK
<1>3. PICK t : t = [req[c] EXCEPT !.step = "store"]
  OBVIOUS
<1>4. req' = [req EXCEPT ![c] = t] /\ req'[c] = t /\ t \in Reqs
  BY <1>3, AppendFacts DEF AllSound
<1>5. /\ t.step = "store" /\ t.call = req[c].call /\ t.op = req[c].op
      /\ t.unaudited = req[c].unaudited /\ req[c].step = "append"
  BY <1>4, AppendFacts
<1>6. Sound(req[c], Len(limiters)) /\ Len(limiters) \in Nat
  BY LenProperties DEF AllSound, LimitsTypeOK
<1>7. Sound(t, Len(limiters))
  BY <1>5, <1>6 DEF Sound, Doing, Admitting
<1>8. AllSound'
  <2>1. LimitsTypeOK' /\ Len(limiters) <= Len(limiters') /\ Sound(t, Len(limiters'))
    BY <1>2, <1>6, <1>7 DEF StateOK
  <2>2. QED
    BY <1>4, <2>1, MoveCall
<1>9. QED
  BY <1>2, <1>8 DEF CallInv

\* Where a call is when its write has landed.
LEMMA StoreMoves ==
  ASSUME NEW c \in Clients, Store(c)
  PROVE  req' = [req EXCEPT ![c] = IF req[c].delta = 0 THEN NextOp(req[c])
                                   ELSE [req[c] EXCEPT !.step = "adjust", !.unaudited = 1]]
<1>1. CASE req[c].delta = 0
  BY <1>1 DEF Store
<1>2. CASE req[c].delta # 0
  BY <1>2 DEF Store
<1>3. QED
  BY <1>1, <1>2

LEMMA SoundStore ==
  ASSUME CallInv, NEW c \in Clients, Store(c)
  PROVE  CallInv'
<1> StateOK /\ AllSound /\ LimitsTypeOK
  BY DEF CallInv, StateOK
<1> DEFINE r == req[c]
           a == [r EXCEPT !.step = "adjust", !.unaudited = 1]
           t == IF r.delta = 0 THEN NextOp(r) ELSE a
<1>1. r \in Reqs /\ Sound(r, Len(limiters)) /\ r.step = "store"
  BY DEF AllSound, Store
<1>2. Op(c).key \in Keys /\ NewLen(Op(c)) \in 0..MaxValueSize \cup {None}
  BY <1>1, NewLenType
<1>3. /\ data' = [data EXCEPT ![Op(c).key] = NewLen(Op(c))]
      /\ req' = [req EXCEPT ![c] = t]
      /\ UNCHANGED <<limitsVars, durable, observed>>
  BY StoreMoves DEF Store
<1>4. StateOK' /\ UNCHANGED limiters
  <2>1. data' \in [Keys -> 0..MaxValueSize \cup {None}]
    BY <1>2, <1>3 DEF StateOK
  <2>2. LimitsTypeOK' /\ UNCHANGED limiters
    BY <1>3 DEF limitsVars, quotaVars, usageVars, throttleVars, LimitsTypeOK
  <2>3. QED
    BY <1>3, <2>1, <2>2 DEF StateOK, observed
<1>5. Len(limiters) \in Nat
  BY LenProperties DEF LimitsTypeOK
<1>6. NextOp(r) \in Reqs /\ Sound(NextOp(r), Len(limiters))
  BY <1>1, <1>5, NextOpSound DEF Doing
<1>7. a \in Reqs
  <2>1. "adjust" \in Doing
    BY DEF Doing
  <2>2. QED
    BY <1>1, <2>1 DEF Reqs
<1>8. a.step = "adjust" /\ a.call = r.call /\ a.op = r.op
  BY <1>1 DEF Reqs
<1> HIDE DEF a
<1>9. Sound(a, Len(limiters))
  BY <1>1, <1>8 DEF Sound, Doing, Admitting
<1>10. t \in Reqs /\ Sound(t, Len(limiters))
  BY <1>6, <1>7, <1>9
<1> HIDE DEF t
<1>11. AllSound'
  <2>1. LimitsTypeOK' /\ Len(limiters) <= Len(limiters') /\ Sound(t, Len(limiters'))
    BY <1>4, <1>5, <1>10 DEF StateOK
  <2>2. QED
    BY <1>3, <1>10, <2>1, MoveCall
<1>12. QED
  BY <1>4, <1>11 DEF CallInv

LEMMA SoundAdjust ==
  ASSUME CallInv, NEW c \in Clients, Adjust(c)
  PROVE  CallInv' /\ used' \in Nat
<1> StateOK /\ AllSound /\ LimitsTypeOK
  BY DEF CallInv, StateOK
<1> DEFINE t == [req[c] EXCEPT !.step = "persist", !.total = used']
<1>1. req[c] \in Reqs /\ Sound(req[c], Len(limiters)) /\ req[c].step = "adjust"
  BY DEF AllSound, Adjust
<1>2. /\ used' = Adjusted(req[c].delta)
      /\ req' = [req EXCEPT ![c] = t]
      /\ UNCHANGED <<quotaVars, stored_usage, throttleVars, operator, durable, data, observed>>
  BY DEF Adjust, diskVars
<1>3. used \in Nat /\ req[c].delta \in Int
  BY <1>1 DEF LimitsTypeOK, Reqs
<1>4. used' \in Nat
  BY <1>2, <1>3 DEF Adjusted
<1>5. LimitsTypeOK' /\ UNCHANGED limiters
  BY <1>2, <1>4 DEF LimitsTypeOK, quotaVars, throttleVars
<1>6. StateOK'
  BY <1>2, <1>5 DEF StateOK, observed
<1>7. t \in Reqs
  <2>1. "persist" \in Doing
    BY DEF Doing
  <2>2. QED
    BY <1>1, <1>4, <2>1 DEF Reqs
<1>8. t.step = "persist" /\ t.call = req[c].call /\ t.op = req[c].op /\ t.total = used'
  BY <1>1 DEF Reqs
<1> HIDE DEF t
<1>9. Sound(t, Len(limiters))
  BY <1>1, <1>4, <1>8 DEF Sound, Doing, Admitting
<1>10. AllSound'
  <2>1. Len(limiters) <= Len(limiters') /\ Sound(t, Len(limiters'))
    BY <1>5, <1>9, LenProperties DEF LimitsTypeOK
  <2>2. QED
    BY <1>2, <1>5, <1>7, <2>1, MoveCall
<1>11. QED
  BY <1>4, <1>6, <1>10 DEF CallInv

LEMMA SoundPersist ==
  ASSUME CallInv, NEW c \in Clients, Persist(c)
  PROVE  CallInv'
<1> StateOK /\ AllSound /\ LimitsTypeOK
  BY DEF CallInv, StateOK
<1> DEFINE t == NextOp(req[c])
<1>1. req[c] \in Reqs /\ Sound(req[c], Len(limiters)) /\ req[c].step = "persist"
  BY DEF AllSound, Persist
<1>2. /\ req' = [req EXCEPT ![c] = t]
      /\ UNCHANGED <<quotaVars, used, throttleVars, operator, durable, data, wanted, raced,
                     cap, apart, window>>
      /\ stored_usage' \in {req[c].total, stored_usage}
  BY DEF Persist, TotalToStore
<1>3. in_order' \in BOOLEAN
  <2>1. CASE in_order' = FALSE
    BY <2>1
  <2>2. CASE in_order' = (in_order /\ \A d \in Clients \ {c} : req[d].step # "persist")
    BY <2>2, Zenon
  <2>3. QED
    BY <2>1, <2>2 DEF Persist
<1>4. stored_usage' \in Nat \cup {None}
  BY <1>1, <1>2 DEF LimitsTypeOK, Sound
<1>5. LimitsTypeOK' /\ UNCHANGED limiters
  BY <1>2, <1>4 DEF LimitsTypeOK, quotaVars, throttleVars
<1>6. StateOK'
  BY <1>2, <1>3, <1>5 DEF StateOK
<1>7. Len(limiters) \in Nat
  BY LenProperties DEF LimitsTypeOK
<1>8. t \in Reqs /\ Sound(t, Len(limiters))
  BY <1>1, <1>7, NextOpSound DEF Doing
<1> HIDE DEF t
<1>9. AllSound'
  <2>1. Len(limiters) <= Len(limiters') /\ Sound(t, Len(limiters'))
    BY <1>5, <1>7, <1>8
  <2>2. QED
    BY <1>2, <1>5, <1>8, <2>1, MoveCall
<1>10. QED
  BY <1>6, <1>9 DEF CallInv

\* An update that is merged into a quota is a quota; Told says the same of it.
LEMMA MergeType ==
  ASSUME NEW body \in Bodies, NEW quota \in Quotas
  PROVE  Merge(body, quota) \in Quotas /\ Told(body, quota) = Merge(body, quota)
<1>1. body \in [max_bytes : Nat \cup {None}, max_ops_per_sec : Nat \cup {None}]
  BY LimitsAssumption DEF LimitsAssumption
<1>2. Merge(body, quota) \in Quotas
  BY <1>1 DEF Merge, OrElse, Quotas
<1>3. Told(body, quota) = Merge(body, quota)
  BY <1>1 DEF Merge, OrElse, Quotas, Told
<1>4. QED
  BY <1>2, <1>3

\* Operators do not touch the calls.
LEMMA SoundOperator ==
  ASSUME CallInv, NEW o \in Operators,
         OperatorStarts(o) \/ OperatorStores(o) \/ OperatorCaches(o)
  PROVE  CallInv'
<1> StateOK /\ AllSound /\ LimitsTypeOK
  BY DEF CallInv, StateOK
<1> DEFINE Slots == [step : {"idle", "store", "cache", "uncache"},
                     body : Bodies \cup {None}, quota : Quotas \cup {None}]
<1>1. operator \in [Operators -> Slots] /\ {cached, stored_quota} \subseteq Quotas \cup {None}
  BY DEF LimitsTypeOK
<1>2. NoCall \in Slots
  BY DEF NoCall
<1>3. /\ UNCHANGED <<usageVars, throttleVars, durable, data, req, cap, apart, in_order, window>>
      /\ raced' \in {raced, raced \/ BusyOperators # {}}
  BY DEF OperatorStarts, OperatorStores, OperatorCaches, SetQuotaRead, ClearQuotaStore,
         SetQuotaStore, SetQuotaFails, SetQuotaCache, ClearQuotaCache, observed, diskVars
<1>4. /\ operator' \in [Operators -> Slots]
      /\ {cached', stored_quota'} \subseteq Quotas \cup {None}
  <2>1. ASSUME NEW body \in Bodies, SetQuotaRead(o, body)
        PROVE  <1>4!1 /\ <1>4!2
    <3>1. Merge(body, Quota) \in Quotas
      BY RateType, MergeType
    <3>2. [step |-> "store", body |-> body, quota |-> Merge(body, Quota)] \in Slots
      BY <3>1
    <3> HIDE DEF Slots
    <3>3. QED
      BY <1>1, <2>1, <3>2 DEF SetQuotaRead, quotaVars
  <2>2. CASE ClearQuotaStore(o)
    <3>1. [operator[o] EXCEPT !.step = "uncache"] \in Slots
      BY <1>1
    <3>2. operator' = [operator EXCEPT ![o] = [operator[o] EXCEPT !.step = "uncache"]]
      BY <2>2 DEF ClearQuotaStore
    <3> HIDE DEF Slots
    <3>3. QED
      BY <1>1, <2>2, <3>1, <3>2 DEF ClearQuotaStore
  <2>3. CASE SetQuotaStore(o)
    <3>1. [operator[o] EXCEPT !.step = "cache"] \in Slots /\ operator[o].quota \in Quotas \cup {None}
      BY <1>1
    <3>2. operator' = [operator EXCEPT ![o] = [operator[o] EXCEPT !.step = "cache"]]
      BY <2>3 DEF SetQuotaStore
    <3> HIDE DEF Slots
    <3>3. QED
      BY <1>1, <2>3, <3>1, <3>2 DEF SetQuotaStore
  <2>4. CASE SetQuotaFails(o)
    <3> HIDE DEF Slots
    <3> QED BY <1>1, <1>2, <2>4 DEF SetQuotaFails, quotaVars
  <2>5. CASE SetQuotaCache(o)
    <3>1. operator[o].quota \in Quotas \cup {None}
      BY <1>1
    <3> HIDE DEF Slots
    <3> QED BY <1>1, <1>2, <2>5, <3>1 DEF SetQuotaCache
  <2>6. CASE ClearQuotaCache(o)
    <3> HIDE DEF Slots
    <3> QED BY <1>1, <1>2, <2>6 DEF ClearQuotaCache
  <2>7. QED
    BY <2>1, <2>2, <2>3, <2>4, <2>5, <2>6 DEF OperatorStarts, OperatorStores, OperatorCaches
<1>5. LimitsTypeOK'
  BY <1>3, <1>4 DEF LimitsTypeOK, usageVars, throttleVars
<1>6. raced' \in BOOLEAN
  <2>1. (raced \/ BusyOperators # {}) \in BOOLEAN /\ raced \in BOOLEAN
    BY DEF StateOK
  <2>2. QED
    BY <1>3, <2>1
<1>7. StateOK'
  BY <1>3, <1>5, <1>6 DEF StateOK
<1>8. AllSound'
  BY <1>3 DEF AllSound, throttleVars
<1>9. QED
  BY <1>7, <1>8 DEF CallInv

LEMMA SoundTick ==
  ASSUME CallInv, Tick
  PROVE  /\ CallInv' /\ Len(limiters') = Len(limiters)
         /\ \A i \in 1..Len(limiters) : /\ limiters'[i].rate = limiters[i].rate
                                        /\ limiters'[i].left = limiters[i].rate
<1> StateOK /\ AllSound /\ LimitsTypeOK
  BY DEF CallInv, StateOK
<1> DEFINE L == [rate : Nat \ {0}, left : Nat]
           Full(l) == [l EXCEPT !.left = l.rate]
<1>1. limiters \in Seq(L) /\ Len(limiters) \in Nat /\ DOMAIN limiters = 1..Len(limiters)
  BY LenProperties DEF LimitsTypeOK
<1>2. /\ limiters' = [i \in 1..Len(limiters) |-> Full(limiters[i])]
      /\ window' = [charged |-> 0, disturbed |-> \E c \in Clients : InAdmission(c)]
      /\ UNCHANGED <<quotaVars, usageVars, current, operator, durable, data, req, wanted, raced,
                     cap, apart, in_order>>
  BY <1>1 DEF Tick, RefillLimiters, diskVars
<1>3. \A i \in 1..Len(limiters) : limiters[i] \in L
  BY <1>1, ElementOfSeq
<1>4. \A l \in L : Full(l) \in L /\ Full(l).rate = l.rate /\ Full(l).left = l.rate
  OBVIOUS
<1> HIDE DEF L, Full
<1>5. limiters' \in Seq(L) /\ Len(limiters') = Len(limiters)
  BY <1>1, <1>2, <1>3, <1>4, SeqDef
<1>6. \A i \in 1..Len(limiters) : /\ limiters'[i].rate = limiters[i].rate
                                  /\ limiters'[i].left = limiters[i].rate
                                  /\ limiters'[i].left <= limiters'[i].rate
  <2>1. \A i \in 1..Len(limiters) : limiters[i].rate \in Nat
    BY <1>3 DEF L
  <2>2. QED
    BY <1>2, <1>3, <1>4, <2>1
<1>7. DOMAIN limiters' = 1..Len(limiters)
  BY <1>5, LenProperties
<1>8. LimitsTypeOK'
  BY <1>2, <1>5, <1>6, <1>7 DEF LimitsTypeOK, quotaVars, usageVars, L
<1>9. StateOK'
  <2>1. window' \in [charged : Nat, disturbed : BOOLEAN]
    BY <1>2
  <2>2. QED
    BY <1>2, <1>8, <2>1 DEF StateOK
<1>10. AllSound'
  BY <1>2, <1>5 DEF AllSound
<1>11. QED
  BY <1>5, <1>6, <1>9, <1>10 DEF CallInv

\* What is stored is a number of bytes.
LEMMA StoredBytesType ==
  ASSUME StateOK
  PROVE  /\ [k \in Keys |-> EntryBytes(k, data[k])] \in [Keys -> Nat]
         /\ StoredBytes(data) \in Nat
<1>1. \A k \in Keys : EntryBytes(k, data[k]) \in Nat
  BY Constants DEF StateOK, EntryBytes
<1>2. [k \in Keys |-> EntryBytes(k, data[k])] \in [Keys -> Nat]
  BY <1>1
<1>3. IsFiniteSet(Keys)
  BY RequestsAssumption DEF RequestsAssumption
<1>4. QED
  BY <1>2, <1>3, SumNatural DEF StoredBytes

\* What a start-up replays is data, of a size.
LEMMA ReplayedType ==
  ASSUME CallInv, LogOK, Restart
  PROVE  data' \in [Keys -> 0..MaxValueSize \cup {None}] /\ StoredBytes(data') \in Nat
<1>1. data' = Replayed
  BY DEF Restart
<1>2. /\ data \in [Keys -> 0..MaxValueSize \cup {None}]
      /\ log \in [Keys -> 0..MaxValueSize \cup {None, NoRecord}]
  BY DEF CallInv, StateOK, LogOK
<1>3. data' \in [Keys -> 0..MaxValueSize \cup {None}]
  BY <1>1, <1>2 DEF Replayed
<1>4. \A k \in Keys : EntryBytes(k, data'[k]) \in Nat
  BY <1>3, Constants DEF EntryBytes
<1>5. [k \in Keys |-> EntryBytes(k, data'[k])] \in [Keys -> Nat]
  BY <1>4
<1>6. IsFiniteSet(Keys)
  BY RequestsAssumption DEF RequestsAssumption
<1>7. QED
  BY <1>3, <1>5, <1>6, SumNatural DEF StoredBytes

LEMMA SoundRestart ==
  ASSUME CallInv, LogOK, Restart
  PROVE  CallInv'
<1> StateOK /\ AllSound /\ LimitsTypeOK
  BY DEF CallInv, StateOK
<1> DEFINE found == StoredBytes(data')
<1>0. data' \in [Keys -> 0..MaxValueSize \cup {None}] /\ found \in Nat
  BY ReplayedType
<1>1. /\ LimitsRestart(durable, found)
      /\ req' = [c \in Clients |-> Idle] /\ raced' = FALSE
      /\ in_order' = (durable /\ in_order /\ data' = data /\ \A c \in Clients : ~Writing(c))
      /\ window' = [charged |-> 0, disturbed |-> FALSE]
      /\ cap' = (IF data' = data \/ cap = Unlimited THEN cap ELSE Max({cap, found}))
      /\ UNCHANGED <<durable, apart>>
  BY DEF Restart
<1> HIDE DEF found
<1>2. /\ used' \in Nat /\ limiters' = <<>> /\ current' = 0
      /\ operator' = [o \in Operators |-> NoCall]
      /\ {cached', stored_quota'} \subseteq Quotas \cup {None}
      /\ stored_usage' \in Nat \cup {None}
  BY <1>0, <1>1 DEF LimitsRestart, LimitsTypeOK
<1>3. /\ limiters' \in Seq([rate : Nat \ {0}, left : Nat]) /\ Len(limiters') = 0
      /\ DOMAIN limiters' = {} /\ current' \in 0..Len(limiters')
  BY <1>2, EmptySeq
<1>4. LimitsTypeOK'
  BY <1>2, <1>3 DEF LimitsTypeOK, NoCall
<1>5. in_order' \in BOOLEAN
  BY <1>1, Zenon
<1>6. window' \in [charged : Nat, disturbed : BOOLEAN]
  BY <1>1
<1>a. cap' \in Nat \cup {Unlimited}
  <2>1. cap \in Nat \cup {Unlimited} /\ (cap \in Nat => Max({cap, found}) \in Nat)
    BY <1>0, MaxOfTwo DEF StateOK
  <2>2. QED
    BY <1>1, <2>1
<1>7. StateOK'
  BY <1>0, <1>1, <1>4, <1>5, <1>6, <1>a DEF StateOK
<1>8. AllSound'
  BY <1>1, <1>3, IdleSound DEF AllSound
<1>9. QED
  BY <1>7, <1>8 DEF CallInv

\* Every step keeps the calls sound.
LEMMA CallInvNext ==
  ASSUME CallInv, LogOK, [Next]_vars
  PROVE  CallInv'
<1>1. ASSUME NEW c \in Clients,
             (\E call \in Calls : Receive(c, call)) \/ Admission(c) \/ Operation(c)
      PROVE  CallInv'
  BY <1>1, SoundReceive, SoundLookup, SoundInstall, SoundAdmit, SoundAnswered, SoundPlan,
     SoundAppend, SoundStore, SoundAdjust, SoundPersist DEF Admission, Operation
<1>2. ASSUME NEW o \in Operators, OperatorStarts(o) \/ OperatorStores(o) \/ OperatorCaches(o)
      PROVE  CallInv'
  BY <1>2, SoundOperator
<1>3. CASE UNCHANGED vars
  BY <1>3 DEF vars, limitsVars, diskVars, quotaVars, usageVars, throttleVars, observed,
              CallInv, StateOK, LimitsTypeOK, AllSound
<1>4. QED
  BY <1>1, <1>2, <1>3, SoundTick, SoundRestart DEF Next

LEMMA CallInvInit ==
  ASSUME Init
  PROVE  CallInv
<1>1. /\ limiters \in Seq([rate : Nat \ {0}, left : Nat]) /\ Len(limiters) = 0
      /\ DOMAIN limiters = {} /\ current \in 0..Len(limiters)
  BY EmptySeq DEF Init, LimitsInit
<1>2. LimitsTypeOK
  BY <1>1 DEF Init, LimitsInit, LimitsTypeOK, NoCall
<1>3. window \in [charged : Nat, disturbed : BOOLEAN] /\ {raced, apart, in_order} \subseteq BOOLEAN
  BY DEF Init
<1>4. StateOK
  BY <1>2, <1>3 DEF Init, StateOK
<1>5. AllSound
  BY <1>1, IdleSound DEF Init, AllSound
<1>6. QED
  BY <1>4, <1>5 DEF CallInv

\* Every step keeps the log's records well-typed.
LEMMA LogOKNext ==
  ASSUME CallInv, LogOK, [Next]_vars
  PROVE  LogOK'
<1> DEFINE D == 0..MaxValueSize \cup {None, NoRecord}
<1>1. log \in [Keys -> D] /\ torn \in BOOLEAN /\ NoRecords \in [Keys -> D]
  BY DEF LogOK, NoRecords
<1>2. CASE UNCHANGED <<log, torn>>
  BY <1>2 DEF LogOK
<1>3. ASSUME NEW c \in Clients, AppendRecord(c) \/ AppendFails(c)
      PROVE  LogOK'
  <2>1. Op(c).key \in Keys /\ NewLen(Op(c)) \in D
    BY <1>3, NewLenType DEF AppendRecord, AppendFails
  <2>2. Logged(c) \in [Keys -> D]
    BY <1>1, <2>1 DEF Logged
  <2>3. log' \in {log, Logged(c)} /\ torn' \in {torn, TRUE}
    BY <1>3 DEF AppendRecord, AppendFails
  <2>4. QED
    BY <1>1, <2>2, <2>3 DEF LogOK
<1>4. CASE RotateIfNeeded
  BY <1>1, <1>4 DEF RotateIfNeeded, LogOK
<1>5. ASSUME NEW c \in Clients,
             \/ \E call \in Calls : Receive(c, call)
             \/ Admission(c) \/ Plan(c) \/ Refuse(c) \/ StoreFails(c) \/ Adjust(c)
      PROVE  UNCHANGED <<log, torn>>
  BY <1>5 DEF Receive, Admission, LookupLimiter, Install, Admit, Throttled, Plan, Refuse,
       StoreFails, Adjust, diskVars
<1>6. ASSUME NEW c \in Clients, Store(c) \/ Persist(c)
      PROVE  RotateIfNeeded
  BY <1>6 DEF Store, Persist, RotateIfNeeded
<1>7. ASSUME NEW o \in Operators, OperatorStarts(o) \/ OperatorStores(o) \/ OperatorCaches(o)
      PROVE  UNCHANGED <<log, torn>>
  BY <1>7 DEF OperatorStarts, OperatorStores, OperatorCaches, diskVars
<1>8. CASE Tick \/ UNCHANGED vars
  BY <1>2, <1>8 DEF Tick, vars, diskVars
<1>9. CASE Restart
  BY <1>1, <1>9 DEF Restart, LogOK
<1>10. QED
  BY <1>2, <1>3, <1>4, <1>5, <1>6, <1>7, <1>8, <1>9 DEF Next, Operation

LEMMA LogOKAlways == Spec => []LogOK /\ []CallInv
<1>1. Init => LogOK
  BY DEF Init, LogOK, NoRecords
<1>2. CallInv /\ LogOK /\ [Next]_vars => CallInv' /\ LogOK'
  BY CallInvNext, LogOKNext
<1>3. Init => CallInv
  BY CallInvInit
<1>4. QED
  BY <1>1, <1>2, <1>3, PTL DEF Spec

LEMMA CallInvAlways == Spec => []CallInv
BY LogOKAlways, PTL

\* README.md:75: every operation that landed has its audit line when its call is
\* over, wherever in the call it ended.
THEOREM AuditedAlways == Spec => []AuditedWhenAnswered
<1>1. CallInv => AuditedWhenAnswered
  BY DEF CallInv, AllSound, Sound, AuditedWhenAnswered
<1>2. QED
  BY <1>1, CallInvAlways, PTL

\* grpc.rs:125-145 and 513-522: whatever a call writes its caller may write.
THEOREM WritesPermittedAlways == Spec => []WritesPermitted
<1>1. ASSUME CallInv, NEW c \in Clients, Writing(c), ~Insecure
      PROVE  /\ req[c].call.token.genuine /\ req[c].call.token.tenant = Own
             /\ PermFor(Op(c)) \in req[c].call.token.perms \/ "admin" \in req[c].call.token.perms
  <2> DEFINE call == req[c].call
  <2>1. /\ call \in Calls /\ Accepts(call) /\ req[c].op \in 1..Len(call.ops)
        /\ Op(c).op \in {"put", "delete"}
    BY <1>1 DEF CallInv, AllSound, Sound, Doing, Writing, WellFormed, Op
  <2>2. call.ops \in Seq([op : {"put", "delete", "other"}, key : Keys, len : Nat])
        /\ (call.rpc = "get" => call.ops = <<>>)
    BY <2>1, CallsAssumption DEF CallsAssumption
  <2>3. Op(c) \in Range(call.ops) /\ call.rpc # "get"
    BY <2>1, <2>2, LenProperties DEF Op, Range
  <2>4. PermFor(Op(c)) \in Needs(call)
    BY <2>1, <2>3 DEF Needs
  <2>5. PICK principal \in Intercept(call.token) :
          \A perm \in Needs(call) : Authorize(principal, perm)
    BY <2>1 DEF Accepts
  <2>6. principal = call.token /\ principal # Nobody /\ call.token.genuine
    BY <1>1, <2>5 DEF Intercept
  <2>7. call.token.tenant = Own /\ ClaimsAllow(call.token, PermFor(Op(c)))
    BY <2>4, <2>5, <2>6 DEF Authorize
  <2>8. QED
    BY <2>6, <2>7 DEF ClaimsAllow
<1>2. CallInv => WritesPermitted
  BY <1>1 DEF WritesPermitted
<1>3. QED
  BY <1>2, CallInvAlways, PTL

-----------------------------------------------------------------------------
(* Operators: QuotaKept *)

\* What an operator's call has in hand is a quota, and while calls do not
\* overlap it is the one the operators expect: read and merged, then stored,
\* then cached, with the record and the cache equal at either end.
OperatorsSound ==
  /\ wanted \in Quotas
  /\ \A o \in Operators : operator[o].step \in {"store", "cache"} =>
       operator[o].body \in Bodies /\ operator[o].quota \in Quotas

Unraced ==
  /\ Quota = wanted
  /\ \A o, p \in BusyOperators : o = p
  /\ BusyOperators \subseteq {o \in Operators : operator[o].step = "store"}
       => stored_quota = cached
  /\ \A o \in Operators :
       /\ operator[o].step \in {"store", "cache"} =>
            operator[o].quota = Merge(operator[o].body, wanted)
       /\ operator[o].step = "cache" => stored_quota = operator[o].quota
       /\ operator[o].step = "uncache" => stored_quota = None

QuotaInv == OperatorsSound /\ (~raced => Unraced)

\* A call begins.
LEMMA KeptStarts ==
  ASSUME CallInv, QuotaInv, NEW o \in Operators, OperatorStarts(o)
  PROVE  QuotaInv'
<1> OperatorsSound /\ (~raced => Unraced)
  BY DEF QuotaInv
<1>1. /\ operator \in [Operators -> [step : {"idle", "store", "cache", "uncache"},
                                     body : Bodies \cup {None}, quota : Quotas \cup {None}]]
      /\ Quota \in Quotas
  BY RateType DEF CallInv, StateOK, LimitsTypeOK
<1>2. UNCHANGED <<cached, wanted>> /\ raced' = (raced \/ BusyOperators # {})
  BY DEF OperatorStarts, SetQuotaRead, ClearQuotaStore, quotaVars
<1>3. ~raced' => ~raced /\ \A p \in Operators : operator[p].step = "idle"
  BY <1>2 DEF BusyOperators
<1>4. ASSUME NEW body \in Bodies, SetQuotaRead(o, body)
      PROVE  QuotaInv'
  <2> DEFINE t == [step |-> "store", body |-> body, quota |-> Merge(body, Quota)]
  <2>1. operator' = [operator EXCEPT ![o] = t] /\ UNCHANGED stored_quota
    BY <1>4 DEF SetQuotaRead, quotaVars
  <2>2. Merge(body, Quota) \in Quotas
    BY <1>1, MergeType
  <2>3. t.step = "store" /\ t.body = body /\ t.quota = Merge(body, Quota)
    OBVIOUS
  <2> HIDE DEF t
  <2>4. operator'[o] = t /\ \A p \in Operators \ {o} : operator'[p] = operator[p]
    BY <1>1, <2>1
  <2>5. OperatorsSound'
    BY <1>2, <2>2, <2>3, <2>4 DEF OperatorsSound
  <2>6. ~raced' => Unraced'
    BY <1>2, <1>3, <2>1, <2>3, <2>4 DEF Unraced, BusyOperators, Quota
  <2>7. QED
    BY <2>5, <2>6 DEF QuotaInv
<1>5. CASE ClearQuotaStore(o)
  <2>1. /\ operator'[o].step = "uncache" /\ stored_quota' = None
        /\ \A p \in Operators \ {o} : operator'[p] = operator[p]
    BY <1>1, <1>5 DEF ClearQuotaStore
  <2>2. OperatorsSound'
    BY <1>2, <2>1 DEF OperatorsSound
  <2>3. ~raced' => Unraced'
    BY <1>2, <1>3, <2>1 DEF Unraced, BusyOperators, Quota
  <2>4. QED
    BY <2>2, <2>3 DEF QuotaInv
<1>6. QED
  BY <1>4, <1>5 DEF OperatorStarts

\* The record is stored, or the call fails.
LEMMA KeptStores ==
  ASSUME CallInv, QuotaInv, NEW o \in Operators, OperatorStores(o)
  PROVE  QuotaInv'
<1> OperatorsSound /\ (~raced => Unraced)
  BY DEF QuotaInv
<1>1. operator \in [Operators -> [step : {"idle", "store", "cache", "uncache"},
                                  body : Bodies \cup {None}, quota : Quotas \cup {None}]]
  BY DEF CallInv, StateOK, LimitsTypeOK
<1>2. UNCHANGED <<cached, wanted, raced>> /\ operator[o].step = "store"
  BY DEF OperatorStores, SetQuotaStore, SetQuotaFails, quotaVars, observed
<1>3. ~raced => \A p \in Operators \ {o} : operator[p].step = "idle"
  BY <1>2 DEF Unraced, BusyOperators
<1>4. CASE SetQuotaStore(o)
  <2>1. /\ operator'[o].step = "cache" /\ stored_quota' = operator[o].quota
        /\ operator'[o].quota = operator[o].quota /\ operator'[o].body = operator[o].body
        /\ \A p \in Operators \ {o} : operator'[p] = operator[p]
    BY <1>1, <1>4 DEF SetQuotaStore
  <2>2. OperatorsSound'
    BY <1>2, <2>1 DEF OperatorsSound
  <2>3. ~raced' => Unraced'
    BY <1>2, <1>3, <2>1 DEF Unraced, BusyOperators, Quota
  <2>4. QED
    BY <2>2, <2>3 DEF QuotaInv
<1>5. CASE SetQuotaFails(o)
  <2>1. /\ operator'[o].step = "idle" /\ UNCHANGED stored_quota
        /\ \A p \in Operators \ {o} : operator'[p] = operator[p]
    BY <1>1, <1>5 DEF SetQuotaFails, NoCall, quotaVars
  <2>2. OperatorsSound'
    BY <1>2, <2>1 DEF OperatorsSound
  <2>3. ~raced' => Unraced'
    BY <1>2, <1>3, <2>1 DEF Unraced, BusyOperators, Quota
  <2>4. QED
    BY <2>2, <2>3 DEF QuotaInv
<1>6. QED
  BY <1>4, <1>5 DEF OperatorStores

\* The cache follows, and the operator is answered.
LEMMA KeptCaches ==
  ASSUME CallInv, QuotaInv, NEW o \in Operators, OperatorCaches(o)
  PROVE  QuotaInv'
<1> OperatorsSound /\ (~raced => Unraced)
  BY DEF QuotaInv
<1>1. operator \in [Operators -> [step : {"idle", "store", "cache", "uncache"},
                                  body : Bodies \cup {None}, quota : Quotas \cup {None}]]
  BY DEF CallInv, StateOK, LimitsTypeOK
<1>2. /\ UNCHANGED <<stored_quota, raced>> /\ operator[o].step \in {"cache", "uncache"}
      /\ operator' = [operator EXCEPT ![o] = NoCall]
  BY DEF OperatorCaches, SetQuotaCache, ClearQuotaCache
<1>3. ~raced => \A p \in Operators \ {o} : operator[p].step = "idle"
  BY <1>2 DEF Unraced, BusyOperators
<1>4. operator'[o].step = "idle" /\ \A p \in Operators \ {o} : operator'[p] = operator[p]
  BY <1>1, <1>2 DEF NoCall
<1>5. wanted' \in Quotas /\ (~raced => Quota' = wanted' /\ stored_quota = cached')
  <2>1. CASE SetQuotaCache(o) /\ wanted' = Told(operator[o].body, wanted)
    <3>1. operator[o].step = "cache" /\ cached' = operator[o].quota
      BY <2>1 DEF SetQuotaCache
    <3>2. operator[o].body \in Bodies /\ operator[o].quota \in Quotas /\ wanted \in Quotas
      BY <3>1 DEF OperatorsSound
    <3>3. wanted' = Merge(operator[o].body, wanted) /\ wanted' \in Quotas
      BY <2>1, <3>2, MergeType
    <3>4. cached' # None
      BY <3>1, <3>2, Constants
    <3>5. QED
      BY <3>1, <3>3, <3>4 DEF Unraced, Quota
  <2>2. CASE ClearQuotaCache(o) /\ wanted' = DefaultQuota
    <3>1. operator[o].step = "uncache" /\ cached' = None
      BY <2>2 DEF ClearQuotaCache
    <3>2. QED
      BY <2>2, <3>1, Constants DEF Unraced, Quota
  <2>3. QED
    BY <2>1, <2>2 DEF OperatorCaches
<1>6. OperatorsSound'
  BY <1>4, <1>5 DEF OperatorsSound
<1>7. ~raced' => Unraced'
  BY <1>2, <1>3, <1>4, <1>5 DEF Unraced, BusyOperators
<1>8. QED
  BY <1>6, <1>7 DEF QuotaInv

\* A restart leaves what was stored, and ends every operator's call.
LEMMA KeptRestart ==
  ASSUME CallInv, QuotaInv, Restart
  PROVE  QuotaInv'
<1> OperatorsSound /\ (~raced => Unraced)
  BY DEF QuotaInv
<1>1. /\ stored_quota' = (IF durable THEN stored_quota ELSE None) /\ cached' = stored_quota'
      /\ operator' = [o \in Operators |-> NoCall] /\ raced' = FALSE
      /\ wanted' = IF durable /\ BusyOperators = {} /\ ~raced THEN wanted
                   ELSE IF cached' = None THEN DefaultQuota ELSE cached'
  BY DEF Restart, LimitsRestart
<1>2. \A o \in Operators : operator'[o].step = "idle"
  BY <1>1 DEF NoCall
<1>3. cached' \in Quotas \cup {None} /\ wanted \in Quotas /\ DefaultQuota \in Quotas
  BY <1>1, Constants DEF CallInv, StateOK, LimitsTypeOK, OperatorsSound
<1>4. wanted' \in Quotas
  BY <1>1, <1>3
<1>5. Quota' = wanted'
  BY <1>1 DEF Quota, Unraced
<1>6. QED
  BY <1>1, <1>2, <1>4, <1>5 DEF QuotaInv, OperatorsSound, Unraced, BusyOperators

LEMMA QuotaInvNext ==
  ASSUME CallInv, QuotaInv, [Next]_vars
  PROVE  QuotaInv'
<1>1. CASE UNCHANGED <<cached, stored_quota, operator, wanted, raced>>
  BY <1>1 DEF QuotaInv, OperatorsSound, Unraced, BusyOperators, Quota
<1>2. ASSUME NEW c \in Clients,
             (\E call \in Calls : Receive(c, call)) \/ Admission(c) \/ Operation(c)
      PROVE  UNCHANGED <<cached, stored_quota, operator, wanted, raced>>
  BY <1>2 DEF Admission, Operation, Receive, LookupLimiter, Install, Admit, Throttled, Plan,
     Refuse, AppendRecord, AppendFails, Store, StoreFails, Adjust, Persist, limitsVars, quotaVars, observed
<1>3. CASE Tick \/ UNCHANGED vars
  BY <1>1, <1>3 DEF Tick, vars, limitsVars, quotaVars, observed
<1>4. QED
  BY <1>1, <1>2, <1>3, KeptStarts, KeptStores, KeptCaches, KeptRestart DEF Next

LEMMA QuotaInvAlways == Spec => []QuotaInv
<1>1. ASSUME Init PROVE QuotaInv
  <2>1. /\ cached = None /\ stored_quota = None /\ wanted = DefaultQuota
        /\ \A o \in Operators : operator[o].step = "idle"
    BY <1>1 DEF Init, LimitsInit, NoCall
  <2>2. QED
    BY <2>1, Constants DEF QuotaInv, OperatorsSound, Unraced, BusyOperators, Quota
<1>2. CallInv /\ QuotaInv /\ [Next]_vars => QuotaInv'
  BY QuotaInvNext
<1>3. QED
  BY <1>1, <1>2, CallInvAlways, PTL DEF Spec

\* admin.rs:138: updates, failed updates and restarts included, the limits in
\* force are those the operators were told, unless their calls overlapped.
THEOREM QuotaKeptAlways == Spec => []QuotaKept
<1>1. QuotaInv => QuotaKept
  BY DEF QuotaInv, Unraced, QuotaKept
<1>2. QED
  BY <1>1, QuotaInvAlways, PTL

\* Types hold throughout.
THEOREM TypeCorrect == Spec => []TypeOK
<1>1. ASSUME CallInv, LogOK, QuotaInv PROVE TypeOK
  <2>1. ASSUME NEW c \in Clients
        PROVE  /\ req[c].step \in Admitting \cup {"idle", "next", "append", "store", "adjust",
                                                 "persist"}
               /\ req[c].step # "idle" => req[c].call \in Calls
               /\ req[c].step = "charge" => req[c].limiter \in DOMAIN limiters
               /\ req[c].step \in {"next", "append", "store", "adjust", "persist"} =>
                    req[c].op \in DOMAIN req[c].call.ops
               /\ req[c].step = "persist" => req[c].total \in Nat
    <3>1. req[c] \in Reqs /\ Sound(req[c], Len(limiters)) /\ DOMAIN limiters = 1..Len(limiters)
      BY <1>1, LenProperties DEF CallInv, AllSound, StateOK, LimitsTypeOK
    <3>2. req[c].call \in Calls => DOMAIN req[c].call.ops = 1..Len(req[c].call.ops)
      BY CallsAssumption, LenProperties DEF CallsAssumption
    <3>3. QED
      BY <3>1, <3>2 DEF Reqs, Sound, Doing
  <2>2. QED
    BY <1>1, <2>1 DEF CallInv, StateOK, LogOK, QuotaInv, OperatorsSound, TypeOK
<1>2. QED
  BY <1>1, CallInvAlways, LogOKAlways, QuotaInvAlways, PTL

-----------------------------------------------------------------------------
(* The rate limiter: RateHeld *)

\* In an undisturbed window what was let in and what the limiter has left are
\* together at most its rate, and whoever is about to charge holds this limiter.
RateInv ==
  ~window.disturbed =>
    /\ current = 0 => window.charged = 0
    /\ current # 0 => window.charged + limiters[current].left <= limiters[current].rate
    /\ \A c \in Clients : req[c].step = "charge" => current # 0 /\ req[c].limiter = current

\* Steps away from the limiter.
LEMMA RateFrame ==
  ASSUME RateInv, UNCHANGED <<limiters, current, window>>,
         \A d \in Clients : req'[d].step = "charge" =>
           req[d].step = "charge" /\ req'[d].limiter = req[d].limiter
  PROVE  RateInv'
BY DEF RateInv

\* Where a client's other steps leave it.
LEMMA LeavesCharge ==
  ASSUME CallInv, NEW c \in Clients,
         \/ \E call \in Calls : Receive(c, call)
         \/ Throttled(c) \/ Operation(c)
  PROVE  /\ UNCHANGED <<limiters, current, window>>
         /\ \A d \in Clients : req'[d].step = "charge" =>
              req[d].step = "charge" /\ req'[d].limiter = req[d].limiter
<1> req \in [Clients -> Reqs] /\ Sound(req[c], Len(limiters)) /\ Len(limiters) \in Nat
  BY LenProperties DEF CallInv, AllSound, StateOK, LimitsTypeOK
<1>1. UNCHANGED <<limiters, current, window>>
  BY DEF Receive, Throttled, Operation, Plan, Refuse, AppendRecord, AppendFails, Store, StoreFails, Adjust, Persist,
         limitsVars, throttleVars, observed
<1>2. \A d \in Clients \ {c} : req'[d] = req[d]
  BY DEF Receive, Throttled, Operation, Plan, Refuse, AppendRecord, AppendFails, Store, StoreFails, Adjust, Persist,
         Answered
<1>3. req'[c].step # "charge"
  <2>1. ASSUME NEW call \in Calls, Receive(c, call)
        PROVE  req'[c].step # "charge"
    <3> DEFINE r == [Idle EXCEPT !.call = call, !.rate = RateInForce, !.step = "lookup"]
    <3>1. /\ req'[c] = IF RateInForce = 0 \/ Cost(call) = 0 THEN GoOn(r, 1) ELSE r
          /\ Accepts(call)
      BY <2>1 DEF Receive
    <3>2. r.step = "lookup" /\ r.call = call /\ r.unaudited = 0
      BY DEF Idle
    <3> HIDE DEF r
    <3>3. GoOn(r, 1).step \in {"idle", "next"}
      BY <3>1, <3>2, GoOnSound
    <3>4. QED
      BY <3>1, <3>2, <3>3
  <2>2. CASE Throttled(c) \/ Refuse(c) \/ AppendFails(c) \/ StoreFails(c)
    BY <2>2 DEF Throttled, Refuse, AppendFails, StoreFails, Answered, Idle
  <2>3. CASE Plan(c)
    BY <2>3 DEF Plan, Reqs
  <2>a. CASE AppendRecord(c)
    BY <2>a, AppendFacts
  <2>4. CASE Store(c)
    <3>1. req[c].step \in Doing /\ req[c] \in Reqs
      BY <2>4 DEF Store, Doing
    <3>2. NextOp(req[c]).step \in {"idle", "next"}
      BY <3>1, NextOpSound
    <3>3. [req[c] EXCEPT !.step = "adjust", !.unaudited = 1].step = "adjust"
      BY <3>1 DEF Reqs
    <3>4. QED
      BY <2>4, <3>2, <3>3, StoreMoves
  <2>5. CASE Adjust(c)
    BY <2>5 DEF Adjust, Reqs
  <2>6. CASE Persist(c)
    <3>1. req[c].step \in Doing /\ req[c] \in Reqs
      BY <2>6 DEF Persist, Doing
    <3>2. NextOp(req[c]).step \in {"idle", "next"}
      BY <3>1, NextOpSound
    <3>3. QED
      BY <2>6, <3>2 DEF Persist
  <2>7. QED
    BY <2>1, <2>2, <2>3, <2>a, <2>4, <2>5, <2>6 DEF Operation
<1>4. QED
  BY <1>1, <1>2, <1>3

LEMMA RateLookup ==
  ASSUME CallInv, RateInv, NEW c \in Clients, LookupLimiter(c)
  PROVE  RateInv'
<1>1. /\ UNCHANGED <<limiters, current, window>>
      /\ \A d \in Clients \ {c} : req'[d] = req[d]
  BY DEF LookupLimiter, CallInv, AllSound, limitsVars, throttleVars, observed
<1>2. req'[c].step = "charge" => current # 0 /\ req'[c].limiter = current
  <2>1. req[c] \in Reqs
    BY DEF CallInv, AllSound
  <2>2. CASE LimiterFits(req[c].rate)
    <3>1. req'[c] = [req[c] EXCEPT !.limiter = current, !.step = "charge"]
      BY <2>2 DEF LookupLimiter, CallInv, AllSound
    <3>2. QED
      BY <2>1, <2>2, <3>1 DEF LimiterFits, Reqs
  <2>3. CASE ~LimiterFits(req[c].rate)
    <3>1. req'[c] = [req[c] EXCEPT !.step = "install"]
      BY <2>3 DEF LookupLimiter, CallInv, AllSound
    <3>2. QED
      BY <2>1, <3>1 DEF Reqs
  <2>4. QED
    BY <2>2, <2>3
<1>3. QED
  BY <1>1, <1>2 DEF RateInv

LEMMA RateInstall ==
  ASSUME CallInv, RateInv, NEW c \in Clients, Install(c)
  PROVE  RateInv'
<1>1. SUFFICES ASSUME ~window'.disturbed
               PROVE  RateInv'
  BY DEF RateInv
<1>2. /\ window' = window /\ current = 0
      /\ \A d \in Clients \ {c} : ~InAdmission(d)
  BY <1>1 DEF Install, Disturbed
<1> DEFINE rate == req[c].rate
<1>3. req[c] \in Reqs /\ rate \in Nat
  BY DEF CallInv, AllSound, Reqs
<1>4. /\ limiters' = Append(limiters, [rate |-> rate, left |-> rate])
      /\ current' = Len(limiters')
      /\ \A d \in Clients \ {c} : req'[d] = req[d]
      /\ req'[c] = [req[c] EXCEPT !.limiter = current', !.step = "charge"]
  BY DEF Install, InstallLimiter, CallInv, AllSound
<1>5. req'[c].limiter = current'
  BY <1>3, <1>4 DEF Reqs
<1>6. /\ Len(limiters') = Len(limiters) + 1 /\ Len(limiters) \in Nat
      /\ limiters'[current'] = [rate |-> rate, left |-> rate]
  BY <1>4, AppendProperties, LenProperties DEF CallInv, StateOK, LimitsTypeOK
<1>7. current' # 0 /\ limiters'[current'].rate = rate /\ limiters'[current'].left = rate
  BY <1>4, <1>6
<1>8. window'.charged = 0
  BY <1>1, <1>2 DEF RateInv
<1>9. \A d \in Clients \ {c} : req'[d].step # "charge"
  BY <1>2, <1>4 DEF InAdmission, Admitting
<1>10. QED
  BY <1>3, <1>5, <1>7, <1>8, <1>9 DEF RateInv

\* A call of more than its own operations is never let in for free.
LEMMA CostCovers ==
  ASSUME NEW call \in Calls, Cost(call) # 0
  PROVE  Operations(call) = Cost(call) /\ Cost(call) \in Nat
<1>1. /\ call.ops \in Seq([op : {"put", "delete", "other"}, key : Keys, len : Nat])
      /\ call.rpc \in {"get", "put", "delete", "batch"}
      /\ call.rpc = "get" => call.ops = <<>>
      /\ call.rpc \in {"put", "delete"} => Len(call.ops) = 1
  BY CallsAssumption DEF CallsAssumption
<1>2. Len(call.ops) \in Nat /\ (call.ops = <<>> <=> Len(call.ops) = 0)
  BY <1>1, LenProperties, EmptySeq
<1>3. QED
  BY <1>1, <1>2 DEF Operations, Cost

LEMMA RateAdmit ==
  ASSUME CallInv, RateInv, NEW c \in Clients, Admit(c)
  PROVE  RateInv'
<1>1. SUFFICES ASSUME ~window'.disturbed
               PROVE  RateInv'
  BY DEF RateInv
<1> DEFINE r == req[c]
           cost == Cost(r.call)
<1>2. /\ r.step = "charge" /\ cost <= limiters[r.limiter].left
      /\ limiters' = [limiters EXCEPT ![r.limiter].left = @ - cost]
      /\ req' = [req EXCEPT ![c] = GoOn(r, 1)]
      /\ UNCHANGED <<quotaVars, usageVars, current, operator>>
      /\ window' = IF window.disturbed THEN window
                   ELSE [window EXCEPT !.charged = @ + Operations(r.call)]
  BY DEF Admit, CanCharge, ChargeLimiter
<1>3. /\ r.call \in Calls /\ Accepts(r.call) /\ r.unaudited = 0
      /\ r.limiter \in 1..Len(limiters) /\ cost # 0
  BY <1>2 DEF CallInv, AllSound, Sound, Admitting
<1>4. Operations(r.call) = cost /\ cost \in Nat
  BY <1>3, CostCovers
<1>5. LimitsTypeOK /\ window \in [charged : Nat, disturbed : BOOLEAN] /\ req \in [Clients -> Reqs]
  BY DEF CallInv, StateOK, AllSound
<1>6. ~window.disturbed /\ window'.charged = window.charged + cost
  BY <1>1, <1>2, <1>4, <1>5
<1>7. r.limiter = current /\ current # 0
  BY <1>2, <1>6 DEF RateInv
<1>8. /\ limiters'[current].left = limiters[current].left - cost
      /\ limiters'[current].rate = limiters[current].rate
  <2> HIDE DEF r, cost
  <2> QED BY <1>2, <1>3, <1>4, <1>5, <1>7, ChargedLimiters
<1>9. /\ limiters[current].left \in Nat /\ limiters[current].rate \in Nat
      /\ window.charged + limiters[current].left <= limiters[current].rate
  BY <1>3, <1>5, <1>6, <1>7, LimiterType DEF RateInv
<1>10. GoOn(r, 1).step \in {"idle", "next"}
  <2> HIDE DEF r
  <2> QED BY <1>3, GoOnSound
<1>11. \A d \in Clients : req'[d].step = "charge" => req'[d].limiter = current
  BY <1>2, <1>5, <1>6, <1>10 DEF RateInv
<1>12. window'.charged + limiters'[current].left <= limiters'[current].rate
  <2>1. window.charged \in Nat
    BY <1>5
  <2> HIDE DEF cost
  <2> QED BY <1>4, <1>6, <1>8, <1>9, <2>1
<1>13. QED
  BY <1>2, <1>7, <1>11, <1>12 DEF RateInv

LEMMA RateTick ==
  ASSUME CallInv, RateInv, Tick
  PROVE  RateInv'
<1>1. SUFFICES ASSUME ~window'.disturbed
               PROVE  RateInv'
  BY DEF RateInv
<1>2. /\ UNCHANGED <<req, current>> /\ window'.charged = 0
      /\ \A c \in Clients : ~InAdmission(c)
  BY <1>1 DEF Tick, RefillLimiters
<1>3. LimitsTypeOK /\ (current # 0 => current \in 1..Len(limiters))
  BY LenProperties DEF CallInv, StateOK, LimitsTypeOK
<1>4. current # 0 => /\ limiters'[current].left = limiters[current].rate
                     /\ limiters'[current].rate = limiters[current].rate
                     /\ limiters[current].rate \in Nat
  BY <1>3, SoundTick, LimiterType
<1>5. \A c \in Clients : req'[c].step # "charge"
  BY <1>2 DEF InAdmission, Admitting
<1>6. QED
  BY <1>2, <1>4, <1>5 DEF RateInv

LEMMA RateInvNext ==
  ASSUME CallInv, RateInv, [Next]_vars
  PROVE  RateInv'
<1>1. ASSUME NEW c \in Clients,
             (\E call \in Calls : Receive(c, call)) \/ Throttled(c) \/ Operation(c)
      PROVE  RateInv'
  BY <1>1, LeavesCharge, RateFrame
<1>2. ASSUME NEW c \in Clients, Admission(c)
      PROVE  RateInv'
  BY <1>1, <1>2, RateLookup, RateInstall, RateAdmit DEF Admission
<1>3. ASSUME NEW o \in Operators, OperatorStarts(o) \/ OperatorStores(o) \/ OperatorCaches(o)
      PROVE  RateInv'
  <2>1. UNCHANGED <<limiters, current, window, req>>
    BY <1>3 DEF OperatorStarts, OperatorStores, OperatorCaches, SetQuotaRead, ClearQuotaStore,
         SetQuotaStore, SetQuotaFails, SetQuotaCache, ClearQuotaCache, observed, throttleVars
  <2>2. QED
    BY <2>1 DEF RateInv
<1>4. CASE Restart
  <2>1. current' = 0 /\ window'.charged = 0 /\ \A c \in Clients : req'[c].step = "idle"
    BY <1>4 DEF Restart, LimitsRestart, Idle
  <2>2. QED
    BY <2>1 DEF RateInv
<1>5. CASE UNCHANGED vars
  BY <1>5 DEF vars, limitsVars, throttleVars, observed, RateInv
<1>6. QED
  BY <1>1, <1>2, <1>3, <1>4, <1>5, RateTick DEF Next

\* throttle.rs:57-62: between two refills at most `rate` operations are let in,
\* for any rates, batches and interleavings of look-up and charge.
THEOREM RateHeldAlways == Spec => []RateHeld
<1>1. ASSUME Init PROVE RateInv
  BY <1>1 DEF Init, LimitsInit, RateInv, Idle
<1>2. CallInv /\ RateInv /\ [Next]_vars => RateInv'
  BY RateInvNext
<1>3. ASSUME CallInv, RateInv PROVE RateHeld
  <2>1. SUFFICES ASSUME ~window.disturbed, current # 0
                 PROVE  window.charged <= limiters[current].rate
    BY DEF RateHeld
  <2>2. /\ limiters[current].left \in Nat /\ limiters[current].rate \in Nat
        /\ window.charged \in Nat
    <3>1. current \in 1..Len(limiters) /\ LimitsTypeOK
      BY <1>3, <2>1, LenProperties DEF CallInv, StateOK, LimitsTypeOK
    <3>2. window.charged \in Nat
      BY <1>3 DEF CallInv, StateOK
    <3>3. QED
      BY <3>1, <3>2, LimiterType
  <2>3. QED
    BY <1>3, <2>1, <2>2 DEF RateInv
<1>4. QED
  BY <1>1, <1>2, <1>3, CallInvAlways, PTL DEF Spec

-----------------------------------------------------------------------------
(* Accounting: AccountingAgrees *)

\* The counter, seen as a sum: it holds for every key what is stored, except
\* that a write which landed and has not moved the counter yet is missing.
Ledger(counted) ==
  /\ counted \in [Keys -> Nat]
  /\ used = SumFunction(counted)
  /\ \A k \in Keys : (\A c \in Clients : req[c].step = "adjust" => Op(c).key # k)
       => counted[k] = EntryBytes(k, data[k])
  /\ \A c \in Clients : req[c].step = "adjust" =>
       counted[Op(c).key] = EntryBytes(Op(c).key, data[Op(c).key]) - req[c].delta

\* The same, client by client: what each has still to add to the counter.
Owed == [c \in Clients |-> IF req[c].step = "adjust" THEN req[c].delta ELSE 0]

\* As long as no two writes of one key have overlapped: they have not, a write
\* is still what was planned, and the counter lags behind by what is owed.
\* The ledger shows that the counter never has to stop at zero.
Books ==
  /\ \A c, d \in Clients : c # d /\ Writing(c) /\ Writing(d) => Op(c).key # Op(d).key
  /\ \A c \in Clients : req[c].step \in {"append", "store"} =>
       req[c].delta = PlannedDelta(Op(c))
  /\ \E counted : Ledger(counted)
  /\ StoredBytes(data) = used + SumFunction(Owed)

BooksInv == apart => Books

\* What is owed is a number for each client.
LEMMA OwedType ==
  ASSUME AllSound
  PROVE  Owed \in [Clients -> Int]
BY DEF AllSound, Reqs, Owed

\* Steps that neither begin, land nor account for a write.
Quiet(c) == (\E call \in Calls : Receive(c, call)) \/ Admission(c) \/ Refuse(c) \/ AppendFails(c)
            \/ StoreFails(c) \/ Persist(c)

LEMMA QuietFacts ==
  ASSUME CallInv, CallInv', NEW c \in Clients, Quiet(c)
  PROVE  /\ UNCHANGED <<data, used, cap, apart>>
         /\ \A d \in Clients \ {c} : req'[d] = req[d]
         /\ req[c].step # "adjust" /\ ~Writing(c)'
<1> req \in [Clients -> Reqs] /\ Sound(req[c], Len(limiters)) /\ Len(limiters) \in Nat
  BY LenProperties DEF CallInv, AllSound, StateOK, LimitsTypeOK
<1>1. UNCHANGED <<data, used, cap, apart>>
  BY DEF Quiet, Admission, Receive, LookupLimiter, Install, Admit, Throttled, Refuse, AppendFails,
         StoreFails, Persist, limitsVars, diskVars, usageVars, observed
<1>2. \A d \in Clients \ {c} : req'[d] = req[d]
  BY DEF Quiet, Admission, Receive, LookupLimiter, Install, Admit, Throttled, Refuse, AppendFails,
         StoreFails, Persist, Answered
<1>3. req[c].step # "adjust"
  BY DEF Quiet, Admission, Receive, LookupLimiter, Install, Admit, Throttled, Refuse, AppendFails,
         StoreFails, Persist
<1>4. ~Writing(c)'
  <2>1. ASSUME NEW call \in Calls, Receive(c, call)
        PROVE  ~Writing(c)'
    <3> DEFINE r == [Idle EXCEPT !.call = call, !.rate = RateInForce, !.step = "lookup"]
    <3>1. /\ req'[c] = IF RateInForce = 0 \/ Cost(call) = 0 THEN GoOn(r, 1) ELSE r
          /\ Accepts(call)
      BY <2>1 DEF Receive
    <3>2. r.step = "lookup" /\ r.call = call /\ r.unaudited = 0
      BY DEF Idle
    <3> HIDE DEF r
    <3>3. GoOn(r, 1).step \in {"idle", "next"}
      BY <3>1, <3>2, GoOnSound
    <3>4. QED
      BY <3>1, <3>2, <3>3 DEF Writing
  <2>2. CASE Throttled(c) \/ Refuse(c) \/ AppendFails(c) \/ StoreFails(c)
    BY <2>2 DEF Throttled, Refuse, AppendFails, StoreFails, Answered, Idle, Writing
  <2>3. CASE LookupLimiter(c) \/ Install(c)
    <3>1. req'[c].step \in {"charge", "install"}
      BY <2>3 DEF LookupLimiter, Install, Reqs
    <3>2. QED
      BY <3>1 DEF Writing
  <2>4. CASE Admit(c)
    <3>1. req[c].call \in Calls /\ Accepts(req[c].call) /\ req[c].unaudited = 0
      BY <2>4 DEF Admit, Sound
    <3>2. GoOn(req[c], 1).step \in {"idle", "next"}
      BY <3>1, GoOnSound
    <3>3. QED
      BY <2>4, <3>2 DEF Admit, Writing
  <2>5. CASE Persist(c)
    <3>1. req[c].step \in Doing /\ req[c] \in Reqs
      BY <2>5 DEF Persist, Doing
    <3>2. NextOp(req[c]).step \in {"idle", "next"}
      BY <3>1, NextOpSound
    <3>3. QED
      BY <2>5, <3>2 DEF Persist, Writing
  <2>6. QED
    BY <2>1, <2>2, <2>3, <2>4, <2>5 DEF Quiet, Admission
<1>5. QED
  BY <1>1, <1>2, <1>3, <1>4

\* The books do not change when no write begins, lands or is accounted for.
LEMMA BooksFrame ==
  ASSUME Books, UNCHANGED <<data, used>>,
         \A d \in Clients : Writing(d)' => req'[d] = req[d],
         \A d \in Clients : req[d].step = "adjust" => req'[d] = req[d]
  PROVE  Books'
<1>1. \A d \in Clients : req'[d].step = "adjust" => req'[d] = req[d]
  BY DEF Writing
<1>2. Owed' = Owed
  BY <1>1 DEF Owed
<1>3. PICK counted : Ledger(counted)
  BY DEF Books
<1>4. Ledger(counted)'
  <2>1. \A k \in Keys : (\A c \in Clients : req'[c].step = "adjust" => Op(c)'.key # k)
          => \A c \in Clients : req[c].step = "adjust" => Op(c).key # k
    BY DEF Op
  <2>2. QED
    BY <1>1, <1>3, <2>1 DEF Ledger, Op
<1>5. StoredBytes(data)' = used' + SumFunction(Owed)'
  BY <1>2 DEF Books
<1>6. \A c, d \in Clients : c # d /\ Writing(c)' /\ Writing(d)' => Op(c)'.key # Op(d)'.key
  <2>1. \A c \in Clients : Writing(c)' => Writing(c) /\ Op(c)' = Op(c)
    BY DEF Writing, Op
  <2>2. QED
    BY <2>1 DEF Books
<1>7. \A c \in Clients : req'[c].step \in {"append", "store"} =>
        req'[c].delta = PlannedDelta(Op(c))'
  BY DEF Books, Writing, Op, PlannedDelta
<1>8. QED
  BY <1>4, <1>5, <1>6, <1>7 DEF Books

\* A write is planned against the data as they are.
LEMMA BooksPlan ==
  ASSUME CallInv, BooksInv, NEW c \in Clients, Plan(c)
  PROVE  BooksInv'
<1>1. SUFFICES ASSUME apart' PROVE Books'
  BY DEF BooksInv
<1> DEFINE t == [req[c] EXCEPT !.step = "append", !.delta = PlannedDelta(Op(c))]
<1>2. /\ req[c].step = "next" /\ req' = [req EXCEPT ![c] = t]
      /\ apart /\ \A d \in Clients \ {c} : Writing(d) => Op(d).key # Op(c).key
      /\ UNCHANGED <<data, used>>
  BY <1>1 DEF Plan, limitsVars, diskVars, usageVars
<1>3. req \in [Clients -> Reqs] /\ Books
  BY <1>2 DEF CallInv, AllSound, BooksInv
<1>4. t.step = "append" /\ t.delta = PlannedDelta(Op(c)) /\ t.call = req[c].call /\ t.op = req[c].op
  BY <1>3 DEF Reqs
<1> HIDE DEF t
<1>5. req'[c] = t /\ \A d \in Clients \ {c} : req'[d] = req[d]
  BY <1>2, <1>3
<1>6. \A d \in Clients : Op(d)' = Op(d)
  BY <1>4, <1>5 DEF Op
<1>7. \A d \in Clients : req'[d].step = "adjust" <=> req[d].step = "adjust"
  BY <1>2, <1>4, <1>5
<1>8. Owed' = Owed
  BY <1>4, <1>5, <1>7 DEF Owed
<1>9. PICK counted : Ledger(counted)
  BY <1>3 DEF Books
<1>10. Ledger(counted)'
  <2>1. \A k \in Keys : (\A d \in Clients : req'[d].step = "adjust" => Op(d)'.key # k)
          => \A d \in Clients : req[d].step = "adjust" => Op(d).key # k
    BY <1>6, <1>7
  <2>2. \A d \in Clients : req'[d].step = "adjust" => req'[d].delta = req[d].delta
    BY <1>4, <1>5
  <2>3. QED
    BY <1>2, <1>6, <1>7, <1>9, <2>1, <2>2 DEF Ledger
<1>11. StoredBytes(data)' = used' + SumFunction(Owed)'
  BY <1>2, <1>3, <1>8 DEF Books
<1>12. \A d, e \in Clients : d # e /\ Writing(d)' /\ Writing(e)' => Op(d)'.key # Op(e)'.key
  <2>1. \A d \in Clients \ {c} : Writing(d)' => Writing(d)
    BY <1>5 DEF Writing
  <2>2. QED
    BY <1>2, <1>3, <1>6, <2>1 DEF Books
<1>13. \A d \in Clients : req'[d].step \in {"append", "store"} =>
         req'[d].delta = PlannedDelta(Op(d))'
  <2>1. \A d \in Clients : PlannedDelta(Op(d))' = PlannedDelta(Op(d))
    BY <1>2, <1>6 DEF PlannedDelta
  <2>2. QED
    BY <1>3, <1>4, <1>5, <2>1 DEF Books
<1>14. QED
  BY <1>10, <1>11, <1>12, <1>13 DEF Books

\* A write that is in the log and not in storage is still what was planned.
LEMMA BooksAppend ==
  ASSUME CallInv, BooksInv, NEW c \in Clients, AppendRecord(c)
  PROVE  BooksInv'
<1>1. SUFFICES ASSUME apart' PROVE Books'
  BY DEF BooksInv
<1>2. /\ req[c].step = "append" /\ req'[c].step = "store" /\ req'[c].delta = req[c].delta
      /\ req'[c].call = req[c].call /\ req'[c].op = req[c].op
      /\ \A d \in Clients \ {c} : req'[d] = req[d]
      /\ UNCHANGED <<data, used, apart>>
  BY AppendFacts DEF limitsVars, usageVars, observed
<1>3. Books
  BY <1>1, <1>2 DEF BooksInv
<1>4. \A d \in Clients : Op(d)' = Op(d)
  BY <1>2 DEF Op
<1>5. \A d \in Clients : (req'[d].step = "adjust" <=> req[d].step = "adjust")
                         /\ req'[d].delta = req[d].delta /\ (Writing(d)' => Writing(d))
  BY <1>2 DEF Writing
<1>6. Owed' = Owed
  BY <1>5 DEF Owed
<1>7. PICK counted : Ledger(counted)
  BY <1>3 DEF Books
<1>8. Ledger(counted)'
  BY <1>2, <1>4, <1>5, <1>7 DEF Ledger
<1>9. StoredBytes(data)' = used' + SumFunction(Owed)'
  BY <1>2, <1>3, <1>6 DEF Books
<1>10. \A d, e \in Clients : d # e /\ Writing(d)' /\ Writing(e)' => Op(d)'.key # Op(e)'.key
  BY <1>3, <1>4, <1>5 DEF Books
<1>11. \A d \in Clients : req'[d].step \in {"append", "store"} =>
         req'[d].delta = PlannedDelta(Op(d))'
  <2>1. \A d \in Clients : PlannedDelta(Op(d))' = PlannedDelta(Op(d))
    BY <1>2, <1>4 DEF PlannedDelta
  <2>2. \A d \in Clients : req'[d].step \in {"append", "store"} => req[d].step \in {"append", "store"}
    BY <1>2
  <2>3. QED
    BY <1>3, <1>5, <2>1, <2>2 DEF Books
<1>12. QED
  BY <1>8, <1>9, <1>10, <1>11 DEF Books

\* Storing one entry changes the bytes stored by its change.
LEMMA StoreOne ==
  ASSUME StateOK, StateOK', NEW k \in Keys, \A j \in Keys \ {k} : data'[j] = data[j]
  PROVE  StoredBytes(data)' = StoredBytes(data) + EntryBytes(k, data'[k]) - EntryBytes(k, data[k])
<1> DEFINE f == [j \in Keys |-> EntryBytes(j, data[j])]
           g == [j \in Keys |-> EntryBytes(j, data'[j])]
<1>1. f \in [Keys -> Int]
  BY StoredBytesType
<1>2. g \in [Keys -> Int]
  <2>1. \A j \in Keys : EntryBytes(j, data'[j]) \in Nat
    BY Constants DEF StateOK, EntryBytes
  <2>2. QED
    BY <2>1
<1>3. \A j \in Keys \ {k} : f[j] = g[j]
  OBVIOUS
<1>4. f[k] = EntryBytes(k, data[k]) /\ g[k] = EntryBytes(k, data'[k])
  OBVIOUS
<1>5. IsFiniteSet(Keys)
  BY RequestsAssumption DEF RequestsAssumption
<1>6. StoredBytes(data) = SumFunction(f) /\ StoredBytes(data)' = SumFunction(g)
  BY DEF StoredBytes
<1> HIDE DEF f, g
<1>7. SumFunction(g) = SumFunction(f) + g[k] - f[k]
  BY <1>1, <1>2, <1>3, <1>5, SumPoint
<1>8. QED
  BY <1>4, <1>6, <1>7

\* What one client owes changes.
LEMMA OweOne ==
  ASSUME AllSound, AllSound', NEW c \in Clients, \A d \in Clients \ {c} : req'[d] = req[d]
  PROVE  /\ SumFunction(Owed)' = SumFunction(Owed) + Owed'[c] - Owed[c]
         /\ SumFunction(Owed) \in Int
<1>1. Owed \in [Clients -> Int] /\ Owed' \in [Clients -> Int]
  BY DEF AllSound, Owed, Reqs
<1>2. \A d \in Clients \ {c} : Owed[d] = Owed'[d]
  BY DEF Owed
<1>3. IsFiniteSet(Clients)
  BY RequestsAssumption DEF RequestsAssumption
<1>4. QED
  BY <1>1, <1>2, <1>3, SumPoint, SumType

LEMMA BooksStore ==
  ASSUME CallInv, CallInv', BooksInv, NEW c \in Clients, Store(c)
  PROVE  BooksInv'
<1>1. SUFFICES ASSUME apart' PROVE Books'
  BY DEF BooksInv
<1> DEFINE r == req[c]
           k == Op(c).key
<1>2. /\ r.step = "store" /\ apart
      /\ data' = [data EXCEPT ![k] = NewLen(Op(c))]
      /\ req' = [req EXCEPT ![c] = IF r.delta = 0 THEN NextOp(r)
                                   ELSE [r EXCEPT !.step = "adjust", !.unaudited = 1]]
      /\ UNCHANGED used
  BY <1>1, StoreMoves DEF Store, limitsVars, usageVars, observed
<1>3. /\ req \in [Clients -> Reqs] /\ data \in [Keys -> 0..MaxValueSize \cup {None}] /\ Books
      /\ StateOK /\ StateOK' /\ AllSound /\ AllSound'
  BY <1>2 DEF CallInv, AllSound, StateOK, BooksInv
<1>4. /\ k \in Keys /\ r.delta = EntryBytes(k, NewLen(Op(c))) - EntryBytes(k, data[k])
      /\ EntryBytes(k, NewLen(Op(c))) \in Nat /\ EntryBytes(k, data[k]) \in Nat
  BY <1>2, <1>3, OpFacts DEF Books, PlannedDelta, Doing
<1>5. /\ \A d \in Clients \ {c} : req'[d] = req[d]
      /\ \A j \in Keys \ {k} : data'[j] = data[j]
      /\ data'[k] = NewLen(Op(c))
  BY <1>2, <1>3, <1>4
<1>6. \/ r.delta = 0 /\ ~Writing(c)'
      \/ /\ r.delta # 0 /\ req'[c].step = "adjust" /\ req'[c].delta = r.delta
         /\ Op(c)' = Op(c)
  <2>1. CASE r.delta = 0
    <3>1. req'[c] = NextOp(r)
      BY <1>2, <1>3, <2>1
    <3>2. r \in Reqs /\ r.step \in Doing /\ Sound(r, Len(limiters)) /\ Len(limiters) \in Nat
      BY <1>2, <1>3, LenProperties DEF AllSound, StateOK, LimitsTypeOK, Doing
    <3>3. NextOp(r).step \in {"idle", "next"}
      <4> HIDE DEF r
      <4> QED BY <3>2, NextOpSound
    <3>4. QED
      BY <2>1, <3>1, <3>3 DEF Writing
  <2>2. CASE r.delta # 0
    <3>1. req'[c] = [r EXCEPT !.step = "adjust", !.unaudited = 1]
      BY <1>2, <1>3, <2>2
    <3>2. QED
      BY <1>3, <2>2, <3>1 DEF Reqs, Op
  <2>3. QED
    BY <2>1, <2>2
<1>7. \A d \in Clients \ {c} : Writing(d) => Op(d).key # k
  BY <1>2, <1>3 DEF Books, Writing
<1>8. \A d \in Clients \ {c} : Op(d)' = Op(d) /\ (Writing(d)' <=> Writing(d))
  BY <1>5 DEF Op, Writing
<1> HIDE DEF r, k
<1>9. \A d, e \in Clients : d # e /\ Writing(d)' /\ Writing(e)' => Op(d)'.key # Op(e)'.key
  <2>1. \A d \in Clients : Writing(d)' => Writing(d) /\ Op(d)' = Op(d)
    BY <1>2, <1>6, <1>8 DEF Writing, r
  <2>2. QED
    BY <1>3, <2>1 DEF Books
<1>10. \A d \in Clients : req'[d].step \in {"append", "store"} =>
         req'[d].delta = PlannedDelta(Op(d))'
  <2>1. SUFFICES ASSUME NEW d \in Clients, req'[d].step \in {"append", "store"}
                 PROVE  req'[d].delta = PlannedDelta(Op(d))'
    OBVIOUS
  <2>2. d # c
    BY <1>6, <2>1 DEF Writing
  <2>3. req'[d] = req[d] /\ Op(d)' = Op(d) /\ Op(d).key # k /\ Op(d).key \in Keys
    BY <1>5, <1>7, <1>8, <2>1, <2>2, OpFacts DEF Writing, Doing
  <2>4. PlannedDelta(Op(d))' = PlannedDelta(Op(d))
    BY <1>5, <2>3 DEF PlannedDelta
  <2>5. QED
    BY <1>3, <2>1, <2>3, <2>4 DEF Books
<1>11. PICK counted : Ledger(counted)
  BY <1>3 DEF Books
<1>12. counted[k] = EntryBytes(k, data[k])
  <2>1. \A d \in Clients : req[d].step = "adjust" => Op(d).key # k
    BY <1>2, <1>7 DEF Writing, r
  <2>2. QED
    BY <1>4, <1>11, <2>1 DEF Ledger
<1>13. \A d \in Clients \ {c} : req'[d].step = "adjust" =>
         /\ req[d].step = "adjust" /\ Op(d)' = Op(d) /\ Op(d).key # k /\ Op(d).key \in Keys
         /\ req'[d].delta = req[d].delta /\ data'[Op(d).key] = data[Op(d).key]
  <2>1. SUFFICES ASSUME NEW d \in Clients \ {c}, req'[d].step = "adjust"
                 PROVE  /\ req[d].step = "adjust" /\ Op(d)' = Op(d) /\ Op(d).key # k
                        /\ Op(d).key \in Keys /\ req'[d].delta = req[d].delta
                        /\ data'[Op(d).key] = data[Op(d).key]
    OBVIOUS
  <2>2. req'[d] = req[d] /\ req[d].step = "adjust" /\ Op(d)' = Op(d)
    BY <1>5, <1>8, <2>1
  <2>3. Op(d).key # k /\ Op(d).key \in Keys
    BY <1>7, <2>2, OpFacts DEF Writing, Doing
  <2>4. QED
    BY <1>5, <2>2, <2>3
<1>14. ASSUME NEW d \in Clients, req'[d].step = "adjust"
       PROVE  counted[Op(d)'.key] = EntryBytes(Op(d)'.key, data'[Op(d)'.key]) - req'[d].delta
  <2>1. CASE d = c
    <3>1. Op(d)'.key = k /\ req'[d].delta = r.delta
      BY <1>6, <1>14, <2>1 DEF Writing, k
    <3>2. EntryBytes(k, data[k]) = EntryBytes(k, data'[k]) - r.delta
      BY <1>4, <1>5
    <3>3. QED
      BY <1>12, <3>1, <3>2
  <2>2. CASE d # c
    BY <1>11, <1>13, <1>14, <2>2 DEF Ledger
  <2>3. QED
    BY <2>1, <2>2
<1>15. ASSUME NEW j \in Keys, \A d \in Clients : req'[d].step = "adjust" => Op(d)'.key # j
       PROVE  counted[j] = EntryBytes(j, data'[j])
  <2>1. CASE j = k
    <3>1. req'[c].step # "adjust"
      BY <1>6, <1>15, <2>1 DEF k, Writing
    <3>2. r.delta = 0
      BY <1>6, <3>1
    <3>3. EntryBytes(k, data'[k]) = EntryBytes(k, data[k])
      BY <1>4, <1>5, <3>2
    <3>4. QED
      BY <1>12, <2>1, <3>3
  <2>2. CASE j # k
    <3>1. \A d \in Clients : req[d].step = "adjust" => Op(d).key # j
      BY <1>2, <1>5, <1>8, <1>15 DEF r
    <3>2. QED
      BY <1>5, <1>11, <2>2, <3>1 DEF Ledger
  <2>3. QED
    BY <2>1, <2>2
<1>16. Ledger(counted)'
  BY <1>2, <1>11, <1>14, <1>15 DEF Ledger
<1>17. StoredBytes(data)' = used' + SumFunction(Owed)'
  <2>1. StoredBytes(data)' = StoredBytes(data) + r.delta /\ r.delta \in Int
        /\ StoredBytes(data) \in Nat
    BY <1>3, <1>4, <1>5, StoreOne, StoredBytesType
  <2>2. Owed[c] = 0 /\ Owed'[c] = r.delta
    BY <1>2, <1>6 DEF Owed, Writing, r
  <2>3. SumFunction(Owed)' = SumFunction(Owed) + Owed'[c] - Owed[c] /\ SumFunction(Owed) \in Int
    BY <1>3, <1>5, OweOne
  <2>4. StoredBytes(data) = used + SumFunction(Owed) /\ used' = used /\ used \in Nat
    BY <1>2, <1>3 DEF Books, StateOK, LimitsTypeOK
  <2>5. QED
    BY <2>1, <2>2, <2>3, <2>4
<1>18. QED
  BY <1>9, <1>10, <1>16, <1>17 DEF Books

\* The counter is moved, by exactly what the write changed.
LEMMA BooksAdjust ==
  ASSUME CallInv, CallInv', Books, NEW c \in Clients, Adjust(c)
  PROVE  Books' /\ used' = used + req[c].delta
<1> DEFINE r == req[c]
           k == Op(c).key
<1>1. /\ r.step = "adjust" /\ used' = Adjusted(r.delta)
      /\ req' = [req EXCEPT ![c].step = "persist", ![c].total = used']
      /\ UNCHANGED data
  BY DEF Adjust, diskVars
<1>2. /\ req \in [Clients -> Reqs] /\ AllSound /\ AllSound' /\ StateOK /\ used \in Nat
      /\ r.delta \in Int
  BY DEF CallInv, AllSound, StateOK, LimitsTypeOK, Reqs
<1>3. k \in Keys /\ EntryBytes(k, data[k]) \in Nat
  BY <1>1, OpFacts DEF Doing
<1>4. /\ \A d \in Clients \ {c} : req'[d] = req[d]
      /\ req'[c].step = "persist" /\ Op(c)' = Op(c)
  BY <1>1, <1>2 DEF Reqs, Op
<1>5. \A d \in Clients \ {c} : Writing(d) => Op(d).key # k
  BY <1>1 DEF Books, Writing
<1>6. PICK counted : Ledger(counted)
  BY DEF Books
<1>a. PICK now : now = [counted EXCEPT ![k] = EntryBytes(k, data[k])]
  OBVIOUS
<1>7. counted[k] = EntryBytes(k, data[k]) - r.delta /\ counted \in [Keys -> Nat]
  BY <1>1, <1>6 DEF Ledger
<1>8. /\ now \in [Keys -> Nat] /\ now[k] = EntryBytes(k, data[k])
      /\ \A j \in Keys \ {k} : counted[j] = now[j]
  BY <1>3, <1>7, <1>a
<1> HIDE DEF r, k
<1>9. SumFunction(now) = used + r.delta /\ SumFunction(now) \in Nat
  <2>1. IsFiniteSet(Keys) /\ counted \in [Keys -> Int] /\ now \in [Keys -> Int]
    BY <1>7, <1>8, RequestsAssumption DEF RequestsAssumption
  <2>2. SumFunction(now) = SumFunction(counted) + now[k] - counted[k]
    BY <1>3, <1>8, <2>1, SumPoint
  <2>3. used = SumFunction(counted)
    BY <1>6 DEF Ledger
  <2>4. SumFunction(now) \in Nat
    BY <1>8, <2>1, SumNatural
  <2>5. QED
    BY <1>2, <1>3, <1>7, <1>8, <2>2, <2>3, <2>4
<1>10. used' = used + r.delta /\ used' = SumFunction(now)
  BY <1>1, <1>2, <1>9 DEF Adjusted
<1>11. ASSUME NEW d \in Clients, req'[d].step = "adjust"
       PROVE  /\ d # c /\ req[d].step = "adjust" /\ req'[d].delta = req[d].delta
              /\ Op(d)' = Op(d) /\ Op(d).key # k /\ Op(d).key \in Keys
  BY <1>4, <1>5, <1>11, OpFacts DEF Op, Writing, Doing
<1>12. Ledger(now)'
  <2>1. ASSUME NEW d \in Clients, req'[d].step = "adjust"
        PROVE  now[Op(d)'.key] = EntryBytes(Op(d)'.key, data'[Op(d)'.key]) - req'[d].delta
    BY <1>1, <1>6, <1>8, <1>11, <2>1 DEF Ledger
  <2>2. ASSUME NEW j \in Keys, \A d \in Clients : req'[d].step = "adjust" => Op(d)'.key # j
        PROVE  now[j] = EntryBytes(j, data'[j])
    <3>1. CASE j = k
      BY <1>1, <1>8, <3>1
    <3>2. CASE j # k
      <4>1. \A d \in Clients : req[d].step = "adjust" => Op(d).key # j
        BY <1>4, <2>2, <3>2 DEF Op, k
      <4>2. counted[j] = EntryBytes(j, data[j])
        BY <1>6, <4>1 DEF Ledger
      <4>3. QED
        BY <1>1, <1>8, <3>2, <4>2
    <3>3. QED
      BY <3>1, <3>2
  <2>3. QED
    BY <1>8, <1>10, <2>1, <2>2 DEF Ledger
<1>13. StoredBytes(data)' = used' + SumFunction(Owed)'
  <2>1. Owed[c] = r.delta /\ Owed'[c] = 0
    BY <1>1, <1>4 DEF Owed, r
  <2>2. SumFunction(Owed)' = SumFunction(Owed) + Owed'[c] - Owed[c] /\ SumFunction(Owed) \in Int
    BY <1>2, <1>4, OweOne
  <2>3. StoredBytes(data) = used + SumFunction(Owed) /\ StoredBytes(data)' = StoredBytes(data)
    BY <1>1 DEF Books
  <2>4. QED
    BY <1>2, <1>10, <2>1, <2>2, <2>3
<1>14. \A d, e \in Clients : d # e /\ Writing(d)' /\ Writing(e)' => Op(d)'.key # Op(e)'.key
  <2>1. \A d \in Clients : Writing(d)' => Writing(d) /\ Op(d)' = Op(d)
    BY <1>1, <1>4 DEF Writing, Op, r
  <2>2. QED
    BY <2>1 DEF Books
<1>15. \A d \in Clients : req'[d].step \in {"append", "store"} =>
         req'[d].delta = PlannedDelta(Op(d))'
  BY <1>1, <1>4 DEF Books, PlannedDelta, Op
<1>16. QED
  BY <1>10, <1>12, <1>13, <1>14, <1>15 DEF Books, r

\* With nothing in flight the counter is the data.
LEMMA NothingOwed ==
  ASSUME CallInv, Books, \A c \in Clients : ~Writing(c)
  PROVE  used = StoredBytes(data)
<1>1. Owed \in [Clients -> Int] /\ \A c \in Clients : Owed[c] = 0
  BY OwedType DEF CallInv, Owed, Writing
<1>2. IsFiniteSet(Clients)
  BY RequestsAssumption DEF RequestsAssumption
<1>3. SumFunction(Owed) = 0
  BY <1>1, <1>2, SumZero
<1>4. used \in Nat /\ StoredBytes(data) = used + SumFunction(Owed)
  BY DEF CallInv, StateOK, LimitsTypeOK, Books
<1>5. QED
  BY <1>3, <1>4

\* Books opened on the data.
LEMMA BooksOpened ==
  StateOK /\ (\A c \in Clients : req[c].step = "idle") /\ used = StoredBytes(data) => Books
<1> SUFFICES ASSUME StateOK, \A c \in Clients : req[c].step = "idle", used = StoredBytes(data)
             PROVE  Books
  OBVIOUS
<1> DEFINE counted == [k \in Keys |-> EntryBytes(k, data[k])]
<1>1. counted \in [Keys -> Nat] /\ StoredBytes(data) = SumFunction(counted)
  BY StoredBytesType DEF StoredBytes
<1>2. \A k \in Keys : counted[k] = EntryBytes(k, data[k])
  OBVIOUS
<1> HIDE DEF counted
<1>3. Ledger(counted)
  BY <1>1, <1>2 DEF Ledger
<1>4. Owed \in [Clients -> Int] /\ \A c \in Clients : Owed[c] = 0
  BY DEF Owed
<1>5. SumFunction(Owed) = 0
  BY <1>4, RequestsAssumption, SumZero DEF RequestsAssumption
<1>6. used \in Nat
  BY DEF StateOK, LimitsTypeOK
<1>7. QED
  BY <1>3, <1>5, <1>6 DEF Books, Writing

LEMMA BooksRestart ==
  ASSUME CallInv, CallInv', Restart
  PROVE  Books'
<1>1. used' = StoredBytes(data') /\ \A c \in Clients : req'[c].step = "idle"
  BY DEF Restart, LimitsRestart, Idle
<1>2. StateOK' /\ used' = StoredBytes(data)'
  BY <1>1 DEF CallInv, StoredBytes, EntryBytes
<1>3. (StateOK /\ (\A c \in Clients : req[c].step = "idle") /\ used = StoredBytes(data))'
        => Books'
  BY BooksOpened, PTL
<1>4. QED
  BY <1>1, <1>2, <1>3

LEMMA BooksInvNext ==
  ASSUME CallInv, CallInv', BooksInv, [Next]_vars
  PROVE  BooksInv'
<1>1. ASSUME NEW c \in Clients, Quiet(c)
      PROVE  BooksInv'
  <2>1. /\ UNCHANGED <<data, used, apart>>
        /\ \A d \in Clients : Writing(d)' => req'[d] = req[d]
        /\ \A d \in Clients : req[d].step = "adjust" => req'[d] = req[d]
    BY <1>1, QuietFacts
  <2>2. QED
    BY <2>1, BooksFrame DEF BooksInv
<1>2. ASSUME NEW c \in Clients, Adjust(c)
      PROVE  BooksInv'
  <2>1. UNCHANGED apart
    BY <1>2 DEF Adjust, observed
  <2>2. QED
    BY <1>2, <2>1, BooksAdjust DEF BooksInv
<1>3. CASE UNCHANGED <<data, used, req, apart>>
  BY <1>3, BooksFrame DEF BooksInv
<1>4. ASSUME NEW o \in Operators, OperatorStarts(o) \/ OperatorStores(o) \/ OperatorCaches(o)
      PROVE  UNCHANGED <<data, used, req, apart>>
  BY <1>4 DEF OperatorStarts, OperatorStores, OperatorCaches, SetQuotaRead, ClearQuotaStore,
       SetQuotaStore, SetQuotaFails, SetQuotaCache, ClearQuotaCache, observed, usageVars, diskVars
<1>5. CASE Tick \/ UNCHANGED vars
  BY <1>3, <1>5 DEF Tick, vars, limitsVars, diskVars, usageVars, observed
<1>6. CASE Restart
  BY <1>6, BooksRestart DEF BooksInv
<1>7. QED
  BY <1>1, <1>2, <1>3, <1>4, <1>5, <1>6, BooksPlan, BooksAppend, BooksStore
     DEF Next, Operation, Quiet

\* The books hold from the start on.
LEMMA BooksInvAlways == Spec => []BooksInv
<1>1. ASSUME Init PROVE BooksInv
  <2>1. StateOK /\ \A c \in Clients : req[c].step = "idle"
    BY <1>1, CallInvInit DEF CallInv, Init, Idle
  <2>2. \A k \in Keys : EntryBytes(k, data[k]) = 0
    BY <1>1 DEF Init, EntryBytes
  <2> DEFINE f == [k \in Keys |-> EntryBytes(k, data[k])]
  <2>3. f \in [Keys -> Int] /\ \A k \in Keys : f[k] = 0
    BY <2>2
  <2>4. StoredBytes(data) = SumFunction(f)
    BY DEF StoredBytes
  <2> HIDE DEF f
  <2>5. SumFunction(f) = 0
    BY <2>3, RequestsAssumption, SumZero DEF RequestsAssumption
  <2>6. used = StoredBytes(data)
    BY <1>1, <2>4, <2>5 DEF Init, LimitsInit
  <2>7. QED
    BY <2>1, <2>6, BooksOpened DEF BooksInv
<1>2. CallInv /\ CallInv' /\ BooksInv /\ [Next]_vars => BooksInv'
  BY BooksInvNext
<1>3. QED
  BY <1>1, <1>2, CallInvAlways, PTL DEF Spec

\* The total stored is the counter, or the one call at its store has it in hand.
Alone(c) == \A d \in Clients \ {c} : req[d].step # "persist"

StoredSound ==
  /\ (\A c \in Clients : req[c].step # "persist") =>
       stored_usage = used \/ (stored_usage = None /\ used = 0)
  /\ \A c \in Clients : req[c].step = "persist" /\ Alone(c) => req[c].total = used

StoredInv == apart /\ in_order => StoredSound

LEMMA StoredInvNext ==
  ASSUME CallInv, CallInv', BooksInv, StoredInv, [Next]_vars
  PROVE  StoredInv'
<1> req \in [Clients -> Reqs]
  BY DEF CallInv, AllSound
<1>1. ASSUME UNCHANGED <<used, stored_usage, in_order>>, apart' => apart,
             \A c \in Clients : (req'[c].step = "persist") <=> (req[c].step = "persist"),
             \A c \in Clients : req[c].step = "persist" => req'[c] = req[c]
      PROVE  StoredInv'
  BY <1>1 DEF StoredInv, StoredSound, Alone
<1>2. ASSUME NEW c \in Clients, Quiet(c), ~Persist(c)
      PROVE  StoredInv'
  <2>1. UNCHANGED <<used, stored_usage, in_order>>
    BY <1>2 DEF Quiet, Admission, Receive, LookupLimiter, Install, Admit, Throttled, Refuse,
       AppendFails, StoreFails, limitsVars, usageVars, observed
  <2>2. req[c].step # "persist"
    BY <1>2 DEF Quiet, Admission, Receive, LookupLimiter, Install, Admit, Throttled, Refuse,
       AppendFails, StoreFails
  <2>3. /\ UNCHANGED apart /\ \A d \in Clients \ {c} : req'[d] = req[d]
        /\ req'[c].step # "persist"
    BY <1>2, QuietFacts DEF Writing
  <2>4. QED
    BY <1>1, <2>1, <2>2, <2>3
<1>3. ASSUME NEW c \in Clients, Plan(c)
      PROVE  StoredInv'
  <2>1. /\ UNCHANGED <<used, stored_usage, in_order>> /\ (apart' => apart)
        /\ req[c].step = "next" /\ req'[c].step = "append"
        /\ \A d \in Clients \ {c} : req'[d] = req[d]
    BY <1>3 DEF Plan, limitsVars, usageVars, Reqs
  <2>2. QED
    BY <1>1, <2>1
<1>a. ASSUME NEW c \in Clients, AppendRecord(c)
      PROVE  StoredInv'
  <2>1. /\ UNCHANGED <<used, stored_usage, in_order, apart>>
        /\ req[c].step = "append" /\ req'[c].step = "store"
        /\ \A d \in Clients \ {c} : req'[d] = req[d]
    BY <1>a, AppendFacts DEF limitsVars, usageVars, observed
  <2>2. QED
    BY <1>1, <2>1
<1>4. ASSUME NEW c \in Clients, Store(c)
      PROVE  StoredInv'
  <2>1. /\ UNCHANGED <<used, stored_usage, in_order, apart>>
        /\ req[c].step = "store"
        /\ \A d \in Clients \ {c} : req'[d] = req[d]
    BY <1>4, StoreMoves DEF Store, limitsVars, usageVars, observed
  <2>2. req'[c].step # "persist"
    <3>1. req[c].step \in Doing /\ req[c] \in Reqs /\ Sound(req[c], Len(limiters))
          /\ Len(limiters) \in Nat
      BY <1>4, LenProperties DEF Store, Doing, CallInv, AllSound, StateOK, LimitsTypeOK
    <3>2. NextOp(req[c]).step \in {"idle", "next"}
      BY <3>1, NextOpSound
    <3>3. [req[c] EXCEPT !.step = "adjust", !.unaudited = 1].step = "adjust"
      BY <3>1 DEF Reqs
    <3>4. QED
      BY <1>4, <3>2, <3>3, StoreMoves
  <2>3. QED
    BY <1>1, <2>1, <2>2
<1>5. ASSUME NEW c \in Clients, Adjust(c)
      PROVE  StoredInv'
  <2>1. /\ req'[c].step = "persist" /\ req'[c].total = used'
        /\ \A d \in Clients \ {c} : req'[d] = req[d]
    BY <1>5 DEF Adjust, Reqs
  <2>2. QED
    BY <2>1 DEF StoredInv, StoredSound, Alone
<1>6. ASSUME NEW c \in Clients, Persist(c)
      PROVE  StoredInv'
  <2>1. SUFFICES ASSUME apart', in_order' PROVE StoredSound'
    BY DEF StoredInv
  <2>2. /\ UNCHANGED <<apart, used>> /\ req[c].step = "persist" /\ stored_usage' = req[c].total
        /\ in_order /\ Alone(c)
    BY <1>6, <2>1 DEF Persist, TotalToStore, Alone
  <2>3. /\ \A d \in Clients \ {c} : req'[d] = req[d]
        /\ req'[c].step # "persist"
    BY <1>6, QuietFacts DEF Quiet, Writing
  <2>4. stored_usage' = used'
    BY <2>1, <2>2 DEF StoredInv, StoredSound
  <2>5. \A d \in Clients : req'[d].step # "persist"
    BY <2>2, <2>3 DEF Alone
  <2>6. QED
    BY <2>4, <2>5 DEF StoredSound
<1>7. ASSUME NEW o \in Operators, OperatorStarts(o) \/ OperatorStores(o) \/ OperatorCaches(o)
      PROVE  StoredInv'
  <2>1. UNCHANGED <<used, stored_usage, in_order, apart, req>>
    BY <1>7 DEF OperatorStarts, OperatorStores, OperatorCaches, SetQuotaRead, ClearQuotaStore,
         SetQuotaStore, SetQuotaFails, SetQuotaCache, ClearQuotaCache, observed, usageVars
  <2>2. QED
    BY <1>1, <2>1
<1>8. CASE Tick \/ UNCHANGED vars
  <2>1. UNCHANGED <<used, stored_usage, in_order, apart, req>>
    BY <1>8 DEF Tick, vars, limitsVars, usageVars, observed
  <2>2. QED
    BY <1>1, <2>1
<1>9. CASE Restart
  <2>1. SUFFICES ASSUME apart', in_order' PROVE StoredSound'
    BY DEF StoredInv
  <2>2. /\ apart /\ in_order /\ durable /\ \A c \in Clients : ~Writing(c)
        /\ data' = data /\ used' = StoredBytes(data') /\ stored_usage' = stored_usage
        /\ \A c \in Clients : req'[c].step = "idle"
    BY <1>9, <2>1 DEF Restart, LimitsRestart, Idle
  <2>3. used' = used
    BY <2>2, NothingOwed DEF BooksInv
  <2>4. stored_usage = used \/ (stored_usage = None /\ used = 0)
    BY <2>2 DEF StoredInv, StoredSound, Writing
  <2>5. QED
    BY <2>2, <2>3, <2>4 DEF StoredSound
<1>10. QED
  BY <1>2, <1>3, <1>a, <1>4, <1>5, <1>6, <1>7, <1>8, <1>9 DEF Next, Operation, Quiet

\* README.md:164: whatever part of its operations a call has done before it
\* failed, and whatever a restart replays, the counter is the data; and the total
\* stored is the counter, with the exceptions AccountingAgrees names.
THEOREM AccountingAlways == Spec => []AccountingAgrees
<1>1. ASSUME Init PROVE StoredInv
  BY <1>1 DEF Init, LimitsInit, StoredInv, StoredSound, Idle
<1>2. CallInv /\ CallInv' /\ BooksInv /\ StoredInv /\ [Next]_vars => StoredInv'
  BY StoredInvNext
<1>3. ASSUME CallInv, BooksInv, StoredInv PROVE AccountingAgrees
  BY <1>3, NothingOwed DEF AccountingAgrees, BooksInv, StoredInv, StoredSound, Writing
<1>4. QED
  BY <1>1, <1>2, <1>3, CallInvAlways, BooksInvAlways, PTL DEF Spec

-----------------------------------------------------------------------------
(* The quota: QuotaBounds *)

\* What a client's write may still add to the counter.
Landing(c) == req[c].step \in {"append", "store", "adjust"}
Growth == [c \in Clients |-> IF Landing(c) /\ req[c].delta > 0 THEN req[c].delta ELSE 0]

Entry == MaxKeySize + MaxValueSize
Slack == (Cardinality(Clients) - 1) * Entry

\* No write adds more than an entry; and the counter, with all that may still
\* be added, is within the limit it was checked against and the others' entries.
DeltaBound == \A c \in Clients : Landing(c) => req[c].delta <= Entry
Load == apart /\ cap # Unlimited => used + SumFunction(Growth) <= cap + Slack

LoadInv == DeltaBound /\ Load

\* The sums are numbers.
LEMMA GrowthType ==
  ASSUME CallInv
  PROVE  /\ Growth \in [Clients -> Nat] /\ SumFunction(Growth) \in Nat
         /\ IsFiniteSet(Clients) /\ Entry \in Nat /\ Slack \in Nat
<1>1. Growth \in [Clients -> Nat]
  BY DEF CallInv, AllSound, Reqs, Growth
<1>2. IsFiniteSet(Clients) /\ Clients # {}
  BY RequestsAssumption DEF RequestsAssumption
<1>3. SumFunction(Growth) \in Nat
  BY <1>1, <1>2, SumNatural
<1>4. Entry \in Nat
  BY Constants DEF Entry
<1>5. Cardinality(Clients) \in Nat \ {0}
  BY <1>2, FS_CardinalityType, FS_EmptySet
<1>6. Slack \in Nat
  <2>1. Cardinality(Clients) - 1 \in Nat
    BY <1>5
  <2>2. \A a, b \in Nat : a * b \in Nat
    OBVIOUS
  <2>3. QED
    BY <1>4, <2>1, <2>2 DEF Slack
<1>7. QED
  BY <1>1, <1>2, <1>3, <1>4, <1>6

\* Growth that goes away.
LEMMA LoadFrame ==
  ASSUME CallInv, CallInv', Load, UNCHANGED <<used, cap>>, apart' => apart,
         \A d \in Clients : Growth'[d] <= Growth[d]
  PROVE  Load'
<1>1. SUFFICES ASSUME apart', cap # Unlimited
               PROVE  used + SumFunction(Growth)' <= cap + Slack
  BY DEF Load, Slack, Entry
<1>2. Growth \in [Clients -> Nat] /\ SumFunction(Growth) \in Nat /\ IsFiniteSet(Clients)
      /\ Slack \in Nat
  BY GrowthType
<1>3. Growth' \in [Clients -> Nat]
  BY DEF CallInv, AllSound, Reqs, Growth, Landing
<1>4. SumFunction(Growth)' <= SumFunction(Growth) /\ SumFunction(Growth)' \in Nat
  BY <1>2, <1>3, SumMonotone, SumNatural
<1>5. used \in Nat /\ cap \in Nat
  BY <1>1 DEF CallInv, StateOK, LimitsTypeOK
<1>6. used + SumFunction(Growth) <= cap + Slack
  BY <1>1 DEF Load
<1>7. QED
  BY <1>2, <1>4, <1>5, <1>6

\* Steps that begin no write.
LEMMA LoadQuiet ==
  ASSUME CallInv, CallInv', LoadInv, NEW c \in Clients, Quiet(c)
  PROVE  LoadInv'
<1>1. /\ UNCHANGED <<used, cap, apart>> /\ ~Writing(c)'
      /\ \A d \in Clients \ {c} : req'[d] = req[d]
  BY QuietFacts
<1>2. \A d \in Clients \ {c} : Growth'[d] = Growth[d]
  BY <1>1 DEF Growth, Landing
<1>3. Growth'[c] = 0 /\ Growth \in [Clients -> Nat]
  BY <1>1, GrowthType DEF Growth, Landing, Writing
<1>4. \A d \in Clients : Growth'[d] <= Growth[d]
  BY <1>2, <1>3
<1>5. Load'
  BY <1>1, <1>4, LoadFrame DEF LoadInv
<1>6. DeltaBound'
  BY <1>1 DEF LoadInv, DeltaBound, Landing, Writing
<1>7. QED
  BY <1>5, <1>6 DEF LoadInv

\* check_write: the planned growth fits under the limit; the others' growth is
\* what the check does not see.
LEMMA LoadPlan ==
  ASSUME CallInv, CallInv', LoadInv, NEW c \in Clients, Plan(c)
  PROVE  LoadInv'
<1> DEFINE delta == PlannedDelta(Op(c))
<1>1. /\ req[c].step = "next" /\ WellFormed(Op(c)) /\ CheckWrite(delta)
      /\ req' = [req EXCEPT ![c].step = "append", ![c].delta = delta]
      /\ cap' = IF delta <= 0 THEN cap
                ELSE IF Quota.max_bytes = 0 \/ cap = Unlimited THEN Unlimited
                ELSE Max({cap, Quota.max_bytes})
      /\ (apart' => apart) /\ UNCHANGED used
  BY DEF Plan, limitsVars, usageVars
<1>2. /\ req \in [Clients -> Reqs] /\ used \in Nat /\ cap \in Nat \cup {Unlimited}
      /\ Quota.max_bytes \in Nat
  BY RateType DEF CallInv, AllSound, StateOK, LimitsTypeOK, Quotas
<1>3. /\ req'[c].step = "append" /\ req'[c].delta = delta
      /\ \A d \in Clients \ {c} : req'[d] = req[d]
  BY <1>1, <1>2 DEF Reqs
<1>4. delta \in Int /\ delta <= Entry
  <2>1. /\ Op(c) \in [op : {"put", "delete", "other"}, key : Keys, len : Nat]
        /\ EntryBytes(Op(c).key, NewLen(Op(c))) \in Nat
        /\ EntryBytes(Op(c).key, data[Op(c).key]) \in Nat
    BY <1>1, OpFacts DEF Doing
  <2>2. EntryBytes(Op(c).key, NewLen(Op(c))) <= Entry
    BY <1>1, <2>1, Constants DEF WellFormed, NewLen, EntryBytes, Entry
  <2>3. Entry \in Nat
    BY GrowthType
  <2>4. QED
    BY <2>1, <2>2, <2>3 DEF PlannedDelta
<1> HIDE DEF delta
<1>5. DeltaBound'
  BY <1>3, <1>4 DEF LoadInv, DeltaBound, Landing, Entry
<1>6. /\ Growth'[c] = (IF delta > 0 THEN delta ELSE 0) /\ Growth[c] = 0
      /\ \A d \in Clients \ {c} : Growth'[d] = Growth[d]
  <2>1. Landing(c)' /\ ~Landing(c)
    BY <1>1, <1>3 DEF Landing
  <2>2. Growth[c] = 0 /\ Growth'[c] = IF req'[c].delta > 0 THEN req'[c].delta ELSE 0
    BY <2>1 DEF Growth
  <2>3. \A d \in Clients \ {c} : Growth'[d] = Growth[d]
    BY <1>3 DEF Growth, Landing
  <2>4. QED
    BY <1>3, <2>2, <2>3
<1>7. Load'
  <2>1. CASE delta <= 0
    <3>1. Growth'[c] = 0 /\ Growth \in [Clients -> Nat]
      BY <1>4, <1>6, <2>1, GrowthType
    <3>2. \A d \in Clients : Growth'[d] <= Growth[d]
      BY <1>6, <3>1
    <3>3. QED
      BY <1>1, <2>1, <3>2, LoadFrame DEF LoadInv
  <2>2. CASE ~(delta <= 0)
    <3>1. SUFFICES ASSUME cap' # Unlimited
                   PROVE  used + SumFunction(Growth)' <= cap' + Slack
      BY <1>1 DEF Load, Slack, Entry
    <3>2. /\ cap' = Max({cap, Quota.max_bytes}) /\ cap \in Nat
          /\ used + delta <= Quota.max_bytes
      BY <1>1, <1>2, <2>2, <3>1 DEF CheckWrite
    <3>3. cap' \in Nat /\ Quota.max_bytes <= cap'
      BY <1>2, <3>2, MaxOfTwo
    <3>4. Growth' \in [Clients -> Nat] /\ Growth'[c] = delta
      BY <1>2, <1>4, <1>6, <2>2 DEF CallInv, AllSound, Reqs, Growth, Landing
    <3>5. /\ Growth \in [Clients -> Nat] /\ IsFiniteSet(Clients) /\ Entry \in Nat
          /\ Slack \in Nat
      BY GrowthType
    <3>6. \A d \in Clients \ {c} : Growth'[d] <= Entry
      BY <1>6, <3>5 DEF LoadInv, DeltaBound, Growth
    <3>7. SumFunction(Growth)' <= Growth'[c] + (Cardinality(Clients) - 1) * Entry
      BY <3>4, <3>5, <3>6, SumBound
    <3>8. SumFunction(Growth)' \in Nat
      BY <3>4, <3>5, SumNatural
    <3>9. SumFunction(Growth)' <= delta + Slack
      BY <3>4, <3>7 DEF Slack
    <3>10. QED
      BY <1>2, <1>4, <3>2, <3>3, <3>5, <3>8, <3>9
  <2>3. QED
    BY <2>1, <2>2
<1>8. QED
  BY <1>5, <1>7 DEF LoadInv

LEMMA LoadAppend ==
  ASSUME CallInv, CallInv', LoadInv, NEW c \in Clients, AppendRecord(c)
  PROVE  LoadInv'
<1>1. /\ UNCHANGED <<used, cap, apart>> /\ req[c].step = "append" /\ req'[c].step = "store"
      /\ req'[c].delta = req[c].delta /\ \A d \in Clients \ {c} : req'[d] = req[d]
  BY AppendFacts DEF limitsVars, usageVars, observed
<1>2. \A d \in Clients : (Landing(d)' <=> Landing(d)) /\ req'[d].delta = req[d].delta
  BY <1>1 DEF Landing
<1>3. Growth' = Growth /\ DeltaBound'
  BY <1>2 DEF Growth, LoadInv, DeltaBound, Entry
<1>4. QED
  BY <1>1, <1>3 DEF LoadInv, Load, Slack, Entry

LEMMA LoadStore ==
  ASSUME CallInv, CallInv', LoadInv, NEW c \in Clients, Store(c)
  PROVE  LoadInv'
<1>1. /\ UNCHANGED <<used, cap, apart>> /\ req[c].step = "store"
      /\ \A d \in Clients \ {c} : req'[d] = req[d]
      /\ req'[c] = IF req[c].delta = 0 THEN NextOp(req[c])
                   ELSE [req[c] EXCEPT !.step = "adjust", !.unaudited = 1]
  BY StoreMoves DEF Store, CallInv, AllSound, limitsVars, usageVars, observed
<1>2. req[c] \in Reqs /\ Sound(req[c], Len(limiters)) /\ Len(limiters) \in Nat
  BY LenProperties DEF CallInv, AllSound, StateOK, LimitsTypeOK
<1>3. \/ ~Landing(c)'
      \/ req'[c].delta = req[c].delta
  <2>1. NextOp(req[c]).step \in {"idle", "next"}
    BY <1>1, <1>2, NextOpSound DEF Doing
  <2>2. [req[c] EXCEPT !.step = "adjust", !.unaudited = 1].delta = req[c].delta
    BY <1>2 DEF Reqs
  <2>3. QED
    BY <1>1, <2>1, <2>2 DEF Landing
<1>4. Growth \in [Clients -> Nat] /\ req[c].delta \in Int
  BY <1>2, GrowthType DEF Reqs
<1>5. Growth'[c] <= Growth[c]
  <2>1. Landing(c) /\ Growth[c] \in Nat
    BY <1>1, <1>4 DEF Landing
  <2>2. Growth[c] = IF req[c].delta > 0 THEN req[c].delta ELSE 0
    BY <2>1 DEF Growth
  <2>3. Growth'[c] = IF Landing(c)' /\ req'[c].delta > 0 THEN req'[c].delta ELSE 0
    BY DEF Growth
  <2>4. Growth'[c] \in {0, Growth[c]}
    BY <1>3, <2>2, <2>3
  <2>5. QED
    BY <2>1, <2>4
<1>6. \A d \in Clients \ {c} : Growth'[d] <= Growth[d]
  BY <1>1, <1>4 DEF Growth, Landing
<1>7. Load'
  BY <1>1, <1>5, <1>6, LoadFrame DEF LoadInv
<1>8. DeltaBound'
  BY <1>1, <1>3 DEF LoadInv, DeltaBound, Landing, Entry
<1>9. QED
  BY <1>7, <1>8 DEF LoadInv

LEMMA LoadAdjust ==
  ASSUME CallInv, CallInv', BooksInv, LoadInv, NEW c \in Clients, Adjust(c)
  PROVE  LoadInv'
<1>1. /\ UNCHANGED <<cap, apart>> /\ req[c].step = "adjust" /\ req'[c].step = "persist"
      /\ \A d \in Clients \ {c} : req'[d] = req[d]
  BY DEF Adjust, CallInv, AllSound, Reqs, observed
<1>2. DeltaBound'
  BY <1>1 DEF LoadInv, DeltaBound, Landing, Entry
<1>3. /\ Growth'[c] = 0 /\ Growth[c] = (IF req[c].delta > 0 THEN req[c].delta ELSE 0)
      /\ \A d \in Clients \ {c} : Growth[d] = Growth'[d]
  BY <1>1 DEF Growth, Landing
<1>4. Load'
  <2>1. SUFFICES ASSUME apart, cap # Unlimited
                 PROVE  used' + SumFunction(Growth)' <= cap + Slack
    BY <1>1 DEF Load, Slack, Entry
  <2>2. used' = used + req[c].delta
    BY <2>1, BooksAdjust DEF BooksInv
  <2>3. /\ Growth \in [Clients -> Nat] /\ IsFiniteSet(Clients) /\ SumFunction(Growth) \in Nat
        /\ Slack \in Nat
    BY GrowthType
  <2>4. Growth' \in [Clients -> Nat]
    BY DEF CallInv, AllSound, Reqs, Growth, Landing
  <2>5. Growth \in [Clients -> Int] /\ Growth' \in [Clients -> Int]
    BY <2>3, <2>4
  <2>6. SumFunction(Growth)' = SumFunction(Growth) + Growth'[c] - Growth[c]
    BY <1>3, <2>3, <2>5, SumPoint
  <2>7. used \in Nat /\ cap \in Nat /\ req[c].delta \in Int
    BY <2>1 DEF CallInv, AllSound, Reqs, StateOK, LimitsTypeOK
  <2>8. used + SumFunction(Growth) <= cap + Slack
    BY <2>1 DEF LoadInv, Load
  <2>9. QED
    BY <1>3, <2>2, <2>3, <2>6, <2>7, <2>8
<1>5. QED
  BY <1>2, <1>4 DEF LoadInv

\* What is owed is part of what may still be added.
LEMMA StoredWithinLoad ==
  ASSUME CallInv, Books
  PROVE  StoredBytes(data) <= used + SumFunction(Growth)
<1>1. Growth \in [Clients -> Nat] /\ IsFiniteSet(Clients) /\ SumFunction(Growth) \in Nat
  BY GrowthType
<1>2. Owed \in [Clients -> Int] /\ Growth \in [Clients -> Int]
  BY <1>1, OwedType DEF CallInv
<1>3. \A c \in Clients : req[c].delta \in Int
  BY DEF CallInv, AllSound, Reqs
<1>4. \A c \in Clients : Owed[c] <= Growth[c]
  BY <1>3 DEF Owed, Growth, Landing
<1>5. SumFunction(Owed) <= SumFunction(Growth) /\ SumFunction(Owed) \in Int
  BY <1>1, <1>2, <1>4, SumMonotone, SumType
<1>6. StoredBytes(data) = used + SumFunction(Owed) /\ used \in Nat
  BY DEF Books, CallInv, StateOK, LimitsTypeOK
<1>7. QED
  BY <1>1, <1>5, <1>6

LEMMA LoadRestart ==
  ASSUME CallInv, CallInv', BooksInv, LoadInv, Restart
  PROVE  LoadInv'
<1>1. /\ UNCHANGED apart /\ used' = StoredBytes(data')
      /\ cap' = (IF data' = data \/ cap = Unlimited THEN cap ELSE Max({cap, StoredBytes(data')}))
      /\ \A c \in Clients : req'[c].step = "idle"
  BY DEF Restart, LimitsRestart, Idle
<1>2. DeltaBound'
  BY <1>1 DEF DeltaBound, Landing
<1>3. Growth' \in [Clients -> Int] /\ \A c \in Clients : Growth'[c] = 0
  BY <1>1 DEF Growth, Landing
<1>4. /\ SumFunction(Growth)' = 0 /\ SumFunction(Growth) \in Nat /\ Slack \in Nat
  BY <1>3, GrowthType, SumZero
<1>5. Load'
  <2>1. SUFFICES ASSUME apart, cap' # Unlimited
                 PROVE  used' <= cap' + Slack
    <3>1. used' \in Nat
      BY DEF CallInv, StateOK, LimitsTypeOK
    <3>2. QED
      BY <1>1, <1>4, <3>1 DEF Load, Slack, Entry
  <2>2. cap # Unlimited /\ cap \in Nat /\ used \in Nat /\ used' \in Nat
    BY <1>1, <2>1 DEF CallInv, StateOK, LimitsTypeOK
  <2>3. CASE data' = data
    <3>1. used' <= used + SumFunction(Growth) /\ cap' = cap
      BY <1>1, <2>1, <2>3, StoredWithinLoad DEF BooksInv
    <3>2. used + SumFunction(Growth) <= cap + Slack
      BY <2>1, <2>2 DEF LoadInv, Load
    <3>3. QED
      BY <1>4, <2>2, <3>1, <3>2
  <2>4. CASE data' # data
    <3>1. cap' = Max({cap, used'})
      BY <1>1, <2>2, <2>4
    <3>2. cap' \in Nat /\ used' <= cap'
      BY <2>2, <3>1, MaxOfTwo
    <3>3. Slack \in Nat
      BY GrowthType
    <3>4. \A x, y, z \in Nat : x <= y => x <= y + z
      OBVIOUS
    <3>5. QED
      BY <2>2, <3>2, <3>3, <3>4
  <2>5. QED
    BY <2>3, <2>4
<1>6. QED
  BY <1>2, <1>5 DEF LoadInv

LEMMA LoadInvNext ==
  ASSUME CallInv, CallInv', BooksInv, LoadInv, [Next]_vars
  PROVE  LoadInv'
<1>1. CASE UNCHANGED <<used, req, cap, apart>>
  BY <1>1 DEF LoadInv, DeltaBound, Load, Growth, Landing, Slack, Entry
<1>2. ASSUME NEW o \in Operators, OperatorStarts(o) \/ OperatorStores(o) \/ OperatorCaches(o)
      PROVE  UNCHANGED <<used, req, cap, apart>>
  BY <1>2 DEF OperatorStarts, OperatorStores, OperatorCaches, SetQuotaRead, ClearQuotaStore,
       SetQuotaStore, SetQuotaFails, SetQuotaCache, ClearQuotaCache, observed, usageVars
<1>3. CASE Tick \/ UNCHANGED vars
  BY <1>1, <1>3 DEF Tick, vars, limitsVars, usageVars, observed
<1>4. QED
  BY <1>1, <1>2, <1>3, LoadQuiet, LoadPlan, LoadAppend, LoadStore,
     LoadAdjust, LoadRestart
     DEF Next, Operation, Quiet

\* quota.rs:164-185: however many writes are in flight when each is checked, a
\* tenant stores at most one entry for each of the other clients more than the
\* highest limit it was checked against or, unchecked, a start-up has found.
THEOREM QuotaBoundsAlways == Spec => []QuotaBounds
<1>1. ASSUME Init PROVE LoadInv
  <2>1. CallInv /\ \A c \in Clients : req[c].step = "idle"
    BY <1>1, CallInvInit DEF Init, Idle
  <2>2. Growth \in [Clients -> Int] /\ \A c \in Clients : Growth[c] = 0
    BY <2>1 DEF Growth, Landing
  <2>3. SumFunction(Growth) = 0 /\ Slack \in Nat
    BY <2>1, <2>2, GrowthType, SumZero
  <2>4. used = 0 /\ cap = 0
    BY <1>1 DEF Init, LimitsInit
  <2>5. QED
    BY <2>1, <2>3, <2>4 DEF LoadInv, DeltaBound, Load, Landing
<1>2. CallInv /\ CallInv' /\ BooksInv /\ LoadInv /\ [Next]_vars => LoadInv'
  BY LoadInvNext
<1>3. ASSUME CallInv, BooksInv, LoadInv PROVE QuotaBounds
  <2>1. SUFFICES ASSUME apart, cap # Unlimited
                 PROVE  StoredBytes(data) <= cap + Slack
    BY DEF QuotaBounds, Slack, Entry
  <2>2. StoredBytes(data) <= used + SumFunction(Growth)
    BY <1>3, <2>1, StoredWithinLoad DEF BooksInv
  <2>3. used + SumFunction(Growth) <= cap + Slack
    BY <1>3, <2>1 DEF LoadInv, Load
  <2>4. /\ StoredBytes(data) \in Nat /\ used \in Nat /\ cap \in Nat /\ Slack \in Nat
        /\ SumFunction(Growth) \in Nat
    BY <1>3, <2>1, StoredBytesType, GrowthType DEF CallInv, StateOK, LimitsTypeOK
  <2>5. QED
    BY <2>2, <2>3, <2>4
<1>4. QED
  BY <1>1, <1>2, <1>3, CallInvAlways, BooksInvAlways, PTL DEF Spec
=============================================================================
