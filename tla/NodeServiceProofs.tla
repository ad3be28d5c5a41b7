-------------------------- MODULE NodeServiceProofs --------------------------
(***************************************************************************)
(* Proofs about NodeService, for any number of clients, keys and values and *)
(* any bounds.  Each property rests on an invariant of its own.             *)
(*                                                                          *)
(* TtlCovered is not inductive by itself: the sweeper replaces its batch    *)
(* when it drains the index, so it has to be known that the old batch is    *)
(* empty by then.  SweepIdle says so, and with the types it is all that is  *)
(* missing.                                                                 *)
(*                                                                          *)
(* What watchers and evictions need is who owns a key: WriterInv says that  *)
(* on a key on which no operations overlapped one process at most is at     *)
(* work, and relates what it carries to what is stored.                     *)
(*                                                                          *)
(* UsageConserved equates sums.  BooksInv keeps them equal step by step and *)
(* shows that the counter never saturates at zero on the way.               *)
(*                                                                          *)
(* The refinement needs to know what a restart will restore: LogInv says    *)
(* that the last record of a settled key in the log is what is stored, and  *)
(* during start-up that replaying the rest of the log makes it so.          *)
(***************************************************************************)
EXTENDS NodeService, ProofFacts, SequenceTheorems

USE DEF Procs, NoExpiry

\* Between two passes sweep_once holds no candidate.
SweepIdle == pc[Sweeper] = "idle" => sweep.due = {}

\* The inductive invariant: types, the sweeper's batch, the coverage.
TtlInv == TypeOK /\ SweepIdle /\ TtlCovered

-----------------------------------------------------------------------------
(* Building blocks *)

\* The accounting of an entry is an integer.
LEMMA EntryBytesType ==
  ASSUME NEW slot \in Slots
  PROVE  EntryBytes(slot) \in Int
<1>1. CASE slot = None
  BY <1>1 DEF EntryBytes
<1>2. CASE slot \in Entries
  <2>1. slot.val \in Nat
    BY <1>2, ConstantsAssumption DEF ConstantsAssumption, Entries
  <2>2. QED
    BY <2>1 DEF EntryBytes, KeyLen
<1>3. QED
  BY <1>1, <1>2 DEF Slots

\* An open operation is an operation: what TypeOK says of one process.
LEMMA OpTypes ==
  ASSUME TypeOK, NEW p \in Procs, pc[p] \notin {"idle", "examine"}
  PROVE  /\ op[p] \in Operations
         /\ op[p].key \in Keys
         /\ op[p].entry \in Slots
         /\ op[p].delta \in Int
BY DEF TypeOK, Operations

\* Spending from a bound leaves a bound.
LEMMA BudgetTypes ==
  ASSUME budget \in Budgets, SpendOp \/ SpendError \/ SpendCrash
  PROVE  budget' \in Budgets
<1>1. CASE SpendOp
  BY <1>1 DEF Budgets, SpendOp
<1>2. CASE SpendError
  BY <1>2 DEF Budgets, SpendError
<1>3. CASE SpendCrash
  BY <1>3 DEF Budgets, SpendCrash
<1>4. QED
  BY <1>1, <1>2, <1>3

\* Opening an operation: where the process is and what ghost remembers.
LEMMA OpenFacts ==
  ASSUME TypeOK, NEW p \in Procs, NEW k \in Keys, NEW step, NEW operation,
         Open(p, k, step, operation)
  PROVE  /\ pc' = [pc EXCEPT ![p] = step]
         /\ op' = [op EXCEPT ![p] = operation]
         /\ ghost' \in Ghosts
         /\ ghost'.leaked = ghost.leaked
<1>1. pc' = [pc EXCEPT ![p] = step] /\ op' = [op EXCEPT ![p] = operation]
  BY DEF Open, Goto
<1>2. ghost' = ghost \/ ghost' = [ghost EXCEPT !.overlapped = @ \cup {k}]
  BY DEF Open
<1> ghost \in Ghosts
  BY DEF TypeOK
<1>3. ASSUME ghost' = [ghost EXCEPT !.overlapped = @ \cup {k}]
      PROVE  ghost' \in Ghosts /\ ghost'.leaked = ghost.leaked
  BY <1>3 DEF Ghosts
<1>4. QED
  BY <1>1, <1>2, <1>3
-----------------------------------------------------------------------------
(* Type correctness *)

\* A node that was never started.
LEMMA TypeInit == Init => TypeOK
<1> SUFFICES ASSUME Init PROVE TypeOK
  OBVIOUS
<1>1. budget \in Budgets /\ sweep \in Sweeps /\ ghost \in Ghosts
  BY ConstantsAssumption
     DEF ConstantsAssumption, Init, Budgets, Sweeps, Ghosts, IdleSweep, QuietGhost,
         EmptyMap, Slots
<1>2. segment \in Segments
  BY DEF Init, Segments, FreshSegment
<1>3. QED
  BY <1>1, <1>2 DEF Init, TypeOK, EmptyMap, Slots, Steps, OpenSteps

\* What a step that moves one process has to establish for TypeOK.
LEMMA TypeOfMove ==
  ASSUME TypeOK, NEW p \in Procs, NEW step \in Steps, NEW operation,
         operation \in Operations \cup {None},
         step \notin {"idle", "examine"} => operation \in Operations,
         step \in {"schedule", "reschedule"} => operation.entry \in Entries,
         pc' = [pc EXCEPT ![p] = step],
         op' = [op EXCEPT ![p] = operation]
  PROVE  /\ pc' \in [Procs -> Steps]
         /\ op' \in [Procs -> Operations \cup {None}]
         /\ \A q \in Procs : pc'[q] \notin {"idle", "examine"}
                               => op'[q] \in Operations
         /\ \A q \in Procs : pc'[q] \in {"schedule", "reschedule"}
                               => op'[q].entry \in Entries
BY DEF TypeOK

\* Starting an operation keeps the types.
LEMMA TypeClient ==
  ASSUME TypeOK, NEW c \in Clients, ClientStep(c)
  PROVE  TypeOK'
<1>1. PICK k \in Keys : PutPlan(c, k) \/ DeletePlan(c, k)
  BY DEF ClientStep
<1>2. CASE PutPlan(c, k)
  <2>1. PICK v \in Values, ttl \in Ttls :
          LET exp == IF ttl > 0 THEN now + ttl ELSE NoExpiry
              entry == [val |-> v, exp |-> exp]
              delta == PlanAccounting(k, entry)
          IN /\ SpendOp
             /\ Open(c, k, "append", [key |-> k, entry |-> entry, delta |-> delta])
             /\ UNCHANGED <<backend, node, now, store, wal, segment, replayed, ttl_index,
                            used, view, sweep>>
    BY <1>2 DEF PutPlan
  <2> DEFINE exp == IF ttl > 0 THEN now + ttl ELSE NoExpiry
             entry == [val |-> v, exp |-> exp]
             delta == PlanAccounting(k, entry)
             operation == [key |-> k, entry |-> entry, delta |-> delta]
  <2>2. exp \in Nat
    BY ConstantsAssumption DEF ConstantsAssumption, TypeOK
  <2>3. entry \in Slots /\ store[k] \in Slots
    BY <2>2 DEF Entries, Slots, TypeOK
  <2>4. delta \in Int
    BY <2>3, EntryBytesType DEF PlanAccounting
  <2>5. operation \in Operations
    BY <2>3, <2>4 DEF Operations
  <2>6. Open(c, k, "append", operation) /\ SpendOp
    BY <2>1
  <2> HIDE DEF operation
  <2>7. /\ pc' = [pc EXCEPT ![c] = "append"]
        /\ op' = [op EXCEPT ![c] = operation]
        /\ ghost' \in Ghosts
    BY <2>6, OpenFacts
  <2>8. budget' \in Budgets
    BY <2>6, BudgetTypes DEF TypeOK
  <2>9. QED
    BY <2>1, <2>5, <2>7, <2>8, TypeOfMove DEF TypeOK, Steps, OpenSteps
<1>3. CASE DeletePlan(c, k)
  <2> DEFINE operation ==
        [key |-> k, entry |-> None, delta |-> PlanDeleteAccounting(k)]
  <2>1. PlanDeleteAccounting(k) \in Int
    BY EntryBytesType DEF PlanDeleteAccounting, TypeOK
  <2>2. operation \in Operations
    BY <2>1 DEF Operations, Slots
  <2>3. Open(c, k, "append", operation) /\ SpendOp
    BY <1>3 DEF DeletePlan
  <2> HIDE DEF operation
  <2>4. /\ pc' = [pc EXCEPT ![c] = "append"]
        /\ op' = [op EXCEPT ![c] = operation]
        /\ ghost' \in Ghosts
    BY <2>3, OpenFacts
  <2>5. budget' \in Budgets
    BY <2>3, BudgetTypes DEF TypeOK
  <2>6. UNCHANGED <<backend, node, now, store, wal, segment, replayed, ttl_index, used, view,
                    sweep>>
    BY <1>3 DEF DeletePlan
  <2>7. QED
    BY <2>2, <2>4, <2>5, <2>6, TypeOfMove DEF TypeOK, Steps, OpenSteps
<1>4. QED
  BY <1>1, <1>2, <1>3

\* Where an operation returns to, and that it is forgotten.
LEMMA ReturnFacts ==
  ASSUME NEW p \in Procs, Return(p)
  PROVE  /\ pc' = [pc EXCEPT ![p] = IF p = Sweeper THEN "examine" ELSE "idle"]
         /\ op' = [op EXCEPT ![p] = None]
BY DEF Return

\* What an append leaves of the observations.
LEMMA AppendGhost ==
  ASSUME TypeOK, NEW p \in Procs, WalAppend(p)
  PROVE  /\ ghost'.overlapped = ghost.overlapped /\ ghost'.leaked = ghost.leaked
         /\ \/ /\ wal' = Append(wal, RecordOf(p))
               /\ ghost'.halfway = ghost.halfway
            \/ /\ UNCHANGED wal
               /\ ghost'.halfway = ghost.halfway \cup {op[p].key}
<1>1. \/ wal' = Append(wal, RecordOf(p)) /\ UNCHANGED ghost
      \/ UNCHANGED wal /\ ghost' = [ghost EXCEPT !.halfway = @ \cup {op[p].key}]
  BY DEF WalAppend
<1>2. ghost \in Ghosts
  BY DEF TypeOK
<1>3. QED
  BY <1>1, <1>2 DEF Ghosts

\* Where a call that failed leaves its process, the observations and the log.
LEMMA FailureFacts ==
  ASSUME TypeOK, NEW p \in Procs, AppendFails(p) \/ OperationFails(p)
  PROVE  /\ pc[p] \in {"plan", "append", "apply"}
         /\ pc' = [pc EXCEPT ![p] = IF p = Sweeper THEN "examine" ELSE "idle"]
         /\ op' = [op EXCEPT ![p] = None]
         /\ UNCHANGED <<backend, node, now, store, replayed, ttl_index, used, view, sweep>>
         /\ ghost'.overlapped = ghost.overlapped
         /\ ghost'.leaked = ghost.leaked \cup Leaks(p)
         /\ \/ pc[p] # "apply" /\ ghost'.halfway = ghost.halfway
            \/ ghost'.halfway = ghost.halfway \cup {op[p].key}
         /\ \/ UNCHANGED wal
            \/ /\ pc[p] = "append" /\ wal' = Append(wal, RecordOf(p))
               /\ ghost'.halfway = ghost.halfway \cup {op[p].key}
<1>1. /\ pc[p] \in {"plan", "append", "apply"}
      /\ pc' = [pc EXCEPT ![p] = IF p = Sweeper THEN "examine" ELSE "idle"]
      /\ op' = [op EXCEPT ![p] = None]
      /\ UNCHANGED <<backend, node, now, store, replayed, ttl_index, used, view, sweep>>
  BY ReturnFacts DEF AppendFails, OperationFails
<1>2. ghost \in Ghosts
  BY DEF TypeOK
<1>3. PICK h, l :
        /\ ghost' = [ghost EXCEPT !.halfway = h, !.leaked = l]
        /\ l = ghost.leaked \cup Leaks(p)
        /\ \/ pc[p] # "apply" /\ h = ghost.halfway
           \/ h = ghost.halfway \cup {op[p].key}
        /\ \/ UNCHANGED wal
           \/ /\ pc[p] = "append" /\ wal' = Append(wal, RecordOf(p))
              /\ h = ghost.halfway \cup {op[p].key}
  <2>1. CASE OperationFails(p)
    <3>1. /\ ghost' = [ghost EXCEPT
               !.halfway = IF pc[p] = "apply" THEN @ \cup {op[p].key} ELSE @,
               !.leaked = @ \cup Leaks(p)]
          /\ UNCHANGED wal
      BY <2>1 DEF OperationFails
    <3>2. QED
      BY <3>1, Zenon
  <2>2. CASE AppendFails(p)
    <3>0. pc[p] = "append"
      BY <2>2 DEF AppendFails
    <3>1. \/ ghost' = [ghost EXCEPT !.leaked = @ \cup Leaks(p)] /\ UNCHANGED wal
          \/ /\ ghost' = [ghost EXCEPT !.halfway = @ \cup {op[p].key},
                                        !.leaked = @ \cup Leaks(p)]
             /\ wal' = Append(wal, RecordOf(p))
      BY <2>2 DEF AppendFails
    <3>2. [ghost EXCEPT !.leaked = @ \cup Leaks(p)]
            = [ghost EXCEPT !.halfway = ghost.halfway, !.leaked = @ \cup Leaks(p)]
      BY <1>2 DEF Ghosts
    <3>3. QED
      BY <3>0, <3>1, <3>2
  <2>3. QED
    BY <2>1, <2>2
<1>4. ghost'.overlapped = ghost.overlapped /\ ghost'.halfway = h /\ ghost'.leaked = l
  BY <1>2, <1>3 DEF Ghosts
<1>5. QED
  BY <1>1, <1>3, <1>4

\* A process that returns keeps the types of pc and op.
LEMMA TypeOfReturn ==
  ASSUME TypeOK, NEW p \in Procs, Return(p)
  PROVE  /\ pc' \in [Procs -> Steps]
         /\ op' \in [Procs -> Operations \cup {None}]
         /\ \A q \in Procs : pc'[q] \notin {"idle", "examine"}
                               => op'[q] \in Operations
         /\ \A q \in Procs : pc'[q] \in {"schedule", "reschedule"}
                               => op'[q].entry \in Entries
BY ReturnFacts, TypeOfMove DEF Steps

\* A process that goes on with its operation keeps the types of pc and op.
LEMMA TypeOfGoto ==
  ASSUME TypeOK, NEW p \in Procs, NEW step \in Steps, Goto(p, step), UNCHANGED op,
         step \notin {"idle", "examine"} => op[p] \in Operations,
         step \in {"schedule", "reschedule"} => op[p].entry \in Entries
  PROVE  /\ pc' \in [Procs -> Steps]
         /\ op' \in [Procs -> Operations \cup {None}]
         /\ \A q \in Procs : pc'[q] \notin {"idle", "examine"}
                               => op'[q] \in Operations
         /\ \A q \in Procs : pc'[q] \in {"schedule", "reschedule"}
                               => op'[q].entry \in Entries
BY DEF TypeOK, Goto

\* Every step of an open operation keeps the types.
LEMMA TypeWrite ==
  ASSUME TypeOK, NEW p \in Procs, WriteStep(p)
  PROVE  TypeOK'
<1>1. CASE WalAppend(p)
  <2>1. op[p] \in Operations /\ op[p].key \in Keys /\ op[p].entry \in Slots
    BY <1>1, OpTypes DEF WalAppend
  <2>2. RecordOf(p) \in Records
    BY <2>1 DEF Records, RecordOf
  <2>3. wal' \in Seq(Records)
    BY <1>1, <2>2 DEF WalAppend, TypeOK
  <2>4. "apply" \in Steps
    BY DEF Steps, OpenSteps
  <2>5. segment' \in Segments
    BY <1>1 DEF WalAppend, TypeOK, Segments
  <2>6. ghost' \in Ghosts
    <3>1. ghost' = ghost \/ ghost' = [ghost EXCEPT !.halfway = @ \cup {op[p].key}]
      BY <1>1 DEF WalAppend
    <3>2. ghost \in Ghosts
      BY DEF TypeOK
    <3>3. QED
      BY <2>1, <3>1, <3>2 DEF Ghosts
  <2>7. Goto(p, "apply")
        /\ UNCHANGED <<backend, node, now, store, replayed, ttl_index, view, op, sweep, budget>>
    BY <1>1 DEF WalAppend
  <2>8. QED
    BY <2>1, <2>3, <2>4, <2>5, <2>6, <2>7, TypeOfGoto DEF TypeOK
<1>a. CASE AppendFails(p)
  <2>1. op[p] \in Operations /\ op[p].key \in Keys /\ op[p].entry \in Slots
    BY <1>a, OpTypes DEF AppendFails
  <2>2. RecordOf(p) \in Records
    BY <2>1 DEF Records, RecordOf
  <2>3. wal' \in Seq(Records) /\ segment' \in Segments
    <3>1. wal \in Seq(Records) /\ segment \in Segments
      BY DEF TypeOK
    <3>2. Append(wal, RecordOf(p)) \in Seq(Records)
      BY <2>2, <3>1, AppendProperties
    <3>3. [segment EXCEPT !.damaged = TRUE] \in Segments
      BY <3>1 DEF Segments
    <3>4. QED
      BY <1>a, <3>1, <3>2, <3>3 DEF AppendFails
  <2>4. ghost' \in Ghosts
    <3>1. ghost \in Ghosts
      BY DEF TypeOK
    <3>2. ghost.halfway \in SUBSET Keys /\ ghost.leaked \in SUBSET Keys /\ Leaks(p) \in SUBSET Keys
      BY <2>1, <3>1 DEF Ghosts, Leaks
    <3>3. PICK h \in SUBSET Keys, l \in SUBSET Keys :
            \/ ghost' = [ghost EXCEPT !.halfway = h, !.leaked = l]
            \/ ghost' = [ghost EXCEPT !.leaked = l]
      BY <1>a, <2>1, <3>2 DEF AppendFails
    <3>4. QED
      BY <3>1, <3>3 DEF Ghosts
  <2>5. budget' \in Budgets
    BY <1>a, BudgetTypes DEF AppendFails, TypeOK
  <2>6. Return(p) /\ UNCHANGED <<backend, node, now, store, replayed, ttl_index, view, sweep>>
    BY <1>a DEF AppendFails
  <2>7. QED
    BY <2>3, <2>4, <2>5, <2>6, TypeOfReturn DEF TypeOK
<1>2. CASE StorageApply(p)
  <2>1. op[p] \in Operations /\ op[p].key \in Keys /\ op[p].entry \in Slots
    BY <1>2, OpTypes DEF StorageApply
  <2>2. store' \in [Keys -> Slots]
    BY <1>2, <2>1 DEF StorageApply, TypeOK
  <2>3. ghost' \in Ghosts
    <3>1. ghost' = [ghost EXCEPT !.unsynced = @ \cup {op[p].key}]
      BY <1>2 DEF StorageApply
    <3>2. ghost \in Ghosts
      BY DEF TypeOK
    <3>3. QED
      BY <3>1, <3>2, <2>1 DEF Ghosts
  <2>4. /\ AfterApply(p) \in Steps \ {"idle", "examine", "reschedule"}
        /\ AfterApply(p) = "schedule" => op[p].entry \in Entries
    BY <2>1 DEF AfterApply, Steps, OpenSteps, Slots
  <2>5. Goto(p, AfterApply(p)) /\ UNCHANGED op
    BY <1>2 DEF StorageApply
  <2>6. /\ pc' \in [Procs -> Steps]
        /\ op' \in [Procs -> Operations \cup {None}]
        /\ \A q \in Procs : pc'[q] \notin {"idle", "examine"}
                              => op'[q] \in Operations
        /\ \A q \in Procs : pc'[q] \in {"schedule", "reschedule"}
                              => op'[q].entry \in Entries
    BY <2>1, <2>4, <2>5, TypeOfGoto
  <2>7. UNCHANGED <<backend, node, now, wal, segment, replayed, ttl_index, view, sweep, budget>>
    BY <1>2 DEF StorageApply
  <2>8. QED
    BY <2>2, <2>3, <2>6, <2>7 DEF TypeOK
<1>3. CASE OperationFails(p)
  <2>1. op[p].key \in Keys
    BY <1>3, OpTypes DEF OperationFails
  <2>2. ghost' \in Ghosts
    <3>1. ghost \in Ghosts
      BY DEF TypeOK
    <3>2. PICK h \in SUBSET Keys, l \in SUBSET Keys :
            ghost' = [ghost EXCEPT !.halfway = h, !.leaked = l]
      <4>1. ghost.halfway \in SUBSET Keys /\ ghost.leaked \in SUBSET Keys /\ Leaks(p) \in SUBSET Keys
        BY <2>1, <3>1 DEF Ghosts, Leaks
      <4>2. QED
        BY <1>3, <4>1, <2>1 DEF OperationFails
    <3>3. QED
      BY <3>1, <3>2 DEF Ghosts
  <2>3. budget' \in Budgets
    BY <1>3, BudgetTypes DEF OperationFails, TypeOK
  <2>4. Return(p) /\ UNCHANGED <<backend, node, now, store, wal, segment, replayed, ttl_index,
                                 view, sweep>>
    BY <1>3 DEF OperationFails
  <2>5. QED
    BY <2>2, <2>3, <2>4, TypeOfReturn DEF TypeOK
<1>4. CASE Schedule(p)
  <2>1. op[p] \in Operations /\ op[p].key \in Keys
    BY <1>4, OpTypes DEF Schedule
  <2>2. op[p].entry.exp \in Nat
    BY <1>4 DEF Schedule, TypeOK, Entries
  <2>3. ttl_index' \in SUBSET (Nat \X Keys)
    BY <1>4, <2>1, <2>2 DEF Schedule, TypeOK
  <2>4. "commit" \in Steps
    BY DEF Steps, OpenSteps
  <2>5. QED
    BY <1>4, <2>1, <2>3, <2>4, TypeOfGoto DEF Schedule, TypeOK
<1>5. CASE CommitAccounting(p)
  <2>1. op[p] \in Operations
    BY <1>5, OpTypes DEF CommitAccounting
  <2>2. "publish" \in Steps
    BY DEF Steps, OpenSteps
  <2>3. QED
    BY <1>5, <2>1, <2>2, TypeOfGoto DEF CommitAccounting, TypeOK
<1>6. CASE PublishChange(p)
  <2>1. op[p] \in Operations /\ op[p].key \in Keys /\ op[p].entry \in Slots
    BY <1>6, OpTypes DEF PublishChange
  <2>2. Payload(op[p].entry) \in Values \cup {None}
    BY <2>1 DEF Payload, Slots, Entries
  <2>3. view' \in [Keys -> Values \cup {None}]
    BY <1>6, <2>1, <2>2 DEF PublishChange, TypeOK
  <2>4. "rotate_check" \in Steps
    BY DEF Steps
  <2>5. QED
    BY <1>6, <2>1, <2>3, <2>4, TypeOfGoto DEF PublishChange, TypeOK
<1>7. CASE RotateCheck(p)
  <2>1. UNCHANGED <<backend, node, now, store, wal, segment, replayed, ttl_index, view, sweep,
                    budget, ghost>>
    BY <1>7 DEF RotateCheck
  <2>2. CASE Goto(p, "flush") /\ UNCHANGED op
    <3>1. op[p] \in Operations /\ "flush" \in Steps
      BY <1>7, OpTypes DEF RotateCheck, Steps
    <3>2. QED
      BY <2>1, <2>2, <3>1, TypeOfGoto DEF TypeOK
  <2>3. CASE Return(p)
    BY <2>1, <2>3, TypeOfReturn DEF TypeOK
  <2>4. QED
    BY <1>7, <2>2, <2>3 DEF RotateCheck
<1>8. CASE FlushStorage(p)
  <2>1. UNCHANGED <<backend, node, now, store, wal, segment, replayed, ttl_index, view, sweep>>
    BY <1>8 DEF FlushStorage
  <2>2. CASE /\ Goto(p, "rotate")
             /\ ghost' = [ghost EXCEPT !.unsynced = {}]
             /\ UNCHANGED <<op, budget>>
    <3>1. op[p] \in Operations /\ "rotate" \in Steps
      BY <1>8, OpTypes DEF FlushStorage, Steps
    <3>2. ghost \in Ghosts
      BY DEF TypeOK
    <3>3. ghost' \in Ghosts
      BY <2>2, <3>2 DEF Ghosts
    <3>4. QED
      BY <2>1, <2>2, <3>1, <3>3, TypeOfGoto DEF TypeOK
  <2>3. CASE Return(p) /\ SpendError /\ UNCHANGED ghost
    BY <2>1, <2>3, TypeOfReturn, BudgetTypes DEF TypeOK
  <2>4. QED
    BY <1>8, <2>2, <2>3 DEF FlushStorage
<1>9. CASE RotateWal(p)
  <2>1. wal' = <<>> /\ Return(p)
        /\ UNCHANGED <<backend, node, now, store, replayed, ttl_index, view, sweep, ghost>>
    BY <1>9 DEF RotateWal
  <2>2. segment' \in Segments
    <3>1. segment \in Segments
      BY DEF TypeOK
    <3>2. FreshSegment \in Segments
      BY DEF FreshSegment, Segments
    <3>3. \A damaged \in BOOLEAN : [segment EXCEPT !.damaged = damaged] \in Segments
      BY <3>1 DEF Segments
    <3>4. QED
      BY <1>9, <3>2, <3>3 DEF RotateWal
  <2>3. budget' \in Budgets
    BY <1>9, BudgetTypes DEF RotateWal, TypeOK
  <2>4. QED
    BY <2>1, <2>2, <2>3, TypeOfReturn DEF TypeOK
<1>10. QED
  BY <1>1, <1>a, <1>2, <1>3, <1>4, <1>5, <1>6, <1>7, <1>8, <1>9 DEF WriteStep

\* Every step of the sweeper's own keeps the types.
LEMMA TypeSweeper ==
  ASSUME TypeOK, SweeperStep
  PROVE  TypeOK'
<1> sweep \in Sweeps /\ ghost \in Ghosts /\ Sweeper \in Procs
  BY DEF TypeOK
<1>1. CASE DrainDue
  <2>1. sweep' \in Sweeps /\ ttl_index' \in SUBSET (Nat \X Keys)
    BY <1>1 DEF DrainDue, TypeOK, Sweeps
  <2>2. "examine" \in Steps
    BY DEF Steps
  <2>3. QED
    BY <1>1, <2>1, <2>2, TypeOfGoto DEF DrainDue, TypeOK
<1>2. ASSUME NEW e \in sweep.due, Examine(e)
      PROVE  TypeOK'
  <2> DEFINE k == e[2]
             eviction == [key |-> k, entry |-> None, delta |-> 0]
             postponed == [key |-> k, entry |-> store[k], delta |-> 0]
  <2>1. k \in Keys /\ store[k] \in Slots
    BY DEF Sweeps, TypeOK
  <2>2. eviction \in Operations /\ postponed \in Operations
    BY <2>1 DEF Operations, Slots
  <2>3. sweep' \in Sweeps
    <3>1. sweep' = [sweep EXCEPT !.due = @ \ {e}]
      BY <1>2 DEF Examine
    <3>2. QED
      BY <3>1 DEF Sweeps
  <2>4. UNCHANGED <<backend, node, now, store, wal, segment, replayed, ttl_index, view, budget>>
    BY <1>2 DEF Examine
  <2>5. CASE Open(Sweeper, k, "plan", eviction)
    <3> HIDE DEF eviction, k
    <3>1. /\ pc' = [pc EXCEPT ![Sweeper] = "plan"]
          /\ op' = [op EXCEPT ![Sweeper] = eviction]
          /\ ghost' \in Ghosts
      BY <2>1, <2>5, OpenFacts
    <3>2. QED
      BY <2>2, <2>3, <2>4, <3>1, TypeOfMove DEF TypeOK, Steps, OpenSteps
  <2>6. CASE /\ MustPostpone(store[k], sweep.now)
             /\ Goto(Sweeper, "reschedule")
             /\ op' = [op EXCEPT ![Sweeper] = postponed]
             /\ UNCHANGED ghost
    <3>1. postponed.entry \in Entries
      BY <2>1, <2>6 DEF MustPostpone, Slots
    <3>2. pc' = [pc EXCEPT ![Sweeper] = "reschedule"]
      BY <2>6 DEF Goto
    <3> HIDE DEF postponed
    <3>3. QED
      BY <2>2, <2>3, <2>4, <2>6, <3>1, <3>2, TypeOfMove DEF TypeOK, Steps
  <2>7. CASE UNCHANGED <<pc, op, ghost>>
    BY <2>3, <2>4, <2>7 DEF TypeOK
  <2>8. QED
    BY <1>2, <2>5, <2>6, <2>7 DEF Examine
<1>3. ASSUME NEW e \in sweep.due, ExamineFails(e)
      PROVE  TypeOK'
  <2>1. e[2] \in Keys
    BY DEF Sweeps
  <2>2. sweep' \in Sweeps
    <3>1. sweep' = [sweep EXCEPT !.due = @ \ {e}]
      BY <1>3 DEF ExamineFails
    <3>2. QED
      BY <3>1 DEF Sweeps
  <2>3. ghost' \in Ghosts
    <3>1. ghost' = [ghost EXCEPT !.leaked = @ \cup {e[2]}]
      BY <1>3 DEF ExamineFails
    <3>2. QED
      BY <2>1, <3>1 DEF Ghosts
  <2>4. budget' \in Budgets
    BY <1>3, BudgetTypes DEF ExamineFails, TypeOK
  <2>5. UNCHANGED <<backend, node, now, store, wal, segment, replayed, ttl_index, view, pc, op>>
    BY <1>3 DEF ExamineFails
  <2>6. QED
    BY <2>2, <2>3, <2>4, <2>5 DEF TypeOK
<1>4. CASE Reschedule
  <2>1. op[Sweeper].key \in Keys
    BY <1>4, OpTypes DEF Reschedule
  <2>2. op[Sweeper].entry.exp \in Nat
    BY <1>4 DEF Reschedule, TypeOK, Entries
  <2>3. ttl_index' \in SUBSET (Nat \X Keys)
    BY <1>4, <2>1, <2>2 DEF Reschedule, TypeOK
  <2>4. QED
    BY <1>4, <2>3, TypeOfReturn DEF Reschedule, TypeOK
<1>5. CASE EvictPlan
  <2> DEFINE k == op[Sweeper].key
             planned == [op[Sweeper] EXCEPT !.delta = PlanDeleteAccounting(k)]
  <2>1. op[Sweeper] \in Operations /\ k \in Keys
    BY <1>5, OpTypes DEF EvictPlan
  <2>2. PlanDeleteAccounting(k) \in Int
    BY <2>1, EntryBytesType DEF PlanDeleteAccounting, TypeOK
  <2>3. planned \in Operations
    BY <2>1, <2>2 DEF Operations
  <2>4. op' = [op EXCEPT ![Sweeper] = planned]
        /\ pc' = [pc EXCEPT ![Sweeper] = "append"]
    BY <1>5 DEF EvictPlan, Goto
  <2>5. UNCHANGED <<backend, node, now, store, wal, segment, replayed, ttl_index, view, sweep,
                    budget, ghost>>
    BY <1>5 DEF EvictPlan
  <2> HIDE DEF planned
  <2>6. QED
    BY <2>3, <2>4, <2>5, TypeOfMove DEF TypeOK, Steps, OpenSteps
<1>6. CASE SweepDone
  <2>1. sweep' \in Sweeps
    BY <1>6 DEF SweepDone, IdleSweep, Sweeps
  <2>2. "idle" \in Steps
    BY DEF Steps
  <2>3. QED
    BY <1>6, <2>1, <2>2, TypeOfGoto DEF SweepDone, TypeOK
<1>7. QED
  BY <1>1, <1>2, <1>3, <1>4, <1>5, <1>6 DEF SweeperStep

\* What a crash keeps of the node, for the next start-up to be judged by.
LEMMA CrashGhost ==
  ASSUME TypeOK, Crash
  PROVE  ghost' \in Ghosts
<1>1. CASE node = "up"
  <2> DEFINE unsure == OpenKeys \cup ghost.overlapped \cup ghost.halfway
  <2>1. unsure \in SUBSET Keys /\ store \in [Keys -> Slots]
    BY DEF TypeOK, Ghosts, OpenKeys
  <2>2. ghost' = [QuietGhost EXCEPT !.unsure = unsure, !.live = store]
    BY <1>1 DEF Crash
  <2> HIDE DEF unsure
  <2>3. QED
    BY <2>1, <2>2 DEF Ghosts, QuietGhost
<1>2. CASE node # "up"
  BY <1>2 DEF Crash, TypeOK
<1>3. QED
  BY <1>1, <1>2

\* A crash and every step of start-up keep the types.
LEMMA TypeBoot ==
  ASSUME TypeOK, BootStep \/ Crash \/ Tick
  PROVE  TypeOK'
<1>1. CASE OpenStorageAndWal
  <2>1. segment' \in Segments
    <3>1. Len(wal) \in Nat
      BY DEF TypeOK
    <3>2. segment' = [bytes |-> Len(wal), damaged |-> FALSE]
      BY <1>1 DEF OpenStorageAndWal, FreshSegment
    <3>3. QED
      BY <3>1, <3>2 DEF Segments
  <2>2. QED
    BY <1>1, <2>1 DEF OpenStorageAndWal, TypeOK
<1>2. CASE Replay
  <2> DEFINE record == wal[replayed + 1]
  <2>1. record \in Records
    BY <1>2 DEF Replay, TypeOK
  <2>2. record.key \in Keys /\ record.entry \in Slots
    BY <2>1 DEF Records
  <2>3. store' = [store EXCEPT ![record.key] = record.entry]
    BY <1>2 DEF Replay
  <2> HIDE DEF record
  <2>4. store' \in [Keys -> Slots]
    BY <2>2, <2>3 DEF TypeOK
  <2>5. QED
    BY <1>2, <2>4 DEF Replay, TypeOK
<1>3. CASE ReplayDone
  BY <1>3 DEF ReplayDone, TypeOK
<1>4. CASE BootFlush
  BY <1>4 DEF BootFlush, TypeOK
<1>5. CASE BootRotate
  <2>1. segment' \in Segments
    BY <1>5 DEF BootRotate, Segments, FreshSegment
  <2>2. QED
    BY <1>5, <2>1 DEF BootRotate, TypeOK
<1>6. CASE Bootstrap
  <2>1. \A k \in Keys : store[k] # None => store[k].exp \in Nat
    BY DEF TypeOK, Slots, Entries
  <2>2. ttl_index' \in SUBSET (Nat \X Keys)
    BY <1>6, <2>1 DEF Bootstrap, StoredIndex
  <2>3. view' \in [Keys -> Values \cup {None}]
    <3>1. \A k \in Keys : Payload(store[k]) \in Values \cup {None}
      BY DEF TypeOK, Slots, Entries, Payload
    <3>2. QED
      BY <1>6, <3>1 DEF Bootstrap, StoredIndex
  <2>4. ghost' \in Ghosts
    BY <1>6 DEF Bootstrap, StoredIndex, QuietGhost, Ghosts, EmptyMap, Slots
  <2>5. QED
    BY <1>6, <2>2, <2>3, <2>4 DEF Bootstrap, StoredIndex, TypeOK
<1>7. CASE Crash
  <2>1. ghost' \in Ghosts
    BY <1>7, CrashGhost
  <2>2. budget' \in Budgets
    BY <1>7, BudgetTypes DEF Crash, TypeOK
  <2>3. store' \in [Keys -> Slots]
    BY <1>7 DEF Crash, TypeOK, EmptyMap, Slots
  <2>4. view' \in [Keys -> Values \cup {None}] /\ sweep' \in Sweeps
    BY <1>7 DEF Crash, EmptyMap, IdleSweep, Sweeps
  <2>5. /\ pc' = [p \in Procs |-> "idle"]
        /\ op' = [p \in Procs |-> None]
        /\ "idle" \in Steps
    BY <1>7 DEF Crash, Steps
  <2>6. segment' \in Segments
    BY <1>7 DEF Crash, Segments, FreshSegment
  <2>7. QED
    BY <1>7, <2>1, <2>2, <2>3, <2>4, <2>5, <2>6 DEF Crash, TypeOK
<1>8. CASE Tick
  BY <1>8 DEF Tick, TypeOK
<1>9. QED
  BY <1>1, <1>2, <1>3, <1>4, <1>5, <1>6, <1>7, <1>8 DEF BootStep

\* No step leaves the types.
LEMMA TypeNext ==
  ASSUME TypeOK, [Next]_vars
  PROVE  TypeOK'
<1>1. CASE Next
  BY <1>1, TypeClient, TypeWrite, TypeSweeper, TypeBoot DEF Next
<1>2. CASE UNCHANGED vars
  BY <1>2 DEF vars, TypeOK
<1>3. QED
  BY <1>1, <1>2

\* Whatever the number of clients, the data and the failures, every operation
\* that is under way is a well-formed one: the entry a writer or the sweeper
\* is about to index has an expiration field, and what a replay applies is a
\* record some append wrote.
THEOREM TypeCorrect == Spec => []TypeOK
<1>1. Init => TypeOK
  BY TypeInit
<1>2. TypeOK /\ [Next]_vars => TypeOK'
  BY TypeNext
<1>3. QED
  BY <1>1, <1>2, PTL DEF Spec

-----------------------------------------------------------------------------
(* The TTL coverage *)

\* A process none of whose steps counts as a cover may move freely.
LEMMA FreeMove ==
  ASSUME TypeOK, NEW k \in Keys, OnItsWay(k),
         NEW p \in Procs, NEW step, NEW operation,
         pc[p] # "schedule",
         p = Sweeper => pc[p] \notin {"plan", "append", "apply", "reschedule"},
         pc' = [pc EXCEPT ![p] = step],
         op' = [op EXCEPT ![p] = operation],
         ghost.leaked \subseteq ghost'.leaked,
         UNCHANGED <<store, ttl_index, sweep>>
  PROVE  OnItsWay(k)'
BY DEF TypeOK, OnItsWay

\* A process other than the sweeper leaves the sweeper where it is.
LEMMA OtherMove ==
  ASSUME TypeOK, SweepIdle, NEW c \in Clients, NEW step,
         pc' = [pc EXCEPT ![c] = step], UNCHANGED sweep
  PROVE  SweepIdle'
BY ConstantsAssumption DEF ConstantsAssumption, TypeOK, SweepIdle

\* Starting an operation keeps the coverage.
LEMMA CoverClient ==
  ASSUME TtlInv, NEW c \in Clients, ClientStep(c)
  PROVE  SweepIdle' /\ TtlCovered'
<1> TypeOK /\ SweepIdle /\ TtlCovered /\ c # Sweeper /\ c \in Procs
  BY ConstantsAssumption DEF ConstantsAssumption, TtlInv
<1>0. PICK k \in Keys : PutPlan(c, k) \/ DeletePlan(c, k)
  BY DEF ClientStep
<1>1. PICK operation :
         /\ pc[c] = "idle"
         /\ Open(c, k, "append", operation)
         /\ UNCHANGED <<node, store, ttl_index, sweep>>
  BY <1>0 DEF PutPlan, DeletePlan
<1>2. /\ pc' = [pc EXCEPT ![c] = "append"]
      /\ op' = [op EXCEPT ![c] = operation]
      /\ ghost'.leaked = ghost.leaked
  BY <1>1, OpenFacts
<1>3. SweepIdle'
  BY <1>1, <1>2, OtherMove
<1>4. ASSUME NEW j \in Keys, node' = "up", HasExpiry(j)'
      PROVE  OnItsWay(j)'
  <2>1. OnItsWay(j)
    BY <1>1, <1>4 DEF TtlCovered, HasExpiry
  <2>2. QED
    BY <1>1, <1>2, <2>1, FreeMove
<1>5. QED
  BY <1>3, <1>4 DEF TtlCovered

\* The steps of an open operation keep the coverage.
LEMMA CoverWrite ==
  ASSUME TtlInv, NEW p \in Procs, WriteStep(p)
  PROVE  SweepIdle' /\ TtlCovered'
<1> TypeOK /\ SweepIdle /\ TtlCovered /\ Sweeper \in Procs
  BY DEF TtlInv
<1>1. CASE WalAppend(p)
  <2>1. pc[p] = "append" /\ pc' = [pc EXCEPT ![p] = "apply"]
        /\ UNCHANGED <<node, store, ttl_index, op, sweep>>
        /\ ghost'.leaked = ghost.leaked
    BY <1>1, AppendGhost DEF WalAppend, Goto
  <2>2. QED
    BY <2>1 DEF TypeOK, SweepIdle, TtlCovered, HasExpiry, OnItsWay
<1>2. CASE StorageApply(p)
  <2>1. /\ pc[p] = "apply"
        /\ pc' = [pc EXCEPT ![p] = AfterApply(p)]
        /\ store' = [store EXCEPT ![op[p].key] = op[p].entry]
        /\ UNCHANGED <<node, ttl_index, op, sweep>>
    BY <1>2 DEF StorageApply, Goto
  <2>2. ghost'.leaked = ghost.leaked
    <3>1. ghost' = [ghost EXCEPT !.unsynced = @ \cup {op[p].key}]
      BY <1>2 DEF StorageApply
    <3>2. QED
      BY <3>1 DEF TypeOK, Ghosts
  <2>3. AfterApply(p) \in {"schedule", "commit"}
    BY DEF AfterApply
  <2>4. SweepIdle'
    BY <2>1, <2>3 DEF TypeOK, SweepIdle
  <2>5. ASSUME NEW j \in Keys, node' = "up", HasExpiry(j)'
        PROVE  OnItsWay(j)'
    <3>1. CASE j = op[p].key
      <4>1. store'[j] = op[p].entry
        BY <2>1, <3>1 DEF TypeOK
      <4>2. AfterApply(p) = "schedule"
        BY <2>5, <4>1 DEF HasExpiry, AfterApply
      <4>3. pc'[p] = "schedule" /\ op'[p].key = j /\ op'[p].entry = store'[j]
        BY <2>1, <3>1, <4>1, <4>2 DEF TypeOK
      <4>4. QED
        BY <4>3 DEF OnItsWay
    <3>2. CASE j # op[p].key
      <4>1. store'[j] = store[j]
        BY <2>1, <3>2 DEF TypeOK
      <4>2. OnItsWay(j)
        BY <2>1, <2>5, <4>1 DEF TtlCovered, HasExpiry
      <4>3. QED
        BY <2>1, <2>2, <3>2, <4>1, <4>2 DEF TypeOK, OnItsWay
    <3>3. QED
      BY <3>1, <3>2
  <2>6. QED
    BY <2>4, <2>5 DEF TtlCovered
<1>3. CASE AppendFails(p) \/ OperationFails(p)
  <2>1. /\ pc[p] \in {"plan", "append", "apply"}
        /\ pc' = [pc EXCEPT ![p] = IF p = Sweeper THEN "examine" ELSE "idle"]
        /\ op' = [op EXCEPT ![p] = None]
        /\ UNCHANGED <<node, store, ttl_index, sweep>>
    BY <1>3, FailureFacts
  <2>2. ghost'.leaked = IF p = Sweeper THEN ghost.leaked \cup {op[p].key}
                                       ELSE ghost.leaked
    BY <1>3, FailureFacts DEF Leaks
  <2>3. SweepIdle'
    BY <2>1 DEF TypeOK, SweepIdle
  <2>4. ASSUME NEW j \in Keys, node' = "up", HasExpiry(j)'
        PROVE  OnItsWay(j)'
    <3>1. OnItsWay(j)
      BY <2>1, <2>4 DEF TtlCovered, HasExpiry
    <3>2. QED
      BY <2>1, <2>2, <3>1 DEF TypeOK, OnItsWay
  <2>5. QED
    BY <2>3, <2>4 DEF TtlCovered
<1>4. CASE Schedule(p)
  <2>1. /\ pc[p] = "schedule" /\ pc' = [pc EXCEPT ![p] = "commit"]
        /\ ttl_index' = ttl_index \cup {<<op[p].entry.exp, op[p].key>>}
        /\ UNCHANGED <<node, store, op, sweep, ghost>>
    BY <1>4 DEF Schedule, Goto
  <2>2. QED
    BY <2>1 DEF TypeOK, SweepIdle, TtlCovered, HasExpiry, OnItsWay
<1>5. CASE CommitAccounting(p) \/ PublishChange(p)
  <2>1. PICK step :
          /\ pc[p] \in {"commit", "publish"} /\ step \in {"publish", "rotate_check"}
          /\ pc' = [pc EXCEPT ![p] = step]
          /\ UNCHANGED <<node, store, ttl_index, op, sweep, ghost>>
    BY <1>5 DEF CommitAccounting, PublishChange, Goto
  <2>2. QED
    BY <2>1 DEF TypeOK, SweepIdle, TtlCovered, HasExpiry, OnItsWay
<1>6. CASE RotateCheck(p) \/ FlushStorage(p) \/ RotateWal(p)
  <2>1. /\ pc[p] \in {"rotate_check", "flush", "rotate"}
        /\ UNCHANGED <<node, store, ttl_index, sweep>>
    BY <1>6 DEF RotateCheck, FlushStorage, RotateWal
  <2> DEFINE step == pc'[p]
             operation == op'[p]
  <2>2. /\ pc' = [pc EXCEPT ![p] = step]
        /\ op' = [op EXCEPT ![p] = operation]
        /\ p = Sweeper => step # "idle"
    <3>1. CASE Return(p)
      BY <3>1, ReturnFacts DEF TypeOK
    <3>2. CASE UNCHANGED op /\ (Goto(p, "flush") \/ Goto(p, "rotate"))
      BY <3>2 DEF TypeOK, Goto
    <3>3. QED
      BY <1>6, <3>1, <3>2 DEF RotateCheck, FlushStorage, RotateWal
  <2>3. ghost'.leaked = ghost.leaked
    <3>1. UNCHANGED ghost \/ ghost' = [ghost EXCEPT !.unsynced = {}]
      BY <1>6 DEF RotateCheck, FlushStorage, RotateWal
    <3>2. QED
      BY <3>1 DEF TypeOK, Ghosts
  <2>4. SweepIdle'
    BY <2>1, <2>2 DEF TypeOK, SweepIdle
  <2> HIDE DEF step, operation
  <2>5. ASSUME NEW j \in Keys, node' = "up", HasExpiry(j)'
        PROVE  OnItsWay(j)'
    <3>1. OnItsWay(j)
      BY <2>1, <2>5 DEF TtlCovered, HasExpiry
    <3>2. QED
      BY <2>1, <2>2, <2>3, <3>1, FreeMove
  <2>6. QED
    BY <2>4, <2>5 DEF TtlCovered
<1>7. QED
  BY <1>1, <1>2, <1>3, <1>4, <1>5, <1>6 DEF WriteStep

\* The sweeper's own steps keep the coverage: what leaves the index is in its
\* batch, and what leaves the batch is evicted, put back or needs no eviction.
LEMMA CoverSweeper ==
  ASSUME TtlInv, SweeperStep
  PROVE  SweepIdle' /\ TtlCovered'
<1> TypeOK /\ SweepIdle /\ TtlCovered /\ Sweeper \in Procs
  BY DEF TtlInv
<1>1. CASE DrainDue
  <2> DEFINE due == {e \in ttl_index : e[1] <= now}
  <2>1. /\ pc[Sweeper] = "idle" /\ pc' = [pc EXCEPT ![Sweeper] = "examine"]
        /\ sweep' = [now |-> now, due |-> due]
        /\ ttl_index' = ttl_index \ due
        /\ UNCHANGED <<node, store, op, ghost>>
    BY <1>1 DEF DrainDue, Goto
  <2>2. sweep.due = {} /\ sweep'.due = due
    BY <2>1 DEF SweepIdle
  <2>3. SweepIdle'
    BY <2>1 DEF TypeOK, SweepIdle
  <2>4. ASSUME NEW j \in Keys, node' = "up", HasExpiry(j)'
        PROVE  OnItsWay(j)'
    <3>1. OnItsWay(j) /\ store'[j] = store[j]
      BY <2>1, <2>4 DEF TtlCovered, HasExpiry
    <3>2. CASE <<store[j].exp, j>> \in ttl_index
      <4> DEFINE entry == <<store[j].exp, j>>
      <4>1. CASE entry \in due
        <5>1. entry \in sweep'.due /\ entry[2] = j
          BY <2>2, <4>1
        <5>2. QED
          BY <5>1 DEF OnItsWay
      <4>2. CASE entry \notin due
        BY <2>1, <3>1, <3>2, <4>2 DEF OnItsWay
      <4>3. QED
        BY <4>1, <4>2
    <3>3. CASE <<store[j].exp, j>> \notin ttl_index
      BY <2>1, <2>2, <3>1, <3>3 DEF TypeOK, OnItsWay
    <3>4. QED
      BY <3>2, <3>3
  <2>5. QED
    BY <2>3, <2>4 DEF TtlCovered
<1>2. ASSUME NEW e \in sweep.due, Examine(e)
      PROVE  SweepIdle' /\ TtlCovered'
  <2> DEFINE k == e[2]
             slot == store[k]
             eviction == [key |-> k, entry |-> None, delta |-> 0]
             postponed == [key |-> k, entry |-> slot, delta |-> 0]
  <2>1. k \in Keys /\ sweep'.due = sweep.due \ {e}
    <3>1. sweep' = [sweep EXCEPT !.due = @ \ {e}]
      BY <1>2 DEF Examine
    <3>2. QED
      BY <3>1 DEF TypeOK, Sweeps
  <2>2. pc[Sweeper] = "examine" /\ UNCHANGED <<node, store, ttl_index>>
    BY <1>2 DEF Examine
  <2>3. CASE Open(Sweeper, k, "plan", eviction)
    <3>1. /\ pc' = [pc EXCEPT ![Sweeper] = "plan"]
          /\ op' = [op EXCEPT ![Sweeper] = eviction]
          /\ ghost'.leaked = ghost.leaked
      <4> HIDE DEF eviction, k
      <4>1. QED
        BY <2>1, <2>3, OpenFacts
    <3>2. op'[Sweeper].key = k
      BY <3>1 DEF TypeOK
    <3>3. QED
      BY <2>1, <2>2, <3>1, <3>2
         DEF TypeOK, SweepIdle, TtlCovered, HasExpiry, OnItsWay
  <2>4. CASE /\ Goto(Sweeper, "reschedule")
             /\ op' = [op EXCEPT ![Sweeper] = postponed]
             /\ UNCHANGED ghost
    <3>1. /\ pc' = [pc EXCEPT ![Sweeper] = "reschedule"]
          /\ op'[Sweeper].key = k /\ op'[Sweeper].entry = store[k]
      BY <2>4 DEF Goto, TypeOK
    <3>2. QED
      BY <2>1, <2>2, <2>4, <3>1
         DEF TypeOK, SweepIdle, TtlCovered, HasExpiry, OnItsWay
  <2>5. CASE /\ ~MustEvict(slot, sweep.now) /\ ~MustPostpone(slot, sweep.now)
             /\ UNCHANGED <<pc, op, ghost>>
    <3>1. ~HasExpiry(k)
      BY <2>5 DEF MustEvict, MustPostpone, IsExpired, HasExpiry
    <3>2. QED
      BY <2>1, <2>2, <2>5, <3>1
         DEF TypeOK, SweepIdle, TtlCovered, HasExpiry, OnItsWay
  <2>6. QED
    BY <1>2, <2>3, <2>4, <2>5 DEF Examine
<1>3. ASSUME NEW e \in sweep.due, ExamineFails(e)
      PROVE  SweepIdle' /\ TtlCovered'
  <2>1. sweep'.due = sweep.due \ {e}
    <3>1. sweep' = [sweep EXCEPT !.due = @ \ {e}]
      BY <1>3 DEF ExamineFails
    <3>2. QED
      BY <3>1 DEF TypeOK, Sweeps
  <2>2. ghost'.leaked = ghost.leaked \cup {e[2]}
    <3>1. ghost' = [ghost EXCEPT !.leaked = @ \cup {e[2]}]
      BY <1>3 DEF ExamineFails
    <3>2. QED
      BY <3>1 DEF TypeOK, Ghosts
  <2>3. pc[Sweeper] = "examine" /\ UNCHANGED <<node, store, ttl_index, pc, op>>
    BY <1>3 DEF ExamineFails
  <2>4. QED
    BY <2>1, <2>2, <2>3 DEF TypeOK, SweepIdle, TtlCovered, HasExpiry, OnItsWay
<1>4. CASE Reschedule
  <2>1. /\ pc[Sweeper] = "reschedule"
        /\ pc' = [pc EXCEPT ![Sweeper] = "examine"]
        /\ op' = [op EXCEPT ![Sweeper] = None]
        /\ ttl_index' = ttl_index \cup {<<op[Sweeper].entry.exp, op[Sweeper].key>>}
        /\ UNCHANGED <<node, store, sweep, ghost>>
    BY <1>4, ReturnFacts DEF Reschedule
  <2>2. QED
    BY <2>1 DEF TypeOK, SweepIdle, TtlCovered, HasExpiry, OnItsWay
<1>5. CASE EvictPlan
  <2>1. /\ pc[Sweeper] = "plan" /\ pc' = [pc EXCEPT ![Sweeper] = "append"]
        /\ UNCHANGED <<node, store, ttl_index, sweep, ghost>>
    BY <1>5 DEF EvictPlan, Goto
  <2>2. PICK planned : /\ op' = [op EXCEPT ![Sweeper] = planned]
                       /\ planned.key = op[Sweeper].key
    <3>1. op' = [op EXCEPT ![Sweeper] =
                  [@ EXCEPT !.delta = PlanDeleteAccounting(op[Sweeper].key)]]
      BY <1>5 DEF EvictPlan
    <3>2. op[Sweeper] \in Operations
      BY <2>1, OpTypes
    <3> DEFINE planned == [op[Sweeper] EXCEPT
                             !.delta = PlanDeleteAccounting(op[Sweeper].key)]
    <3>3. planned.key = op[Sweeper].key
      BY <3>2 DEF Operations
    <3>4. op' = [op EXCEPT ![Sweeper] = planned]
      BY <3>1
    <3> HIDE DEF planned
    <3>5. QED
      BY <3>3, <3>4
  <2>3. QED
    BY <2>1, <2>2 DEF TypeOK, SweepIdle, TtlCovered, HasExpiry, OnItsWay
<1>6. CASE SweepDone
  <2>1. /\ pc[Sweeper] = "examine" /\ pc' = [pc EXCEPT ![Sweeper] = "idle"]
        /\ sweep.due = {} /\ sweep'.due = {}
        /\ UNCHANGED <<node, store, ttl_index, op, ghost>>
    BY <1>6 DEF SweepDone, Goto, IdleSweep
  <2>2. QED
    BY <2>1 DEF TypeOK, SweepIdle, TtlCovered, HasExpiry, OnItsWay
<1>7. QED
  BY <1>1, <1>2, <1>3, <1>4, <1>5, <1>6 DEF SweeperStep

\* Start-up rebuilds the coverage from storage; nothing is owed before that.
LEMMA CoverBoot ==
  ASSUME TtlInv, BootStep \/ Crash \/ Tick
  PROVE  SweepIdle' /\ TtlCovered'
<1> TypeOK /\ SweepIdle /\ TtlCovered /\ Sweeper \in Procs
  BY DEF TtlInv
<1>1. CASE Bootstrap
  <2>1. SweepIdle'
    BY <1>1 DEF Bootstrap, StoredIndex, SweepIdle
  <2>2. ASSUME NEW j \in Keys, HasExpiry(j)'
        PROVE  <<store'[j].exp, j>> \in ttl_index'
    BY <1>1, <2>2 DEF Bootstrap, StoredIndex, HasExpiry
  <2>3. QED
    BY <2>1, <2>2 DEF TtlCovered, OnItsWay
<1>2. CASE OpenStorageAndWal \/ Replay \/ ReplayDone \/ BootFlush \/ BootRotate
  <2>1. node' # "up" /\ UNCHANGED <<pc, sweep>>
    BY <1>2 DEF OpenStorageAndWal, Replay, ReplayDone, BootFlush, BootRotate
  <2>2. QED
    BY <2>1 DEF SweepIdle, TtlCovered
<1>3. CASE Crash
  <2>1. node' = "down" /\ sweep'.due = {}
    BY <1>3 DEF Crash, IdleSweep
  <2>2. QED
    BY <2>1 DEF SweepIdle, TtlCovered
<1>4. CASE Tick
  BY <1>4 DEF Tick, SweepIdle, TtlCovered, HasExpiry, OnItsWay
<1>5. QED
  BY <1>1, <1>2, <1>3, <1>4 DEF BootStep

\* The three facts together are inductive.
LEMMA TtlInvNext ==
  ASSUME TtlInv, [Next]_vars
  PROVE  TtlInv'
<1>1. TypeOK'
  BY TypeNext DEF TtlInv
<1>2. CASE Next
  BY <1>1, <1>2, CoverClient, CoverWrite, CoverSweeper, CoverBoot DEF Next, TtlInv
<1>3. CASE UNCHANGED vars
  BY <1>1, <1>3 DEF vars, TtlInv, SweepIdle, TtlCovered, HasExpiry, OnItsWay
<1>4. QED
  BY <1>2, <1>3

\* No entry with an expiration is ever forgotten by the TTL machinery, however
\* many writers race the sweeper and wherever the process dies: each is in the
\* index, about to be put there, or in the sweeper's hands, but for those whose
\* eviction failed.
THEOREM TtlCoverage == Spec => []TtlCovered
<1>1. Init => TtlInv
  BY TypeInit DEF Init, TtlInv, SweepIdle, TtlCovered, IdleSweep
<1>2. TtlInv /\ [Next]_vars => TtlInv'
  BY TtlInvNext
<1>3. TtlInv => TtlCovered
  BY DEF TtlInv
<1>4. QED
  BY <1>1, <1>2, <1>3, PTL DEF Spec

-----------------------------------------------------------------------------
(* One writer per key: WatcherAgrees and EvictsOnlyExpired *)

\* The steps before and after a write reaches storage.
EarlySteps == {"plan", "append", "apply"}
LandedSteps == {"schedule", "commit", "publish"}

\* No operation, and nothing for the sweeper, on a node that is not up.
Resting == node # "up" => ttl_index = {} /\ \A p \in Procs : pc[p] = "idle"

\* Two open operations on one key are remembered as overlapped.
OneWriter ==
  \A p, q \in Procs :
    p # q /\ pc[p] \in OpenSteps /\ pc[q] \in OpenSteps /\ op[p].key = op[q].key
      => op[p].key \in ghost.overlapped

\* What an operation wrote is still there when it is announced.
Landed ==
  \A p \in Procs : pc[p] \in LandedSteps /\ op[p].key \notin ghost.overlapped
                     => store[op[p].key] = op[p].entry

\* The delta an operation carries is what its write is about to change.
Planned ==
  \A p \in Procs : pc[p] \in {"append", "apply"} /\ op[p].key \notin ghost.overlapped
    => op[p].delta = EntryBytes(op[p].entry) - EntryBytes(store[op[p].key])

\* A watcher lags behind storage only by the writes not announced yet.
Told ==
  node = "up" =>
    \A k \in Keys \ ghost.overlapped :
      (\A p \in Procs : pc[p] \in LandedSteps => op[p].key # k)
        => view[k] = Payload(store[k])

\* What the sweeper found expired is still there and still expired.
Verified ==
  /\ sweep.now <= now
  /\ pc[Sweeper] = "plan" => op[Sweeper].entry = None
  /\ pc[Sweeper] \in EarlySteps /\ op[Sweeper].key \notin ghost.overlapped
       => MustEvict(store[op[Sweeper].key], sweep.now)

WriterInv == Resting /\ OneWriter /\ Landed /\ Planned /\ Told /\ Verified

\* What opening an operation on k does to the observations.
LEMMA OpenGhost ==
  ASSUME TypeOK, NEW p \in Procs, NEW k \in Keys, NEW step, NEW operation,
         Open(p, k, step, operation)
  PROVE  /\ ghost'.overlapped = ghost.overlapped \/ ghost'.overlapped = ghost.overlapped \cup {k}
         /\ (\E q \in Procs \ {p} : IsOpen(q, k)) => k \in ghost'.overlapped
         /\ ghost'.halfway = ghost.halfway
<1> ghost \in Ghosts
  BY DEF TypeOK
<1>1. CASE \E q \in Procs \ {p} : IsOpen(q, k)
  <2>1. ghost' = [ghost EXCEPT !.overlapped = @ \cup {k}]
    BY <1>1 DEF Open
  <2>2. QED
    BY <2>1 DEF Ghosts
<1>2. CASE ~\E q \in Procs \ {p} : IsOpen(q, k)
  <2>1. ghost' = ghost
    BY <1>2 DEF Open
  <2>2. QED
    BY <1>2, <2>1
<1>3. QED
  BY <1>1, <1>2

\* An operation begins: it is the only one on its key, or the key overlaps.
LEMMA WriterOpen ==
  ASSUME TypeOK, WriterInv, NEW p \in Procs, NEW k \in Keys,
         NEW step \in {"plan", "append"}, NEW operation \in Operations,
         operation.key = k, node = "up", pc[p] \notin OpenSteps,
         Open(p, k, step, operation),
         step = "append" =>
           operation.delta = EntryBytes(operation.entry) - EntryBytes(store[k]),
         p = Sweeper => /\ step = "plan" /\ operation.entry = None
                        /\ MustEvict(store[k], sweep.now),
         sweep'.now = sweep.now,
         UNCHANGED <<node, now, store, view>>
  PROVE  WriterInv'
<1>1. /\ pc' = [pc EXCEPT ![p] = step] /\ op' = [op EXCEPT ![p] = operation]
      /\ ghost'.overlapped = ghost.overlapped \/ ghost'.overlapped = ghost.overlapped \cup {k}
      /\ \A q \in Procs \ {p} : pc[q] \in OpenSteps /\ op[q].key = k => k \in ghost'.overlapped
  BY OpenFacts, OpenGhost DEF IsOpen
<1>2. /\ pc'[p] = step /\ op'[p] = operation
      /\ \A q \in Procs \ {p} : pc'[q] = pc[q] /\ op'[q] = op[q]
  BY <1>1 DEF TypeOK
<1>3. OneWriter'
  BY <1>1, <1>2 DEF WriterInv, OneWriter
<1>4. Landed'
  BY <1>1, <1>2 DEF WriterInv, Landed, LandedSteps
<1>5. Planned'
  BY <1>1, <1>2 DEF WriterInv, Planned
<1>6. Told'
  BY <1>1, <1>2 DEF WriterInv, Told, LandedSteps, OpenSteps
<1>7. Verified'
  BY <1>1, <1>2 DEF WriterInv, Verified, EarlySteps
<1>8. QED
  BY <1>3, <1>4, <1>5, <1>6, <1>7 DEF WriterInv, Resting

\* An operation that goes on without touching storage, or that ends before it
\* has touched it.
LEMMA WriterMove ==
  ASSUME TypeOK, WriterInv, NEW p \in Procs, NEW step, NEW operation,
         pc' = [pc EXCEPT ![p] = step], op' = [op EXCEPT ![p] = operation],
         node = "up", ghost'.overlapped = ghost.overlapped,
         UNCHANGED <<node, now, store, view>>, sweep'.now <= now',
         step \in OpenSteps => pc[p] \in OpenSteps /\ operation.key = op[p].key,
         step \in LandedSteps => pc[p] \in LandedSteps /\ operation.entry = op[p].entry,
         step \in {"append", "apply"} =>
           \/ pc[p] \in {"append", "apply"} /\ operation = op[p]
           \/ operation.delta = EntryBytes(operation.entry) - EntryBytes(store[operation.key]),
         pc[p] \in LandedSteps => step \in LandedSteps,
         p # Sweeper => UNCHANGED sweep,
         p = Sweeper /\ step \in EarlySteps => UNCHANGED sweep /\ pc[p] \in EarlySteps,
         p = Sweeper => step # "plan"
  PROVE  WriterInv'
<1>1. /\ pc'[p] = step /\ op'[p] = operation
      /\ \A q \in Procs \ {p} : pc'[q] = pc[q] /\ op'[q] = op[q]
  BY DEF TypeOK
<1>2. OneWriter'
  BY <1>1 DEF WriterInv, OneWriter
<1>3. Landed'
  BY <1>1 DEF WriterInv, Landed, LandedSteps, OpenSteps
<1>4. Planned'
  BY <1>1 DEF WriterInv, Planned
<1>5. Told'
  BY <1>1 DEF WriterInv, Told, LandedSteps, OpenSteps
<1>6. Verified'
  <2>1. Sweeper \in Procs
    OBVIOUS
  <2>2. QED
    BY <1>1, <2>1 DEF WriterInv, Verified, EarlySteps, OpenSteps
<1>7. QED
  BY <1>2, <1>3, <1>4, <1>5, <1>6 DEF WriterInv, Resting

\* A process that does something is one of a node that is up.
LEMMA BusyUp ==
  ASSUME WriterInv, NEW p \in Procs, pc[p] # "idle"
  PROVE  node = "up"
BY DEF WriterInv, Resting

\* What a put or a delete opens: its entry, and the bytes it will change.
LEMMA ClientOpens ==
  ASSUME TypeOK, NEW c \in Clients, NEW k \in Keys, PutPlan(c, k) \/ DeletePlan(c, k)
  PROVE  \E entry \in Slots, delta \in Int :
           /\ delta = EntryBytes(entry) - EntryBytes(store[k])
           /\ Open(c, k, "append", [key |-> k, entry |-> entry, delta |-> delta])
           /\ node = "up" /\ pc[c] = "idle"
           /\ UNCHANGED <<backend, node, now, store, wal, replayed, ttl_index, used, view, sweep>>
<1>1. CASE PutPlan(c, k)
  <2>1. PICK v \in Values, ttl \in Ttls :
          LET exp == IF ttl > 0 THEN now + ttl ELSE NoExpiry
              entry == [val |-> v, exp |-> exp]
              delta == PlanAccounting(k, entry)
          IN /\ Open(c, k, "append", [key |-> k, entry |-> entry, delta |-> delta])
             /\ node = "up" /\ pc[c] = "idle"
             /\ UNCHANGED <<backend, node, now, store, wal, replayed, ttl_index, used,
                            view, sweep>>
    BY <1>1 DEF PutPlan
  <2> DEFINE exp == IF ttl > 0 THEN now + ttl ELSE NoExpiry
             entry == [val |-> v, exp |-> exp]
             delta == PlanAccounting(k, entry)
  <2>2. exp \in Nat
    BY ConstantsAssumption DEF ConstantsAssumption, TypeOK
  <2>3. entry \in Slots /\ store[k] \in Slots
    BY <2>2 DEF Entries, Slots, TypeOK
  <2>4. delta \in Int /\ delta = EntryBytes(entry) - EntryBytes(store[k])
    BY <2>3, EntryBytesType DEF PlanAccounting
  <2>5. /\ Open(c, k, "append", [key |-> k, entry |-> entry, delta |-> delta])
        /\ node = "up" /\ pc[c] = "idle"
        /\ UNCHANGED <<backend, node, now, store, wal, replayed, ttl_index, used, view, sweep>>
    BY <2>1
  <2> HIDE DEF entry, delta
  <2>6. QED
    BY <2>3, <2>4, <2>5
<1>2. CASE DeletePlan(c, k)
  <2> DEFINE delta == PlanDeleteAccounting(k)
  <2>1. delta \in Int /\ delta = EntryBytes(None) - EntryBytes(store[k]) /\ None \in Slots
    BY EntryBytesType DEF PlanDeleteAccounting, EntryBytes, TypeOK, Slots
  <2>2. /\ Open(c, k, "append", [key |-> k, entry |-> None, delta |-> delta])
        /\ node = "up" /\ pc[c] = "idle"
        /\ UNCHANGED <<backend, node, now, store, wal, replayed, ttl_index, used, view, sweep>>
    BY <1>2 DEF DeletePlan
  <2> HIDE DEF delta
  <2>3. QED
    BY <2>1, <2>2
<1>3. QED
  BY <1>1, <1>2

\* A put or a delete begins.
LEMMA WriterClient ==
  ASSUME TypeOK, WriterInv, NEW c \in Clients, ClientStep(c)
  PROVE  WriterInv'
<1> c # Sweeper /\ c \in Procs
  BY ConstantsAssumption DEF ConstantsAssumption
<1>1. PICK k \in Keys : PutPlan(c, k) \/ DeletePlan(c, k)
  BY DEF ClientStep
<1>2. PICK entry \in Slots, delta \in Int :
        /\ delta = EntryBytes(entry) - EntryBytes(store[k])
        /\ Open(c, k, "append", [key |-> k, entry |-> entry, delta |-> delta])
        /\ node = "up" /\ pc[c] = "idle"
        /\ UNCHANGED <<node, now, store, view, sweep>>
  BY <1>1, ClientOpens
<1> DEFINE operation == [key |-> k, entry |-> entry, delta |-> delta]
<1>3. operation \in Operations /\ operation.key = k /\ operation.entry = entry
      /\ operation.delta = delta
  BY DEF Operations
<1>4. Open(c, k, "append", operation) /\ pc[c] \notin OpenSteps
  BY <1>2 DEF OpenSteps
<1> HIDE DEF operation
<1>5. QED
  BY <1>2, <1>3, <1>4, WriterOpen

\* Every step of an open operation keeps one writer per key.
LEMMA WriterWrite ==
  ASSUME TypeOK, TypeOK', WriterInv, NEW p \in Procs, WriteStep(p)
  PROVE  WriterInv'
<1>0. node = "up" /\ sweep.now <= now
  <2>1. pc[p] # "idle"
    BY DEF WriteStep, WalAppend, AppendFails, StorageApply, OperationFails, Schedule,
           CommitAccounting, PublishChange, RotateCheck, FlushStorage, RotateWal
  <2>2. QED
    BY <2>1, BusyUp DEF WriterInv, Verified
<1>1. CASE WalAppend(p) \/ Schedule(p) \/ CommitAccounting(p)
  <2>1. PICK step : pc' = [pc EXCEPT ![p] = step]
                 /\ \/ pc[p] = "append" /\ step = "apply"
                    \/ pc[p] = "schedule" /\ step = "commit"
                    \/ pc[p] = "commit" /\ step = "publish"
    BY <1>1 DEF WalAppend, Schedule, CommitAccounting, Goto
  <2>2. op' = [op EXCEPT ![p] = op[p]]
    BY <1>1 DEF WalAppend, Schedule, CommitAccounting, TypeOK
  <2>3. UNCHANGED <<node, now, store, view, sweep>> /\ ghost'.overlapped = ghost.overlapped
    BY <1>1, AppendGhost DEF WalAppend, Schedule, CommitAccounting
  <2>4. QED
    BY <1>0, <2>1, <2>2, <2>3, WriterMove DEF OpenSteps, LandedSteps, EarlySteps
<1>2. CASE StorageApply(p)
  <2> DEFINE k == op[p].key
  <2>1. /\ pc[p] = "apply" /\ pc' = [pc EXCEPT ![p] = AfterApply(p)]
        /\ AfterApply(p) \in {"schedule", "commit"}
        /\ store' = [store EXCEPT ![k] = op[p].entry]
        /\ UNCHANGED <<node, now, view, op, sweep>>
    BY <1>2 DEF StorageApply, Goto, AfterApply
  <2>2. ghost'.overlapped = ghost.overlapped
    <3>1. ghost' = [ghost EXCEPT !.unsynced = @ \cup {op[p].key}]
      BY <1>2 DEF StorageApply
    <3>2. QED
      BY <3>1 DEF TypeOK, Ghosts
  <2>3. k \in Keys
    BY <2>1, OpTypes
  <2>4. /\ pc'[p] \in {"schedule", "commit"} /\ store'[k] = op[p].entry
        /\ \A q \in Procs \ {p} : pc'[q] = pc[q]
        /\ \A j \in Keys \ {k} : store'[j] = store[j]
    BY <2>1, <2>3 DEF TypeOK
  <2>5. \A q \in Procs \ {p} : pc[q] \in OpenSteps /\ op[q].key = k => k \in ghost.overlapped
    BY <2>1 DEF WriterInv, OneWriter, OpenSteps
  <2>6. \A q \in Procs : pc[q] \in OpenSteps => op[q].key \in Keys
    BY OpTypes DEF OpenSteps
  <2> HIDE DEF k
  <2>7. OneWriter'
    BY <2>1, <2>2, <2>4 DEF WriterInv, OneWriter, OpenSteps
  <2>8. Landed'
    BY <2>1, <2>2, <2>4, <2>5, <2>6 DEF WriterInv, Landed, LandedSteps, OpenSteps, k
  <2>9. Planned'
    BY <2>1, <2>2, <2>4, <2>5, <2>6 DEF WriterInv, Planned, OpenSteps, k
  <2>10. Told'
    BY <2>1, <2>2, <2>4, <2>5 DEF WriterInv, Told, LandedSteps, OpenSteps, k
  <2>11. Verified'
    <3>1. Sweeper \in Procs
      OBVIOUS
    <3>2. QED
      BY <2>1, <2>2, <2>4, <2>5, <2>6, <3>1 DEF WriterInv, Verified, EarlySteps, OpenSteps, k
  <2>12. QED
    BY <1>0, <2>1, <2>7, <2>8, <2>9, <2>10, <2>11 DEF WriterInv, Resting
<1>3. CASE AppendFails(p) \/ OperationFails(p)
  <2>1. /\ pc[p] \in EarlySteps
        /\ pc' = [pc EXCEPT ![p] = IF p = Sweeper THEN "examine" ELSE "idle"]
        /\ op' = [op EXCEPT ![p] = None]
        /\ UNCHANGED <<node, now, store, view, sweep>>
    BY <1>3, FailureFacts DEF EarlySteps
  <2>2. ghost'.overlapped = ghost.overlapped
    BY <1>3, FailureFacts
  <2>3. PICK step : pc' = [pc EXCEPT ![p] = step] /\ step \in {"examine", "idle"}
    BY <2>1
  <2>4. pc[p] \notin LandedSteps /\ step \notin OpenSteps \cup LandedSteps \cup EarlySteps
    BY <2>1, <2>3 DEF OpenSteps, LandedSteps, EarlySteps
  <2>5. QED
    BY <1>0, <2>1, <2>2, <2>3, <2>4, WriterMove
<1>4. CASE PublishChange(p)
  <2> DEFINE k == op[p].key
  <2>1. /\ pc[p] = "publish" /\ pc' = [pc EXCEPT ![p] = "rotate_check"]
        /\ view' = [view EXCEPT ![k] = Payload(op[p].entry)]
        /\ UNCHANGED <<node, now, store, op, sweep, ghost>>
    BY <1>4 DEF PublishChange, Goto
  <2>2. k \in Keys
    BY <2>1, OpTypes
  <2>3. /\ pc'[p] = "rotate_check" /\ view'[k] = Payload(op[p].entry)
        /\ \A q \in Procs \ {p} : pc'[q] = pc[q]
        /\ \A j \in Keys \ {k} : view'[j] = view[j]
    BY <2>1, <2>2 DEF TypeOK
  <2>4. OneWriter' /\ Landed' /\ Planned'
    BY <2>1, <2>3 DEF WriterInv, OneWriter, Landed, Planned, OpenSteps, LandedSteps
  <2>5. Told'
    <3>1. SUFFICES ASSUME NEW j \in Keys \ ghost.overlapped,
                          \A q \in Procs : pc'[q] \in LandedSteps => op[q].key # j
                   PROVE  view'[j] = Payload(store[j])
      BY <2>1 DEF Told
    <3>2. CASE j = k
      BY <2>1, <2>3, <3>1, <3>2 DEF WriterInv, Landed, LandedSteps
    <3>3. CASE j # k
      BY <1>0, <2>1, <2>3, <3>1, <3>3 DEF WriterInv, Told, LandedSteps
    <3>4. QED
      BY <3>2, <3>3
  <2>6. Verified'
    BY <2>1, <2>3 DEF WriterInv, Verified, EarlySteps
  <2>7. QED
    BY <1>0, <2>1, <2>4, <2>5, <2>6 DEF WriterInv, Resting
<1>5. CASE RotateCheck(p) \/ FlushStorage(p) \/ RotateWal(p)
  <2>1. /\ pc[p] \in {"rotate_check", "flush", "rotate"}
        /\ UNCHANGED <<node, now, store, view, sweep>>
    BY <1>5 DEF RotateCheck, FlushStorage, RotateWal
  <2>2. ghost'.overlapped = ghost.overlapped
    <3>1. UNCHANGED ghost \/ ghost' = [ghost EXCEPT !.unsynced = {}]
      BY <1>5 DEF RotateCheck, FlushStorage, RotateWal
    <3>2. QED
      BY <3>1 DEF TypeOK, Ghosts
  <2>3. PICK step, operation : /\ pc' = [pc EXCEPT ![p] = step]
                               /\ op' = [op EXCEPT ![p] = operation]
                               /\ step \in {"idle", "examine", "flush", "rotate"}
    <3>1. CASE Return(p)
      BY <3>1, ReturnFacts
    <3>2. CASE UNCHANGED op /\ (Goto(p, "flush") \/ Goto(p, "rotate"))
      <4>1. op' = [op EXCEPT ![p] = op[p]]
        BY <3>2 DEF TypeOK
      <4>2. QED
        BY <3>2, <4>1 DEF Goto
    <3>3. QED
      BY <1>5, <3>1, <3>2 DEF RotateCheck, FlushStorage, RotateWal
  <2>4. QED
    BY <1>0, <2>1, <2>2, <2>3, WriterMove DEF OpenSteps, LandedSteps, EarlySteps
<1>6. QED
  BY <1>1, <1>2, <1>3, <1>4, <1>5 DEF WriteStep

\* What the sweeper's second reading of storage changes in its operation.
LEMMA EvictPlanned ==
  ASSUME TypeOK, EvictPlan
  PROVE  \E planned \in Operations :
           /\ op' = [op EXCEPT ![Sweeper] = planned]
           /\ planned.key = op[Sweeper].key /\ planned.entry = op[Sweeper].entry
           /\ planned.delta = PlanDeleteAccounting(op[Sweeper].key)
<1>1. /\ pc[Sweeper] = "plan" /\ Sweeper \in Procs
      /\ op' = [op EXCEPT ![Sweeper] =
                  [@ EXCEPT !.delta = PlanDeleteAccounting(op[Sweeper].key)]]
  BY DEF EvictPlan
<1>2. op[Sweeper] \in Operations /\ op[Sweeper].key \in Keys
  BY <1>1, OpTypes
<1> DEFINE delta == PlanDeleteAccounting(op[Sweeper].key)
           planned == [op[Sweeper] EXCEPT !.delta = delta]
<1>3. delta \in Int
  BY <1>2, EntryBytesType DEF PlanDeleteAccounting, TypeOK
<1>4. op' = [op EXCEPT ![Sweeper] = planned]
  BY <1>1
<1> HIDE DEF delta
<1>5. /\ planned \in Operations /\ planned.key = op[Sweeper].key
      /\ planned.entry = op[Sweeper].entry /\ planned.delta = delta
  BY <1>2, <1>3 DEF Operations
<1> HIDE DEF planned
<1>6. QED
  BY <1>4, <1>5 DEF delta

\* The sweeper's own steps keep one writer per key: it opens an eviction only
\* of an entry it has just read and found expired.
LEMMA WriterSweeper ==
  ASSUME TypeOK, TypeOK', WriterInv, SweeperStep
  PROVE  WriterInv'
<1> Sweeper \in Procs /\ sweep \in Sweeps /\ sweep.now <= now /\ now \in Nat
  BY DEF TypeOK, WriterInv, Verified
<1>1. CASE DrainDue
  <2>1. /\ pc[Sweeper] = "idle" /\ pc' = [pc EXCEPT ![Sweeper] = "examine"]
        /\ sweep' = [now |-> now, due |-> {e \in ttl_index : e[1] <= now}]
        /\ UNCHANGED <<node, now, store, view, op, ghost>> /\ ttl_index # {}
    BY <1>1 DEF DrainDue, Goto
  <2>2. node = "up" /\ sweep'.now <= now'
    BY <2>1 DEF WriterInv, Resting
  <2>3. op' = [op EXCEPT ![Sweeper] = op[Sweeper]]
    BY <2>1 DEF TypeOK
  <2>4. QED
    BY <2>1, <2>2, <2>3, WriterMove DEF OpenSteps, LandedSteps, EarlySteps
<1>2. ASSUME NEW e \in sweep.due, Examine(e) \/ ExamineFails(e)
      PROVE  WriterInv'
  <2> DEFINE k == e[2]
             eviction == [key |-> k, entry |-> None, delta |-> 0]
  <2>1. /\ pc[Sweeper] = "examine" /\ sweep' = [sweep EXCEPT !.due = @ \ {e}]
        /\ UNCHANGED <<node, now, store, view>>
    BY <1>2 DEF Examine, ExamineFails
  <2>2. node = "up" /\ k \in Keys /\ sweep'.now = sweep.now
    BY <2>1, BusyUp DEF TypeOK, Sweeps
  <2>3. CASE MustEvict(store[k], sweep.now) /\ Open(Sweeper, k, "plan", eviction)
    <3>1. /\ eviction \in Operations /\ eviction.key = k /\ eviction.entry = None
      BY <2>2 DEF Operations, Slots
    <3>2. pc[Sweeper] \notin OpenSteps
      BY <2>1 DEF OpenSteps
    <3> HIDE DEF eviction, k
    <3>3. QED
      BY <2>1, <2>2, <2>3, <3>1, <3>2, WriterOpen
  <2>4. CASE ghost'.overlapped = ghost.overlapped
             /\ \E step \in {"examine", "reschedule"} : \E operation :
                  pc' = [pc EXCEPT ![Sweeper] = step]
                  /\ op' = [op EXCEPT ![Sweeper] = operation]
    <3>1. PICK step \in {"examine", "reschedule"} : \E operation :
             pc' = [pc EXCEPT ![Sweeper] = step] /\ op' = [op EXCEPT ![Sweeper] = operation]
      BY <2>4
    <3>4. PICK operation :
             pc' = [pc EXCEPT ![Sweeper] = step] /\ op' = [op EXCEPT ![Sweeper] = operation]
      BY <3>1
    <3>2. sweep'.now <= now'
      BY <2>1, <2>2
    <3>3. QED
      BY <2>1, <2>2, <2>4, <3>4, <3>2, WriterMove DEF OpenSteps, LandedSteps, EarlySteps
  <2>5. UNCHANGED <<pc, op>> => \E operation : pc' = [pc EXCEPT ![Sweeper] = "examine"]
                                  /\ op' = [op EXCEPT ![Sweeper] = operation]
    BY <2>1 DEF TypeOK
  <2>6. CASE ExamineFails(e)
    <3>1. ghost' = [ghost EXCEPT !.leaked = @ \cup {e[2]}] /\ UNCHANGED <<pc, op>>
      BY <2>6 DEF ExamineFails
    <3>2. ghost'.overlapped = ghost.overlapped
      BY <3>1 DEF TypeOK, Ghosts
    <3>3. QED
      BY <2>4, <2>5, <3>1, <3>2
  <2>7. CASE Examine(e)
    <3>1. \/ MustEvict(store[k], sweep.now) /\ Open(Sweeper, k, "plan", eviction)
          \/ UNCHANGED <<pc, op, ghost>>
          \/ /\ pc' = [pc EXCEPT ![Sweeper] = "reschedule"] /\ UNCHANGED ghost
             /\ op' = [op EXCEPT ![Sweeper] = [key |-> k, entry |-> store[k], delta |-> 0]]
      BY <2>7 DEF Examine, Goto
    <3> HIDE DEF eviction, k
    <3>2. QED
      BY <2>3, <2>4, <2>5, <3>1
  <2>8. QED
    BY <1>2, <2>6, <2>7
<1>3. CASE Reschedule \/ SweepDone
  <2>1. /\ pc[Sweeper] \in {"reschedule", "examine"}
        /\ UNCHANGED <<node, now, store, view, ghost>>
        /\ sweep' = sweep \/ sweep' = IdleSweep
    BY <1>3 DEF Reschedule, SweepDone
  <2>2. \E step \in {"examine", "idle"} : \E operation :
          pc' = [pc EXCEPT ![Sweeper] = step] /\ op' = [op EXCEPT ![Sweeper] = operation]
    <3>1. CASE Reschedule
      BY <3>1, ReturnFacts DEF Reschedule
    <3>2. CASE SweepDone
      <4>1. op' = [op EXCEPT ![Sweeper] = op[Sweeper]]
        BY <3>2 DEF SweepDone, TypeOK
      <4>2. QED
        BY <3>2, <4>1 DEF SweepDone, Goto
    <3>3. QED
      BY <1>3, <3>1, <3>2
  <2>3. node = "up" /\ sweep'.now <= now'
    BY <2>1, BusyUp DEF IdleSweep
  <2>4. QED
    BY <2>1, <2>2, <2>3, WriterMove DEF OpenSteps, LandedSteps, EarlySteps
<1>4. CASE EvictPlan
  <2>1. PICK planned \in Operations :
          /\ op' = [op EXCEPT ![Sweeper] = planned]
          /\ planned.key = op[Sweeper].key /\ planned.entry = op[Sweeper].entry
          /\ planned.delta = PlanDeleteAccounting(op[Sweeper].key)
    BY <1>4, EvictPlanned
  <2>2. /\ pc[Sweeper] = "plan" /\ pc' = [pc EXCEPT ![Sweeper] = "append"]
        /\ UNCHANGED <<node, now, store, view, sweep, ghost>>
    BY <1>4 DEF EvictPlan, Goto
  <2>3. planned.delta = EntryBytes(planned.entry) - EntryBytes(store[planned.key])
    <3>1. op[Sweeper].entry = None /\ op[Sweeper].key \in Keys
      BY <2>2, OpTypes DEF WriterInv, Verified
    <3>2. EntryBytes(store[op[Sweeper].key]) \in Int
      BY <3>1, EntryBytesType DEF TypeOK
    <3>3. QED
      BY <2>1, <3>1, <3>2 DEF PlanDeleteAccounting, EntryBytes
  <2>4. node = "up"
    BY <2>2, BusyUp
  <2>5. QED
    BY <2>1, <2>2, <2>3, <2>4, WriterMove DEF OpenSteps, LandedSteps, EarlySteps
<1>5. QED
  BY <1>1, <1>2, <1>3, <1>4 DEF SweeperStep

\* A crash ends every operation, and start-up shows watchers what is stored.
LEMMA WriterBoot ==
  ASSUME TypeOK, TypeOK', WriterInv, BootStep \/ Crash \/ Tick
  PROVE  WriterInv'
<1> Sweeper \in Procs /\ now \in Nat
  BY DEF TypeOK
<1>1. CASE OpenStorageAndWal \/ Replay \/ ReplayDone \/ BootFlush \/ BootRotate
  <2>1. node # "up" /\ node' # "up" /\ UNCHANGED <<now, pc, op, sweep, ttl_index>>
    BY <1>1 DEF OpenStorageAndWal, Replay, ReplayDone, BootFlush, BootRotate
  <2>2. \A p \in Procs : pc'[p] = "idle"
    BY <2>1 DEF WriterInv, Resting
  <2>3. QED
    BY <2>1, <2>2 DEF WriterInv, Resting, OneWriter, Landed, Planned, Told, Verified,
                      OpenSteps, LandedSteps, EarlySteps
<1>2. CASE Bootstrap
  <2>1. node # "up" /\ node' = "up" /\ UNCHANGED <<now, pc, op, sweep, store>>
        /\ view' = [k \in Keys |-> Payload(store[k])]
    BY <1>2 DEF Bootstrap
  <2>2. \A p \in Procs : pc'[p] = "idle"
    BY <2>1 DEF WriterInv, Resting
  <2>3. QED
    BY <2>1, <2>2 DEF WriterInv, Resting, OneWriter, Landed, Planned, Told, Verified,
                      OpenSteps, LandedSteps, EarlySteps
<1>3. CASE Crash
  <2>1. node' = "down" /\ ttl_index' = {} /\ sweep'.now = 0 /\ UNCHANGED now
    BY <1>3 DEF Crash, IdleSweep
  <2>2. \A p \in Procs : pc'[p] = "idle"
    BY <1>3 DEF Crash
  <2>3. QED
    BY <2>1, <2>2 DEF WriterInv, Resting, OneWriter, Landed, Planned, Told, Verified,
                      OpenSteps, LandedSteps, EarlySteps
<1>4. CASE Tick
  <2>1. sweep.now \in Nat
    BY DEF TypeOK, Sweeps
  <2>2. QED
    BY <1>4, <2>1 DEF Tick, WriterInv, Resting, OneWriter, Landed, Planned, Told, Verified
<1>5. QED
  BY <1>1, <1>2, <1>3, <1>4 DEF BootStep

LEMMA WriterInvNext ==
  ASSUME TypeOK, WriterInv, [Next]_vars
  PROVE  WriterInv'
<1>1. TypeOK'
  BY TypeNext
<1>2. CASE Next
  BY <1>1, <1>2, WriterClient, WriterWrite, WriterSweeper, WriterBoot DEF Next
<1>3. CASE UNCHANGED vars
  BY <1>3 DEF vars, WriterInv, Resting, OneWriter, Landed, Planned, Told, Verified
<1>4. QED
  BY <1>2, <1>3

\* Initially nothing runs and nothing is stored.
LEMMA WriterInit == Init => WriterInv
BY DEF Init, WriterInv, Resting, OneWriter, Landed, Planned, Told, Verified, OpenSteps,
       LandedSteps, EarlySteps, IdleSweep

\* On every node, at any time, one operation per key but for the keys recorded
\* as overlapped.
LEMMA WriterAlways == Spec => [](TypeOK /\ WriterInv)
<1>1. Init => TypeOK /\ WriterInv
  BY TypeInit, WriterInit
<1>2. TypeOK /\ WriterInv /\ [Next]_vars => (TypeOK /\ WriterInv)'
  BY TypeNext, WriterInvNext
<1>3. QED
  BY <1>1, <1>2, PTL DEF Spec

\* Watchers and storage tell the same story: with no operation open on a key,
\* the last event about it (put, delete or eviction) is what storage holds,
\* unless two operations on the key overlapped.
THEOREM WatchersAgree == Spec => []WatcherAgrees
<1>1. TypeOK /\ WriterInv => WatcherAgrees
  <2>1. SUFFICES ASSUME TypeOK, WriterInv, node = "up",
                        NEW k \in Keys \ (OpenKeys \cup ghost.overlapped)
                 PROVE  view[k] = Payload(store[k])
    BY DEF WatcherAgrees
  <2>2. \A p \in Procs : pc[p] \in LandedSteps => op[p].key # k
    BY <2>1 DEF OpenKeys, IsOpen, OpenSteps, LandedSteps
  <2>3. QED
    BY <2>1, <2>2 DEF WriterInv, Told
<1>2. QED
  BY <1>1, WriterAlways, PTL

\* The sweeper removes an entry only when the clock has passed its expiration,
\* however long ago it looked, unless another operation on the key overlapped.
THEOREM EvictionsExpired == Spec => EvictsOnlyExpired
<1>1. TypeOK /\ WriterInv /\ [Next]_vars =>
        [\A k \in Keys : Evicts(k) /\ k \notin ghost.overlapped
                           => IsExpired(store[k], now)]_vars
  <2>1. SUFFICES ASSUME TypeOK, WriterInv, NEW k \in Keys, Evicts(k), k \notin ghost.overlapped
                 PROVE  IsExpired(store[k], now)
    OBVIOUS
  <2>2. MustEvict(store[k], sweep.now) /\ sweep.now <= now
    BY <2>1 DEF WriterInv, Verified, Evicts, EarlySteps
  <2>3. store[k] \in Entries /\ sweep.now \in Nat /\ now \in Nat
    BY <2>1 DEF TypeOK, Sweeps, Slots, Evicts
  <2>4. store[k].exp \in Nat
    BY <2>3 DEF Entries
  <2>5. QED
    BY <2>2, <2>3, <2>4 DEF MustEvict, IsExpired
<1>2. QED
  BY <1>1, WriterAlways, PTL DEF Spec, EvictsOnlyExpired

-----------------------------------------------------------------------------
(* The usage counter: UsageConserved *)

\* The steps at which storage has changed and the counter has not.
Owing == {"schedule", "commit"}

\* The counter, seen as a sum over keys: what is stored, but for the writes
\* that landed and are not accounted for.
Ledger(counted) ==
  /\ counted \in [Keys -> Nat]
  /\ used = SumFunction(counted)
  /\ \A k \in Keys : (\A p \in Procs : pc[p] \in Owing => op[p].key # k)
                       => counted[k] = EntryBytes(store[k])
  /\ \A p \in Procs : pc[p] \in Owing =>
       counted[op[p].key] = EntryBytes(store[op[p].key]) - op[p].delta

\* The sum over processes is the property; the ledger shows that the counter
\* never has to stop at zero (fetch_update saturates there).
Books ==
  /\ \E counted : Ledger(counted)
  /\ used + SumFunction(Uncommitted) = StoredBytes(store)

BooksInv == node = "up" /\ ghost.overlapped = {} => Books

\* What an entry counts for is never negative.
LEMMA EntryBytesNat ==
  ASSUME NEW slot \in Slots
  PROVE  EntryBytes(slot) \in Nat
<1>1. CASE slot = None
  BY <1>1 DEF EntryBytes
<1>2. CASE slot \in Entries
  <2>1. slot.val \in Nat
    BY <1>2, ConstantsAssumption DEF ConstantsAssumption, Entries
  <2>2. QED
    BY <2>1 DEF EntryBytes, KeyLen
<1>3. QED
  BY <1>1, <1>2 DEF Slots

\* The data of a store, key by key.
LEMMA SizesType ==
  ASSUME NEW map \in [Keys -> Slots]
  PROVE  /\ [k \in Keys |-> EntryBytes(map[k])] \in [Keys -> Nat]
         /\ StoredBytes(map) \in Nat
<1>1. [k \in Keys |-> EntryBytes(map[k])] \in [Keys -> Nat]
  BY EntryBytesNat
<1> DEFINE f == [k \in Keys |-> EntryBytes(map[k])]
<1>2. IsFiniteSet(Keys) /\ f \in [Keys -> Nat]
  BY <1>1, ConstantsAssumption DEF ConstantsAssumption
<1> HIDE DEF f
<1>3. SumFunction(f) \in Nat
  BY <1>2, SumNatural
<1>4. QED
  BY <1>1, <1>3 DEF StoredBytes, f

\* A write changes the size of the data by what it changes at its key.
LEMMA StoreOne ==
  ASSUME NEW old \in [Keys -> Slots], NEW new \in [Keys -> Slots], NEW k \in Keys,
         \A j \in Keys \ {k} : new[j] = old[j]
  PROVE  StoredBytes(new) = StoredBytes(old) + EntryBytes(new[k]) - EntryBytes(old[k])
<1> DEFINE f == [j \in Keys |-> EntryBytes(old[j])]
           g == [j \in Keys |-> EntryBytes(new[j])]
<1>1. f \in [Keys -> Int] /\ g \in [Keys -> Int]
  BY EntryBytesType
<1>2. \A j \in Keys \ {k} : f[j] = g[j]
  OBVIOUS
<1>3. IsFiniteSet(Keys)
  BY ConstantsAssumption DEF ConstantsAssumption
<1>4. f[k] = EntryBytes(old[k]) /\ g[k] = EntryBytes(new[k])
  OBVIOUS
<1>5. StoredBytes(new) = SumFunction(g) /\ StoredBytes(old) = SumFunction(f)
  BY DEF StoredBytes
<1> HIDE DEF f, g
<1>6. SumFunction(g) = SumFunction(f) + g[k] - f[k]
  BY <1>1, <1>2, <1>3, SumPoint
<1>7. QED
  BY <1>4, <1>5, <1>6

\* The processes are finitely many and each owes a number.
LEMMA UncommittedType ==
  ASSUME TypeOK
  PROVE  /\ IsFiniteSet(Procs) /\ Uncommitted \in [Procs -> Int]
         /\ SumFunction(Uncommitted) \in Int
<1>1. IsFiniteSet(Procs)
  BY ConstantsAssumption, FS_Singleton, FS_Union DEF ConstantsAssumption
<1>2. Uncommitted \in [Procs -> Int]
  <2>1. \A p \in Procs : pc[p] \in {"schedule", "commit"} => op[p].delta \in Int
    BY OpTypes
  <2>2. QED
    BY <2>1 DEF Uncommitted
<1>3. QED
  BY <1>1, <1>2, SumType

\* What one process owes changes.
LEMMA OweOne ==
  ASSUME TypeOK, TypeOK', NEW p \in Procs,
         \A q \in Procs \ {p} : pc'[q] = pc[q] /\ op'[q] = op[q]
  PROVE  SumFunction(Uncommitted)'
           = SumFunction(Uncommitted) + Uncommitted'[p] - Uncommitted[p]
<1>1. IsFiniteSet(Procs) /\ Uncommitted \in [Procs -> Int]
  BY UncommittedType
<1>2. Uncommitted' \in [Procs -> Int]
  <2>1. \A q \in Procs : pc'[q] \in {"schedule", "commit"} => op'[q].delta \in Int
    BY DEF TypeOK, Operations
  <2>2. QED
    BY <2>1 DEF Uncommitted
<1>3. \A q \in Procs \ {p} : Uncommitted[q] = Uncommitted'[q]
  BY DEF Uncommitted
<1>4. QED
  BY <1>1, <1>2, <1>3, SumPoint

\* Steps that neither land nor account for a write.
LEMMA BooksFrame ==
  ASSUME TypeOK, TypeOK', Books, UNCHANGED <<store, used>>, NEW p \in Procs,
         \A q \in Procs \ {p} : pc'[q] = pc[q] /\ op'[q] = op[q],
         pc[p] \in Owing <=> pc'[p] \in Owing,
         pc[p] \in Owing => op'[p] = op[p]
  PROVE  Books'
<1>1. PICK counted : Ledger(counted)
  BY DEF Books
<1>2. \A q \in Procs : /\ pc[q] \in Owing <=> pc'[q] \in Owing
                       /\ pc[q] \in Owing => op'[q] = op[q]
  OBVIOUS
<1>3. Ledger(counted)'
  BY <1>1, <1>2 DEF Ledger
<1>4. Uncommitted' = Uncommitted
  BY <1>2 DEF Uncommitted, Owing
<1>5. QED
  BY <1>3, <1>4 DEF Books

\* A write lands: the process now owes what it planned.
LEMMA BooksApply ==
  ASSUME TypeOK, TypeOK', WriterInv, Books, ghost.overlapped = {}, NEW p \in Procs,
         StorageApply(p)
  PROVE  Books'
<1> DEFINE k == op[p].key
           delta == op[p].delta
<1>1. /\ pc[p] = "apply" /\ pc' = [pc EXCEPT ![p] = AfterApply(p)]
      /\ AfterApply(p) \in Owing
      /\ store' = [store EXCEPT ![k] = op[p].entry]
      /\ UNCHANGED <<op, used>>
  BY DEF StorageApply, Goto, AfterApply, Owing
<1>2. k \in Keys /\ delta \in Int /\ op[p].entry \in Slots
  BY <1>1, OpTypes
<1>3. /\ pc'[p] \in Owing /\ store'[k] = op[p].entry
      /\ \A q \in Procs \ {p} : pc'[q] = pc[q]
      /\ \A j \in Keys \ {k} : store'[j] = store[j]
  BY <1>1, <1>2 DEF TypeOK
<1>4. delta = EntryBytes(store'[k]) - EntryBytes(store[k])
      /\ EntryBytes(store'[k]) \in Nat /\ EntryBytes(store[k]) \in Nat
  <2>1. store[k] \in Slots
    BY <1>2 DEF TypeOK
  <2>2. QED
    BY <1>1, <1>2, <1>3, <2>1, EntryBytesNat DEF WriterInv, Planned
<1>5. \A q \in Procs \ {p} : pc[q] \in Owing => op[q].key # k /\ op[q].key \in Keys
  <2>1. \A q \in Procs \ {p} : pc[q] \in Owing => op[q].key # k
    BY <1>1 DEF WriterInv, OneWriter, OpenSteps, Owing
  <2>2. \A q \in Procs : pc[q] \in Owing => op[q].key \in Keys
    BY OpTypes DEF Owing
  <2>3. QED
    BY <2>1, <2>2
<1>6. PICK counted : Ledger(counted)
  BY DEF Books
<1>7. counted[k] = EntryBytes(store[k])
  <2>1. pc[p] \notin Owing
    BY <1>1 DEF Owing
  <2>2. QED
    BY <1>2, <1>5, <1>6, <2>1 DEF Ledger
<1> HIDE DEF k, delta
<1>8. ASSUME NEW q \in Procs, pc'[q] \in Owing
      PROVE  counted[op[q].key] = EntryBytes(store'[op[q].key]) - op[q].delta
  <2>1. CASE q = p
    BY <1>4, <1>7, <2>1 DEF k, delta
  <2>2. CASE q # p
    BY <1>3, <1>5, <1>6, <1>8, <2>2 DEF Ledger
  <2>3. QED
    BY <2>1, <2>2
<1>9. ASSUME NEW j \in Keys, \A q \in Procs : pc'[q] \in Owing => op[q].key # j
      PROVE  counted[j] = EntryBytes(store'[j])
  <2>1. j # k
    BY <1>3, <1>9 DEF k
  <2>2. \A q \in Procs : pc[q] \in Owing => op[q].key # j
    BY <1>1, <1>3, <1>9 DEF Owing
  <2>3. QED
    BY <1>3, <1>6, <2>1, <2>2 DEF Ledger
<1>10. Ledger(counted)'
  BY <1>1, <1>6, <1>8, <1>9 DEF Ledger
<1>11. (used + SumFunction(Uncommitted) = StoredBytes(store))'
  <2>1. StoredBytes(store') = StoredBytes(store) + delta /\ StoredBytes(store) \in Nat
    <3>1. store \in [Keys -> Slots] /\ store' \in [Keys -> Slots]
      BY DEF TypeOK
    <3>2. StoredBytes(store') = StoredBytes(store) + EntryBytes(store'[k]) - EntryBytes(store[k])
      BY <1>2, <1>3, <3>1, StoreOne
    <3>3. StoredBytes(store) \in Nat
      BY <3>1, SizesType
    <3>4. QED
      BY <1>4, <3>2, <3>3
  <2>2. Uncommitted[p] = 0 /\ Uncommitted'[p] = delta
    BY <1>1, <1>3 DEF Uncommitted, Owing, delta
  <2>3. /\ SumFunction(Uncommitted)' = SumFunction(Uncommitted) + Uncommitted'[p] - Uncommitted[p]
        /\ SumFunction(Uncommitted) \in Int
    BY <1>1, <1>3, OweOne, UncommittedType
  <2>4. used \in Nat
    BY <1>6, SumNatural, ConstantsAssumption DEF Ledger, ConstantsAssumption
  <2>5. used + SumFunction(Uncommitted) = StoredBytes(store) /\ used' = used
    BY <1>1 DEF Books
  <2>6. used' + SumFunction(Uncommitted)' = StoredBytes(store')
    BY <1>2, <2>1, <2>2, <2>3, <2>4, <2>5
  <2>7. QED
    BY <2>6
<1>12. QED
  BY <1>10, <1>11 DEF Books

\* A write is accounted for, by exactly what it changed: the counter does not
\* stop at zero.
LEMMA BooksCommit ==
  ASSUME TypeOK, TypeOK', WriterInv, Books, ghost.overlapped = {}, NEW p \in Procs,
         CommitAccounting(p)
  PROVE  Books' /\ used' = used + op[p].delta
<1> DEFINE k == op[p].key
           delta == op[p].delta
<1>1. /\ pc[p] = "commit" /\ pc' = [pc EXCEPT ![p] = "publish"]
      /\ used' = Adjust(delta) /\ UNCHANGED <<op, store>>
  BY DEF CommitAccounting, Goto
<1>2. k \in Keys /\ delta \in Int /\ EntryBytes(store[k]) \in Nat
  <2>1. k \in Keys /\ delta \in Int
    BY <1>1, OpTypes
  <2>2. QED
    BY <2>1, EntryBytesNat DEF TypeOK
<1>3. pc'[p] = "publish" /\ \A q \in Procs \ {p} : pc'[q] = pc[q]
  BY <1>1 DEF TypeOK
<1>4. \A q \in Procs \ {p} : pc[q] \in Owing => op[q].key # k /\ op[q].key \in Keys
  <2>1. \A q \in Procs \ {p} : pc[q] \in Owing => op[q].key # k
    BY <1>1 DEF WriterInv, OneWriter, OpenSteps, Owing
  <2>2. \A q \in Procs : pc[q] \in Owing => op[q].key \in Keys
    BY OpTypes DEF Owing
  <2>3. QED
    BY <2>1, <2>2
<1>5. PICK counted : Ledger(counted)
  BY DEF Books
<1>6. counted[k] = EntryBytes(store[k]) - delta /\ pc[p] \in Owing
  BY <1>1, <1>5 DEF Ledger, Owing
<1> HIDE DEF k, delta
<1>7. PICK next : next = [counted EXCEPT ![k] = EntryBytes(store[k])]
  OBVIOUS
<1>8. /\ next \in [Keys -> Nat] /\ next[k] = EntryBytes(store[k])
      /\ \A j \in Keys \ {k} : next[j] = counted[j]
  BY <1>2, <1>5, <1>7 DEF Ledger
<1>9. used + delta = SumFunction(next) /\ SumFunction(next) \in Nat /\ used \in Nat
  <2>1. IsFiniteSet(Keys) /\ counted \in [Keys -> Nat]
    BY <1>5, ConstantsAssumption DEF ConstantsAssumption, Ledger
  <2>2. SumFunction(next) = SumFunction(counted) + next[k] - counted[k]
    <3>1. counted \in [Keys -> Int] /\ next \in [Keys -> Int]
      BY <1>8, <2>1
    <3>2. \A j \in Keys \ {k} : counted[j] = next[j]
      BY <1>8
    <3>3. QED
      BY <1>2, <2>1, <3>1, <3>2, SumPoint
  <2>3. SumFunction(next) \in Nat /\ SumFunction(counted) \in Nat
    BY <1>8, <2>1, SumNatural
  <2>4. used = SumFunction(counted)
    BY <1>5 DEF Ledger
  <2>5. QED
    BY <1>2, <1>6, <1>8, <2>2, <2>3, <2>4
<1>10. used' = used + delta
  <2>1. ~(used + delta < 0)
    BY <1>9
  <2>2. QED
    BY <1>1, <2>1 DEF Adjust
<1>11. Ledger(next)'
  <2>1. ASSUME NEW q \in Procs, pc'[q] \in Owing
        PROVE  next[op[q].key] = EntryBytes(store[op[q].key]) - op[q].delta
    <3>1. q # p
      BY <1>3, <2>1 DEF Owing
    <3>2. QED
      BY <1>3, <1>4, <1>5, <1>8, <2>1, <3>1 DEF Ledger
  <2>2. ASSUME NEW j \in Keys, \A q \in Procs : pc'[q] \in Owing => op[q].key # j
        PROVE  next[j] = EntryBytes(store[j])
    <3>1. CASE j = k
      BY <1>8, <3>1
    <3>2. CASE j # k
      <4>1. \A q \in Procs : pc[q] \in Owing => op[q].key # j
        BY <1>3, <2>2, <3>2 DEF k
      <4>2. QED
        BY <1>5, <1>8, <3>2, <4>1 DEF Ledger
    <3>3. QED
      BY <3>1, <3>2
  <2>3. QED
    BY <1>1, <1>8, <1>9, <1>10, <2>1, <2>2 DEF Ledger
<1>12. used' + SumFunction(Uncommitted)' = StoredBytes(store)
  <2>1. Uncommitted[p] = delta /\ Uncommitted'[p] = 0
    BY <1>1, <1>3 DEF Uncommitted, delta
  <2>2. /\ SumFunction(Uncommitted)' = SumFunction(Uncommitted) + Uncommitted'[p] - Uncommitted[p]
        /\ SumFunction(Uncommitted) \in Int
    BY <1>1, <1>3, OweOne, UncommittedType
  <2>3. used + SumFunction(Uncommitted) = StoredBytes(store)
    BY DEF Books
  <2>4. QED
    BY <1>2, <1>9, <1>10, <2>1, <2>2, <2>3
<1>13. (used + SumFunction(Uncommitted) = StoredBytes(store))'
  BY <1>1, <1>12
<1>14. QED
  BY <1>10, <1>11, <1>13 DEF Books, delta

\* Start-up counts what is stored.
LEMMA BooksBootstrap ==
  ASSUME TypeOK, TypeOK', WriterInv, Bootstrap
  PROVE  Books'
<1>1. /\ used' = StoredBytes(store) /\ UNCHANGED <<store, pc, op>> /\ node # "up"
  BY DEF Bootstrap
<1>2. \A p \in Procs : pc'[p] = "idle"
  BY <1>1 DEF WriterInv, Resting
<1>3. PICK counted : counted = [k \in Keys |-> EntryBytes(store[k])]
  OBVIOUS
<1>4. Ledger(counted)'
  <2>1. counted \in [Keys -> Nat]
    BY <1>3, SizesType DEF TypeOK
  <2>2. used' = SumFunction(counted)
    BY <1>1, <1>3 DEF StoredBytes
  <2>3. QED
    BY <1>1, <1>2, <1>3, <2>1, <2>2 DEF Ledger, Owing
<1>5. SumFunction(Uncommitted)' = 0
  <2>1. \A p \in Procs : Uncommitted'[p] = 0
    BY <1>2 DEF Uncommitted
  <2>2. IsFiniteSet(Procs) /\ Uncommitted' \in [Procs -> Int]
    BY <1>2, UncommittedType DEF Uncommitted
  <2>3. QED
    BY <2>1, <2>2, SumZero
<1>6. (used + SumFunction(Uncommitted) = StoredBytes(store))'
  <2>1. StoredBytes(store) \in Nat
    BY SizesType DEF TypeOK
  <2>2. QED
    BY <1>1, <1>5, <2>1
<1>7. QED
  BY <1>4, <1>6 DEF Books

\* Every other step moves one process and leaves what it owes alone.
Quiet(p) ==
  /\ UNCHANGED <<node, store, used>>
  /\ ghost.overlapped \subseteq ghost'.overlapped
  /\ \A q \in Procs \ {p} : pc'[q] = pc[q] /\ op'[q] = op[q]
  /\ pc[p] \in Owing <=> pc'[p] \in Owing
  /\ pc[p] \in Owing => op'[p] = op[p]

LEMMA QuietClient ==
  ASSUME TypeOK, NEW c \in Clients, ClientStep(c)
  PROVE  Quiet(c)
<1>1. PICK k \in Keys : PutPlan(c, k) \/ DeletePlan(c, k)
  BY DEF ClientStep
<1>2. PICK entry \in Slots, delta \in Int :
        /\ Open(c, k, "append", [key |-> k, entry |-> entry, delta |-> delta])
        /\ pc[c] = "idle" /\ UNCHANGED <<node, store, used>>
  BY <1>1, ClientOpens
<1> DEFINE operation == [key |-> k, entry |-> entry, delta |-> delta]
<1>3. Open(c, k, "append", operation) /\ c \in Procs
  BY <1>2
<1> HIDE DEF operation
<1>4. /\ pc' = [pc EXCEPT ![c] = "append"] /\ op' = [op EXCEPT ![c] = operation]
      /\ ghost.overlapped \subseteq ghost'.overlapped
  BY <1>3, OpenFacts, OpenGhost
<1>5. QED
  BY <1>2, <1>3, <1>4 DEF Quiet, Owing, TypeOK

LEMMA QuietWrite ==
  ASSUME TypeOK, NEW p \in Procs, WriteStep(p), ~StorageApply(p), ~CommitAccounting(p)
  PROVE  Quiet(p)
<1>1. CASE WalAppend(p) \/ Schedule(p) \/ PublishChange(p)
  <2>1. ghost.overlapped \subseteq ghost'.overlapped
    BY <1>1, AppendGhost DEF Schedule, PublishChange
  <2>2. QED
    BY <1>1, <2>1 DEF WalAppend, Schedule, PublishChange, Goto, Quiet, Owing, TypeOK
<1>2. CASE AppendFails(p) \/ OperationFails(p)
  <2>1. /\ pc[p] \in {"plan", "append", "apply"}
        /\ pc' = [pc EXCEPT ![p] = IF p = Sweeper THEN "examine" ELSE "idle"]
        /\ op' = [op EXCEPT ![p] = None]
        /\ UNCHANGED <<node, store, used>>
    BY <1>2, FailureFacts
  <2>2. ghost'.overlapped = ghost.overlapped
    BY <1>2, FailureFacts
  <2>3. pc'[p] \in {"examine", "idle"} /\ \A q \in Procs \ {p} : pc'[q] = pc[q] /\ op'[q] = op[q]
    BY <2>1 DEF TypeOK
  <2>4. QED
    BY <2>1, <2>2, <2>3 DEF Quiet, Owing
<1>3. CASE RotateCheck(p) \/ FlushStorage(p) \/ RotateWal(p)
  <2>1. /\ pc[p] \in {"rotate_check", "flush", "rotate"}
        /\ UNCHANGED <<node, store, used>>
    BY <1>3 DEF RotateCheck, FlushStorage, RotateWal
  <2>2. ghost'.overlapped = ghost.overlapped
    <3>1. UNCHANGED ghost \/ ghost' = [ghost EXCEPT !.unsynced = {}]
      BY <1>3 DEF RotateCheck, FlushStorage, RotateWal
    <3>2. QED
      BY <3>1 DEF TypeOK, Ghosts
  <2>3. /\ pc'[p] \in {"idle", "examine", "flush", "rotate"}
        /\ \A q \in Procs \ {p} : pc'[q] = pc[q] /\ op'[q] = op[q]
    BY <1>3, ReturnFacts DEF RotateCheck, FlushStorage, RotateWal, Goto, TypeOK
  <2>4. QED
    BY <2>1, <2>2, <2>3 DEF Quiet, Owing
<1>4. QED
  BY <1>1, <1>2, <1>3 DEF WriteStep

LEMMA QuietSweeper ==
  ASSUME TypeOK, SweeperStep
  PROVE  Quiet(Sweeper)
<1> Sweeper \in Procs
  OBVIOUS
<1>1. CASE DrainDue \/ SweepDone
  BY <1>1 DEF DrainDue, SweepDone, Goto, Quiet, Owing, TypeOK
<1>2. CASE Reschedule
  BY <1>2, ReturnFacts DEF Reschedule, Quiet, Owing, TypeOK
<1>3. CASE EvictPlan
  <2>1. PICK planned : op' = [op EXCEPT ![Sweeper] = planned]
    BY <1>3, EvictPlanned
  <2>2. QED
    BY <1>3, <2>1 DEF EvictPlan, Goto, Quiet, Owing, TypeOK
<1>4. ASSUME NEW e \in sweep.due, ExamineFails(e)
      PROVE  Quiet(Sweeper)
  <2>1. /\ ghost' = [ghost EXCEPT !.leaked = @ \cup {e[2]}]
        /\ UNCHANGED <<node, store, used, pc, op>> /\ pc[Sweeper] = "examine"
    BY <1>4 DEF ExamineFails
  <2>2. ghost'.overlapped = ghost.overlapped
    BY <2>1 DEF TypeOK, Ghosts
  <2>3. QED
    BY <2>1, <2>2 DEF Quiet
<1>5. ASSUME NEW e \in sweep.due, Examine(e)
      PROVE  Quiet(Sweeper)
  <2> DEFINE k == e[2]
             eviction == [key |-> k, entry |-> None, delta |-> 0]
  <2>1. pc[Sweeper] = "examine" /\ UNCHANGED <<node, store, used>> /\ k \in Keys
    BY <1>5 DEF Examine, TypeOK, Sweeps
  <2>2. \/ Open(Sweeper, k, "plan", eviction)
        \/ UNCHANGED <<pc, op, ghost>>
        \/ /\ pc' = [pc EXCEPT ![Sweeper] = "reschedule"] /\ UNCHANGED ghost
           /\ op' = [op EXCEPT ![Sweeper] = [key |-> k, entry |-> store[k], delta |-> 0]]
    BY <1>5 DEF Examine, Goto
  <2> HIDE DEF eviction, k
  <2>3. CASE Open(Sweeper, k, "plan", eviction)
    <3>1. /\ pc' = [pc EXCEPT ![Sweeper] = "plan"] /\ op' = [op EXCEPT ![Sweeper] = eviction]
          /\ ghost.overlapped \subseteq ghost'.overlapped
      BY <2>1, <2>3, OpenFacts, OpenGhost
    <3>2. QED
      BY <2>1, <3>1 DEF Quiet, Owing, TypeOK
  <2>4. QED
    BY <2>1, <2>2, <2>3 DEF Quiet, Owing, TypeOK
<1>6. QED
  BY <1>1, <1>2, <1>3, <1>4, <1>5 DEF SweeperStep

LEMMA BooksNext ==
  ASSUME TypeOK, TypeOK', WriterInv, BooksInv, [Next]_vars
  PROVE  BooksInv'
<1>1. ASSUME NEW p \in Procs, Quiet(p)
      PROVE  BooksInv'
  <2>1. SUFFICES ASSUME node' = "up", ghost'.overlapped = {}
                 PROVE  Books'
    BY DEF BooksInv
  <2>2. Books
    BY <1>1, <2>1 DEF Quiet, BooksInv
  <2>3. QED
    BY <1>1, <2>2, BooksFrame DEF Quiet
<1>2. ASSUME NEW p \in Procs, StorageApply(p)
      PROVE  BooksInv'
  <2>1. ghost'.overlapped = ghost.overlapped
    <3>1. ghost' = [ghost EXCEPT !.unsynced = @ \cup {op[p].key}]
      BY <1>2 DEF StorageApply
    <3>2. QED
      BY <3>1 DEF TypeOK, Ghosts
  <2>2. UNCHANGED node
    BY <1>2 DEF StorageApply
  <2>3. QED
    BY <1>2, <2>1, <2>2, BooksApply DEF BooksInv
<1>3. ASSUME NEW p \in Procs, CommitAccounting(p)
      PROVE  BooksInv'
  <2>1. UNCHANGED <<node, ghost>>
    BY <1>3 DEF CommitAccounting
  <2>2. QED
    BY <1>3, <2>1, BooksCommit DEF BooksInv
<1>4. CASE Bootstrap
  BY <1>4, BooksBootstrap DEF BooksInv
<1>5. CASE OpenStorageAndWal \/ Replay \/ ReplayDone \/ BootFlush \/ BootRotate \/ Crash
  <2>1. node' # "up"
    BY <1>5 DEF OpenStorageAndWal, Replay, ReplayDone, BootFlush, BootRotate, Crash
  <2>2. QED
    BY <2>1 DEF BooksInv
<1>6. CASE Tick \/ UNCHANGED vars
  <2>1. UNCHANGED <<node, store, used, pc, op, ghost>>
    BY <1>6 DEF Tick, vars
  <2>2. Sweeper \in Procs /\ Quiet(Sweeper)
    BY <2>1 DEF Quiet
  <2>3. QED
    BY <1>1, <2>2
<1>7. QED
  <2>1. ASSUME NEW c \in Clients, ClientStep(c)
        PROVE  BooksInv'
    <3>1. c \in Procs /\ Quiet(c)
      BY <2>1, QuietClient
    <3>2. QED
      BY <1>1, <3>1
  <2>2. ASSUME NEW p \in Procs, WriteStep(p)
        PROVE  BooksInv'
    BY <1>1, <1>2, <1>3, <2>2, QuietWrite
  <2>3. ASSUME SweeperStep
        PROVE  BooksInv'
    <3>1. Sweeper \in Procs /\ Quiet(Sweeper)
      BY <2>3, QuietSweeper
    <3>2. QED
      BY <1>1, <3>1
  <2>4. QED
    BY <1>4, <1>5, <1>6, <2>1, <2>2, <2>3 DEF Next, BootStep

\* As long as no two operations on one key overlapped, the usage counter is
\* exact: it differs from the size of the data only by the operations between
\* their storage call and their commit_accounting, and it never loses a byte at
\* the zero where it saturates.
THEOREM UsageExact == Spec => []UsageConserved
<1>1. Init => BooksInv
  BY DEF Init, BooksInv
<1>2. TypeOK /\ TypeOK' /\ WriterInv /\ BooksInv /\ [Next]_vars => BooksInv'
  BY BooksNext
<1>3. BooksInv => UsageConserved
  BY DEF BooksInv, Books, UsageConserved
<1>4. QED
  BY <1>1, <1>2, <1>3, WriterAlways, PTL DEF Spec

-----------------------------------------------------------------------------
(* The log and storage: ImplementsKvStore *)

\* Of the first n records, one is about k; the last one about k holds slot.
Recorded(k, n) == \E i \in 1..n : wal[i].key = k
LastIs(k, n, slot) ==
  \A i \in 1..n : wal[i].key = k /\ (\A j \in i+1..n : wal[j].key # k)
                    => wal[i].entry = slot

\* Replaying the log over storage, or over nothing, leaves k as slot.
Tells(k, slot) ==
  /\ LastIs(k, Len(wal), slot)
  /\ IsDurable \/ Recorded(k, Len(wal)) \/ slot = None

\* While the node is up the log tells of every key what storage holds, or what
\* the one operation that has appended is about to write.
LogUp ==
  node = "up" =>
    \A k \in Keys \ (ghost.overlapped \cup ghost.halfway) :
      /\ (\A p \in Procs : pc[p] = "apply" => op[p].key # k) => Tells(k, store[k])
      /\ \A p \in Procs : pc[p] = "apply" /\ op[p].key = k => Tells(k, op[p].entry)

\* While it is not, storage is the log as far as it was replayed, and the rest
\* of the log still tells what clients were served.
LogDown ==
  node # "up" =>
    /\ replayed \in 0..Len(wal)
    /\ node \in {"boot_flush", "boot_rotate", "bootstrap"} => replayed = Len(wal)
    /\ node \in {"boot_flush", "boot_rotate"} => IsDurable
    /\ \A k \in Keys : /\ LastIs(k, replayed, store[k])
                       /\ IsDurable \/ Recorded(k, replayed) \/ store[k] = None
    /\ \A k \in Keys \ ghost.unsure :
         /\ LastIs(k, Len(wal), ghost.live[k])
         /\ Recorded(k, Len(wal)) \/ store[k] = ghost.live[k]

\* Only the log of a durable backend is ever rotated.
RotatesDurable == \A p \in Procs : pc[p] \in {"flush", "rotate"} => IsDurable

LogInv == LogUp /\ LogDown /\ RotatesDurable

\* A key the log has a record of has a last one.
LEMMA LastRecord ==
  ASSUME NEW k, NEW n \in Nat, Recorded(k, n)
  PROVE  \E i \in 1..n : wal[i].key = k /\ \A j \in i+1..n : wal[j].key # k
<1> DEFINE S == {m \in 0..n : \A j \in m+1..n : wal[j].key # k}
<1>1. S \in SUBSET Nat /\ n \in S
  OBVIOUS
<1>2. PICK m \in S : \A i \in S : m <= i
  <2> HIDE DEF S
  <2> QED BY <1>1, LeastNumber
<1>3. m # 0
  BY DEF Recorded
<1>4. m - 1 \notin S /\ m \in 1..n
  BY <1>2, <1>3
<1>5. wal[m].key = k
  <2>1. PICK j \in m..n : wal[j].key = k
    BY <1>4
  <2>2. QED
    BY <1>4, <2>1
<1>6. QED
  BY <1>4, <1>5

\* Appending a record about another key changes nothing for k.
LEMMA AppendOther ==
  ASSUME NEW record \in Records, wal \in Seq(Records), wal' = Append(wal, record),
         UNCHANGED backend, NEW k \in Keys, record.key # k, NEW slot, Tells(k, slot)
  PROVE  Tells(k, slot)'
<1>1. /\ Len(wal') = Len(wal) + 1 /\ wal'[Len(wal) + 1] = record /\ Len(wal) \in Nat
      /\ \A i \in 1..Len(wal) : wal'[i] = wal[i]
  BY AppendProperties, LenProperties
<1>2. LastIs(k, Len(wal), slot)'
  BY <1>1 DEF Tells, LastIs
<1>3. Recorded(k, Len(wal)) => Recorded(k, Len(wal))'
  BY <1>1 DEF Recorded
<1>4. QED
  BY <1>2, <1>3 DEF Tells, IsDurable

\* The record just appended is the last one about its key.
LEMMA AppendOwn ==
  ASSUME NEW record \in Records, wal \in Seq(Records), wal' = Append(wal, record)
  PROVE  Tells(record.key, record.entry)'
<1>1. /\ Len(wal') = Len(wal) + 1 /\ wal'[Len(wal) + 1] = record /\ Len(wal) \in Nat
  BY AppendProperties, LenProperties
<1>2. LastIs(record.key, Len(wal), record.entry)'
  BY <1>1 DEF LastIs
<1>3. Recorded(record.key, Len(wal))'
  BY <1>1 DEF Recorded
<1>4. QED
  BY <1>2, <1>3 DEF Tells

\* Steps that touch neither the log nor storage nor a write between the two.
LEMMA LogFrame ==
  ASSUME TypeOK, LogInv, UNCHANGED <<backend, node, store, wal>>, node = "up",
         ghost.overlapped \subseteq ghost'.overlapped,
         ghost.halfway \subseteq ghost'.halfway,
         NEW p \in Procs, \A q \in Procs \ {p} : pc'[q] = pc[q] /\ op'[q] = op[q],
         pc'[p] # "apply",
         pc[p] = "apply" => op[p].key \in ghost'.halfway,
         pc'[p] \in {"flush", "rotate"} => pc[p] \in {"flush", "rotate"} \/ IsDurable
  PROVE  LogInv'
<1>1. RotatesDurable'
  BY DEF LogInv, RotatesDurable, IsDurable
<1>2. LogDown'
  BY DEF LogDown
<1>3. ASSUME NEW k, NEW slot, Tells(k, slot)
      PROVE  Tells(k, slot)'
  BY <1>3 DEF Tells, LastIs, Recorded, IsDurable
<1>4. LogUp'
  <2>1. SUFFICES ASSUME NEW k \in Keys \ (ghost'.overlapped \cup ghost'.halfway)
                 PROVE /\ (\A q \in Procs : pc'[q] = "apply" => op'[q].key # k)
                            => Tells(k, store[k])'
                       /\ \A q \in Procs : pc'[q] = "apply" /\ op'[q].key = k
                            => Tells(k, op[q].entry)'
    BY DEF LogUp
  <2>2. k \in Keys \ (ghost.overlapped \cup ghost.halfway)
    OBVIOUS
  <2>3. ASSUME \A q \in Procs : pc'[q] = "apply" => op'[q].key # k
        PROVE  Tells(k, store[k])'
    <3>1. \A q \in Procs : pc[q] = "apply" => op[q].key # k
      BY <2>1, <2>3
    <3>2. Tells(k, store[k])
      BY <2>2, <3>1 DEF LogInv, LogUp
    <3>3. QED
      BY <1>3, <3>2
  <2>4. ASSUME NEW q \in Procs, pc'[q] = "apply", op'[q].key = k
        PROVE  Tells(k, op[q].entry)'
    <3>1. pc[q] = "apply" /\ op'[q] = op[q]
      BY <2>4
    <3>2. Tells(k, op[q].entry)
      BY <2>2, <2>4, <3>1 DEF LogInv, LogUp
    <3>3. PICK slot : slot = op[q].entry
      OBVIOUS
    <3>4. QED
      BY <1>3, <3>1, <3>2, <3>3
  <2>5. QED
    BY <2>3, <2>4
<1>5. QED
  BY <1>1, <1>2, <1>4 DEF LogInv

\* The steps of an open operation keep the log and storage together.
LEMMA LogWrite ==
  ASSUME TypeOK, TypeOK', WriterInv, LogInv, NEW p \in Procs, WriteStep(p)
  PROVE  LogInv'
<1>0. node = "up" /\ UNCHANGED <<backend, node>>
  <2>1. pc[p] # "idle" /\ UNCHANGED <<backend, node>>
    BY DEF WriteStep, WalAppend, AppendFails, StorageApply, OperationFails, Schedule,
           CommitAccounting, PublishChange, RotateCheck, FlushStorage, RotateWal
  <2>2. QED
    BY <2>1, BusyUp
<1>d. LogDown' /\ (IsDurable' <=> IsDurable)
  BY <1>0 DEF LogDown, IsDurable
<1>1. CASE WalAppend(p)
  <2> DEFINE own == op[p].key
             record == RecordOf(p)
  <2>1. /\ pc[p] = "append" /\ pc' = [pc EXCEPT ![p] = "apply"]
        /\ UNCHANGED <<store, op>> /\ ghost'.overlapped = ghost.overlapped
        /\ \/ wal' = Append(wal, record) /\ ghost'.halfway = ghost.halfway
           \/ UNCHANGED wal /\ ghost'.halfway = ghost.halfway \cup {own}
    BY <1>1, AppendGhost DEF WalAppend, Goto
  <2>2. record \in Records /\ own \in Keys /\ record.key = own /\ record.entry = op[p].entry
    BY <2>1, OpTypes DEF Records, RecordOf
  <2>3. pc'[p] = "apply" /\ \A q \in Procs \ {p} : pc'[q] = pc[q]
    BY <2>1 DEF TypeOK
  <2>4. \A q \in Procs \ {p} : pc[q] = "apply" /\ op[q].key = own => own \in ghost.overlapped
    BY <2>1 DEF WriterInv, OneWriter, OpenSteps
  <2> HIDE DEF own, record
  <2>5. PICK rec \in Records : rec = record
    BY <2>2
  <2>t. own \notin ghost'.halfway => Tells(rec.key, rec.entry)'
    BY <2>1, <2>5, AppendOwn DEF TypeOK
  <2>6. ASSUME NEW k \in Keys, k # own, NEW slot, Tells(k, slot)
        PROVE  Tells(k, slot)'
    <3>1. CASE wal' = Append(wal, record)
      BY <1>0, <2>2, <2>6, <3>1, AppendOther DEF TypeOK
    <3>2. CASE UNCHANGED wal
      BY <1>d, <2>6, <3>2 DEF Tells, LastIs, Recorded
    <3>3. QED
      BY <2>1, <3>1, <3>2
  <2>7. LogUp'
    <3>1. SUFFICES ASSUME NEW k \in Keys \ (ghost.overlapped \cup ghost'.halfway)
                   PROVE  /\ (\A q \in Procs : pc'[q] = "apply" => op[q].key # k)
                               => Tells(k, store[k])'
                          /\ \A q \in Procs : pc'[q] = "apply" /\ op[q].key = k
                               => Tells(k, op[q].entry)'
      BY <2>1 DEF LogUp
    <3>0. k \in Keys \ (ghost.overlapped \cup ghost.halfway)
      BY <2>1, <3>1
    <3>2. ASSUME \A q \in Procs : pc'[q] = "apply" => op[q].key # k
          PROVE  Tells(k, store[k])'
      <4>1. k # own
        BY <2>3, <3>2 DEF own
      <4>2. \A q \in Procs : pc[q] = "apply" => op[q].key # k
        BY <2>1, <2>3, <3>2
      <4>3. Tells(k, store[k])
        BY <1>0, <3>0, <4>2 DEF LogInv, LogUp
      <4>4. PICK slot : slot = store[k]
        OBVIOUS
      <4>5. Tells(k, slot)'
        BY <2>6, <4>1, <4>3, <4>4
      <4>6. QED
        BY <2>1, <4>4, <4>5
    <3>3. ASSUME NEW q \in Procs, pc'[q] = "apply", op[q].key = k
          PROVE  Tells(k, op[q].entry)'
      <4>1. CASE q = p
        <5>1. k = rec.key /\ op'[q].entry = rec.entry
          BY <2>1, <2>2, <2>5, <3>3, <4>1 DEF own
        <5>2. own \notin ghost'.halfway
          BY <2>2, <2>5, <3>1, <5>1
        <5>3. QED
          BY <2>t, <5>1, <5>2
      <4>2. CASE q # p
        <5>1. k # own /\ pc[q] = "apply"
          BY <2>3, <2>4, <3>1, <3>3, <4>2
        <5>2. Tells(k, op[q].entry)
          BY <1>0, <3>0, <3>3, <5>1 DEF LogInv, LogUp
        <5>3. PICK slot : slot = op[q].entry
          OBVIOUS
        <5>4. Tells(k, slot)'
          BY <2>6, <5>1, <5>2, <5>3
        <5>5. QED
          BY <2>1, <5>3, <5>4
      <4>3. QED
        BY <4>1, <4>2
    <3>4. QED
      BY <3>2, <3>3
  <2>8. RotatesDurable'
    BY <1>d, <2>3 DEF LogInv, RotatesDurable
  <2>9. QED
    BY <1>d, <2>7, <2>8 DEF LogInv
<1>2. CASE StorageApply(p)
  <2> DEFINE own == op[p].key
  <2>1. /\ pc[p] = "apply" /\ pc' = [pc EXCEPT ![p] = AfterApply(p)]
        /\ AfterApply(p) \in {"schedule", "commit"}
        /\ store' = [store EXCEPT ![own] = op[p].entry]
        /\ UNCHANGED <<wal, op>>
    BY <1>2 DEF StorageApply, Goto, AfterApply
  <2>2. ghost'.overlapped = ghost.overlapped /\ ghost'.halfway = ghost.halfway
    <3>1. ghost' = [ghost EXCEPT !.unsynced = @ \cup {op[p].key}]
      BY <1>2 DEF StorageApply
    <3>2. QED
      BY <3>1 DEF TypeOK, Ghosts
  <2>3. own \in Keys
    BY <2>1, OpTypes
  <2>4. /\ pc'[p] \in {"schedule", "commit"} /\ store'[own] = op[p].entry
        /\ \A q \in Procs \ {p} : pc'[q] = pc[q]
        /\ \A j \in Keys \ {own} : store'[j] = store[j]
    BY <2>1, <2>3 DEF TypeOK
  <2>5. ASSUME NEW k, NEW slot, Tells(k, slot)
        PROVE  Tells(k, slot)'
    BY <1>d, <2>1, <2>5 DEF Tells, LastIs, Recorded
  <2>6. LogUp'
    <3>1. SUFFICES ASSUME NEW k \in Keys \ (ghost.overlapped \cup ghost.halfway)
                   PROVE  /\ (\A q \in Procs : pc'[q] = "apply" => op[q].key # k)
                               => Tells(k, store[k])'
                          /\ \A q \in Procs : pc'[q] = "apply" /\ op[q].key = k
                               => Tells(k, op[q].entry)'
      BY <2>1, <2>2 DEF LogUp
    <3>2. ASSUME \A q \in Procs : pc'[q] = "apply" => op[q].key # k
          PROVE  Tells(k, store[k])'
      <4>1. Tells(k, store'[k])
        <5>1. CASE k = own
          <6>1. Tells(k, op[p].entry)
            BY <1>0, <2>1, <3>1, <5>1 DEF LogInv, LogUp
          <6>2. QED
            BY <2>4, <5>1, <6>1
        <5>2. CASE k # own
          <6>1. \A q \in Procs : pc[q] = "apply" => op[q].key # k
            BY <2>4, <3>2, <5>2
          <6>2. Tells(k, store[k])
            BY <1>0, <3>1, <6>1 DEF LogInv, LogUp
          <6>3. QED
            BY <2>4, <5>2, <6>2
        <5>3. QED
          BY <5>1, <5>2
      <4>2. PICK slot : slot = store'[k]
        OBVIOUS
      <4>3. Tells(k, slot)'
        BY <2>5, <4>1, <4>2
      <4>4. QED
        BY <4>2, <4>3
    <3>3. ASSUME NEW q \in Procs, pc'[q] = "apply", op[q].key = k
          PROVE  Tells(k, op[q].entry)'
      <4>1. pc[q] = "apply"
        BY <2>4, <3>3
      <4>2. Tells(k, op[q].entry)
        BY <1>0, <3>1, <3>3, <4>1 DEF LogInv, LogUp
      <4>3. PICK slot : slot = op[q].entry
        OBVIOUS
      <4>4. Tells(k, slot)'
        BY <2>5, <4>2, <4>3
      <4>5. QED
        BY <2>1, <4>3, <4>4
    <3>4. QED
      BY <3>2, <3>3
  <2>7. RotatesDurable'
    BY <1>d, <2>4 DEF LogInv, RotatesDurable
  <2>8. QED
    BY <1>d, <2>6, <2>7 DEF LogInv
<1>3. CASE AppendFails(p) \/ OperationFails(p)
  <2>1. /\ pc' = [pc EXCEPT ![p] = IF p = Sweeper THEN "examine" ELSE "idle"]
        /\ op' = [op EXCEPT ![p] = None]
        /\ UNCHANGED store
    BY <1>3, FailureFacts
  <2>2. /\ ghost'.overlapped = ghost.overlapped
        /\ ghost.halfway \subseteq ghost'.halfway
        /\ pc[p] = "apply" => op[p].key \in ghost'.halfway
    BY <1>3, FailureFacts
  <2>3. pc'[p] \in {"examine", "idle"} /\ \A q \in Procs \ {p} : pc'[q] = pc[q] /\ op'[q] = op[q]
    BY <2>1 DEF TypeOK
  <2>4. CASE UNCHANGED wal
    BY <1>0, <2>1, <2>2, <2>3, <2>4, LogFrame
  <2>5. CASE /\ pc[p] = "append" /\ wal' = Append(wal, RecordOf(p))
             /\ ghost'.halfway = ghost.halfway \cup {op[p].key}
    <3>1. PICK rec \in Records : rec = RecordOf(p) /\ rec.key = op[p].key
      BY <2>5, OpTypes DEF Records, RecordOf
    <3>2. ASSUME NEW k \in Keys \ ghost'.halfway, NEW slot, Tells(k, slot)
          PROVE  Tells(k, slot)'
      <4>1. k # rec.key /\ k \in Keys /\ wal' = Append(wal, rec) /\ wal \in Seq(Records)
        BY <2>5, <3>1, <3>2 DEF TypeOK
      <4>2. QED
        BY <1>0, <3>1, <3>2, <4>1, AppendOther
    <3>3. LogUp'
      <4>1. SUFFICES ASSUME NEW k \in Keys \ (ghost.overlapped \cup ghost'.halfway)
                     PROVE  /\ (\A q \in Procs : pc'[q] = "apply" => op'[q].key # k)
                                 => Tells(k, store[k])'
                            /\ \A q \in Procs : pc'[q] = "apply" /\ op'[q].key = k
                                 => Tells(k, op[q].entry)'
        BY <2>1, <2>2 DEF LogUp
      <4>2. k \in Keys \ (ghost.overlapped \cup ghost.halfway)
        BY <2>2, <4>1
      <4>3. ASSUME \A q \in Procs : pc'[q] = "apply" => op'[q].key # k
            PROVE  Tells(k, store[k])'
        <5>1. \A q \in Procs : pc[q] = "apply" => op[q].key # k
          BY <2>3, <2>5, <4>3
        <5>2. Tells(k, store[k])
          BY <1>0, <4>2, <5>1 DEF LogInv, LogUp
        <5>3. PICK slot : slot = store[k]
          OBVIOUS
        <5>4. Tells(k, slot)'
          BY <3>2, <4>1, <5>2, <5>3
        <5>5. QED
          BY <2>1, <5>3, <5>4
      <4>4. ASSUME NEW q \in Procs, pc'[q] = "apply", op'[q].key = k
            PROVE  Tells(k, op[q].entry)'
        <5>1. pc[q] = "apply" /\ op'[q] = op[q]
          BY <2>3, <4>4
        <5>2. Tells(k, op[q].entry)
          BY <1>0, <4>2, <4>4, <5>1 DEF LogInv, LogUp
        <5>3. PICK slot : slot = op[q].entry
          OBVIOUS
        <5>4. Tells(k, slot)'
          BY <3>2, <4>1, <5>2, <5>3
        <5>5. QED
          BY <5>1, <5>3, <5>4
      <4>5. QED
        BY <4>3, <4>4
    <3>4. RotatesDurable'
      BY <1>d, <2>3 DEF LogInv, RotatesDurable
    <3>5. QED
      BY <1>d, <3>3, <3>4 DEF LogInv
  <2>6. QED
    BY <1>3, <2>4, <2>5, FailureFacts
<1>4. CASE Schedule(p) \/ CommitAccounting(p) \/ PublishChange(p)
  <2>1. /\ pc[p] \in {"schedule", "commit", "publish"}
        /\ pc'[p] \in {"commit", "publish", "rotate_check"}
        /\ \A q \in Procs \ {p} : pc'[q] = pc[q] /\ op'[q] = op[q]
        /\ UNCHANGED <<store, wal, ghost>>
    BY <1>4 DEF Schedule, CommitAccounting, PublishChange, Goto, TypeOK
  <2>2. QED
    BY <1>0, <2>1, LogFrame
<1>5. CASE RotateCheck(p) \/ FlushStorage(p)
  <2>1. pc[p] \in {"rotate_check", "flush"} /\ UNCHANGED <<store, wal>>
    BY <1>5 DEF RotateCheck, FlushStorage
  <2>2. ghost'.overlapped = ghost.overlapped /\ ghost'.halfway = ghost.halfway
    <3>1. UNCHANGED ghost \/ ghost' = [ghost EXCEPT !.unsynced = {}]
      BY <1>5 DEF RotateCheck, FlushStorage
    <3>2. QED
      BY <3>1 DEF TypeOK, Ghosts
  <2>3. /\ pc'[p] \in {"idle", "examine", "flush", "rotate"}
        /\ \A q \in Procs \ {p} : pc'[q] = pc[q] /\ op'[q] = op[q]
        /\ pc'[p] \in {"flush", "rotate"} => pc[p] = "flush" \/ IsDurable
    BY <1>5, ReturnFacts DEF RotateCheck, FlushStorage, RotationDue, Goto, TypeOK
  <2>4. QED
    BY <1>0, <2>1, <2>2, <2>3, LogFrame
<1>6. CASE RotateWal(p)
  <2>1. /\ pc[p] = "rotate" /\ wal' = <<>>
        /\ pc' = [pc EXCEPT ![p] = IF p = Sweeper THEN "examine" ELSE "idle"]
    BY <1>6, ReturnFacts DEF RotateWal
  <2>2. IsDurable'
    BY <1>d, <2>1 DEF LogInv, RotatesDurable
  <2>3. LogUp'
    <3>1. \A k, slot : Tells(k, slot)'
      BY <2>1, <2>2 DEF Tells, LastIs
    <3>2. QED
      BY <3>1 DEF LogUp
  <2>4. QED
    BY <1>d, <2>2, <2>3 DEF LogInv, RotatesDurable
<1>7. QED
  BY <1>1, <1>2, <1>3, <1>4, <1>5, <1>6 DEF WriteStep

\* What a step of the sweeper's own may do: begin an eviction, or move about
\* outside of any operation on a key.
LEMMA SweeperMoves ==
  ASSUME TypeOK, WriterInv, SweeperStep
  PROVE  /\ node = "up" /\ UNCHANGED <<backend, node, store, wal>>
         /\ pc[Sweeper] \in {"idle", "examine", "reschedule", "plan"}
         /\ \A q \in Procs \ {Sweeper} : pc'[q] = pc[q] /\ op'[q] = op[q]
         /\ ghost'.halfway = ghost.halfway
         /\ \/ /\ pc[Sweeper] # "plan" /\ pc'[Sweeper] \in {"idle", "examine", "reschedule"}
               /\ ghost'.overlapped = ghost.overlapped
            \/ /\ pc[Sweeper] = "plan" /\ pc'[Sweeper] = "append"
               /\ op'[Sweeper].key = op[Sweeper].key
               /\ ghost'.overlapped = ghost.overlapped
            \/ /\ pc[Sweeper] = "examine" /\ pc'[Sweeper] = "plan"
               /\ op'[Sweeper].key \in Keys
               /\ \/ ghost'.overlapped = ghost.overlapped
                  \/ ghost'.overlapped = ghost.overlapped \cup {op'[Sweeper].key}
<1> Sweeper \in Procs
  OBVIOUS
<1>1. CASE DrainDue
  <2>1. ttl_index # {}
    BY <1>1 DEF DrainDue
  <2>2. node = "up"
    BY <2>1 DEF WriterInv, Resting
  <2>3. QED
    BY <1>1, <2>2 DEF DrainDue, Goto, TypeOK
<1>2. pc[Sweeper] # "idle" => node = "up"
  BY BusyUp
<1>3. CASE SweepDone
  BY <1>2, <1>3 DEF SweepDone, Goto, TypeOK
<1>4. CASE Reschedule
  BY <1>2, <1>4, ReturnFacts DEF Reschedule, TypeOK
<1>5. CASE EvictPlan
  <2>1. PICK planned : op' = [op EXCEPT ![Sweeper] = planned] /\ planned.key = op[Sweeper].key
    BY <1>5, EvictPlanned
  <2>2. QED
    BY <1>2, <1>5, <2>1 DEF EvictPlan, Goto, TypeOK
<1>6. ASSUME NEW e \in sweep.due, ExamineFails(e)
      PROVE  /\ pc[Sweeper] = "examine" /\ UNCHANGED <<backend, node, store, wal, pc, op>>
             /\ ghost'.halfway = ghost.halfway /\ ghost'.overlapped = ghost.overlapped
  <2>1. /\ ghost' = [ghost EXCEPT !.leaked = @ \cup {e[2]}]
        /\ UNCHANGED <<backend, node, store, wal, pc, op>> /\ pc[Sweeper] = "examine"
    BY <1>6 DEF ExamineFails
  <2>2. QED
    BY <2>1 DEF TypeOK, Ghosts
<1>7. ASSUME NEW e \in sweep.due, Examine(e)
      PROVE  /\ pc[Sweeper] = "examine" /\ UNCHANGED <<backend, node, store, wal>>
             /\ \A q \in Procs \ {Sweeper} : pc'[q] = pc[q] /\ op'[q] = op[q]
             /\ ghost'.halfway = ghost.halfway
             /\ \/ /\ pc'[Sweeper] \in {"examine", "reschedule"}
                   /\ ghost'.overlapped = ghost.overlapped
                \/ /\ pc'[Sweeper] = "plan" /\ op'[Sweeper].key \in Keys
                   /\ \/ ghost'.overlapped = ghost.overlapped
                      \/ ghost'.overlapped = ghost.overlapped \cup {op'[Sweeper].key}
  <2> DEFINE k == e[2]
             eviction == [key |-> k, entry |-> None, delta |-> 0]
  <2>1. pc[Sweeper] = "examine" /\ UNCHANGED <<backend, node, store, wal>> /\ k \in Keys
    BY <1>7 DEF Examine, TypeOK, Sweeps
  <2>2. \/ Open(Sweeper, k, "plan", eviction)
        \/ UNCHANGED <<pc, op, ghost>>
        \/ /\ pc' = [pc EXCEPT ![Sweeper] = "reschedule"] /\ UNCHANGED ghost
           /\ op' = [op EXCEPT ![Sweeper] = [key |-> k, entry |-> store[k], delta |-> 0]]
    BY <1>7 DEF Examine, Goto
  <2>3. eviction.key = k
    OBVIOUS
  <2> HIDE DEF eviction, k
  <2>4. CASE Open(Sweeper, k, "plan", eviction)
    <3>1. /\ pc' = [pc EXCEPT ![Sweeper] = "plan"] /\ op' = [op EXCEPT ![Sweeper] = eviction]
          /\ \/ ghost'.overlapped = ghost.overlapped
             \/ ghost'.overlapped = ghost.overlapped \cup {k}
          /\ ghost'.halfway = ghost.halfway
      BY <2>1, <2>4, OpenFacts, OpenGhost
    <3>2. op'[Sweeper].key = k
      BY <2>3, <3>1 DEF TypeOK
    <3>3. QED
      BY <2>1, <3>1, <3>2 DEF TypeOK
  <2>5. QED
    BY <2>1, <2>2, <2>4 DEF TypeOK
<1>8. ASSUME NEW e \in sweep.due, Examine(e) \/ ExamineFails(e), pc[Sweeper] = "examine"
      PROVE  node = "up"
  BY <1>2, <1>8
<1>9. QED
  BY <1>1, <1>3, <1>4, <1>5, <1>6, <1>7, <1>8 DEF SweeperStep

\* What a put or a delete does when it begins.
LEMMA ClientMoves ==
  ASSUME TypeOK, NEW c \in Clients, ClientStep(c)
  PROVE  /\ node = "up" /\ UNCHANGED <<backend, node, store, wal>>
         /\ pc[c] = "idle" /\ pc'[c] = "append" /\ op'[c].key \in Keys
         /\ \A q \in Procs \ {c} : pc'[q] = pc[q] /\ op'[q] = op[q]
         /\ ghost'.halfway = ghost.halfway
         /\ \/ ghost'.overlapped = ghost.overlapped
            \/ ghost'.overlapped = ghost.overlapped \cup {op'[c].key}
<1>1. PICK k \in Keys : PutPlan(c, k) \/ DeletePlan(c, k)
  BY DEF ClientStep
<1>2. PICK entry \in Slots, delta \in Int :
        /\ Open(c, k, "append", [key |-> k, entry |-> entry, delta |-> delta])
        /\ node = "up" /\ pc[c] = "idle" /\ UNCHANGED <<backend, node, store, wal>>
  BY <1>1, ClientOpens
<1> DEFINE operation == [key |-> k, entry |-> entry, delta |-> delta]
<1>3. Open(c, k, "append", operation) /\ operation.key = k /\ c \in Procs
  BY <1>2
<1> HIDE DEF operation
<1>4. /\ pc' = [pc EXCEPT ![c] = "append"] /\ op' = [op EXCEPT ![c] = operation]
      /\ \/ ghost'.overlapped = ghost.overlapped
         \/ ghost'.overlapped = ghost.overlapped \cup {k}
      /\ ghost'.halfway = ghost.halfway
  BY <1>3, OpenFacts, OpenGhost
<1>5. op'[c].key = k
  BY <1>3, <1>4 DEF TypeOK
<1>6. QED
  BY <1>2, <1>3, <1>4, <1>5 DEF TypeOK

\* A crash leaves the log, which tells of every settled key what storage held.
LEMMA LogCrash ==
  ASSUME TypeOK, TypeOK', WriterInv, LogInv, Crash
  PROVE  LogInv'
<1>1. /\ node # "down" /\ node' = "down" /\ replayed' = 0 /\ UNCHANGED <<backend, wal>>
      /\ store' = IF IsDurable THEN store ELSE EmptyMap
      /\ \A p \in Procs : pc'[p] = "idle"
  BY DEF Crash
<1>2. /\ Len(wal) \in Nat /\ (IsDurable' <=> IsDurable)
      /\ ~IsDurable => \A k \in Keys : store'[k] = None
  BY <1>1, LenProperties DEF TypeOK, IsDurable, EmptyMap
<1>3. \A k \in Keys : /\ LastIs(k, replayed, store[k])'
                      /\ IsDurable' \/ Recorded(k, replayed)' \/ store'[k] = None
  BY <1>1, <1>2 DEF LastIs
<1>4. ASSUME NEW k \in Keys \ ghost'.unsure
      PROVE  /\ LastIs(k, Len(wal), ghost'.live[k])
             /\ Recorded(k, Len(wal)) \/ store'[k] = ghost'.live[k]
  <2>1. CASE node = "up"
    <3>1. ghost' = [QuietGhost EXCEPT
                     !.unsure = OpenKeys \cup ghost.overlapped \cup ghost.halfway,
                     !.live = store]
      BY <2>1 DEF Crash
    <3>2. ghost'.unsure = OpenKeys \cup ghost.overlapped \cup ghost.halfway
          /\ ghost'.live = store
      BY <3>1 DEF QuietGhost
    <3>3. \A p \in Procs : pc[p] = "apply" => op[p].key # k
      BY <1>4, <3>2 DEF OpenKeys, IsOpen, OpenSteps
    <3>4. Tells(k, store[k])
      BY <1>4, <2>1, <3>2, <3>3 DEF LogInv, LogUp
    <3>5. QED
      BY <1>1, <1>2, <3>2, <3>4 DEF Tells
  <2>2. CASE node # "up"
    <3>1. ghost' = ghost
      BY <2>2 DEF Crash
    <3>2. /\ LastIs(k, Len(wal), ghost.live[k])
          /\ Recorded(k, Len(wal)) \/ store[k] = ghost.live[k]
          /\ IsDurable \/ Recorded(k, replayed) \/ store[k] = None
          /\ replayed \in 0..Len(wal)
      BY <1>4, <2>2, <3>1 DEF LogInv, LogDown
    <3>3. Recorded(k, replayed) => Recorded(k, Len(wal))
      BY <1>2, <3>2 DEF Recorded
    <3>4. QED
      BY <1>1, <1>2, <3>1, <3>2, <3>3
  <2>3. QED
    BY <2>1, <2>2
<1>5. \A k \in Keys \ ghost'.unsure :
        LastIs(k, Len(wal), ghost.live[k])' /\ (Recorded(k, Len(wal)) \/ store[k] = ghost.live[k])'
  BY <1>1, <1>4 DEF LastIs, Recorded
<1>6. LogDown'
  BY <1>1, <1>2, <1>3, <1>5 DEF LogDown
<1>7. LogUp' /\ RotatesDurable'
  BY <1>1 DEF LogUp, RotatesDurable
<1>8. QED
  BY <1>6, <1>7 DEF LogInv

\* Once the whole log is replayed, every settled key is as clients knew it.
LEMMA Restored ==
  ASSUME TypeOK, LogInv, node \in {"boot_flush", "boot_rotate", "bootstrap"},
         NEW k \in Keys \ ghost.unsure
  PROVE  store[k] = ghost.live[k]
<1>1. /\ replayed = Len(wal) /\ Len(wal) \in Nat
      /\ LastIs(k, Len(wal), store[k]) /\ LastIs(k, Len(wal), ghost.live[k])
      /\ Recorded(k, Len(wal)) \/ store[k] = ghost.live[k]
  BY LenProperties DEF LogInv, LogDown, TypeOK
<1>2. CASE Recorded(k, Len(wal))
  <2>1. PICK i \in 1..Len(wal) : /\ wal[i].key = k
                                 /\ \A j \in i+1..Len(wal) : wal[j].key # k
    BY <1>1, <1>2, LastRecord
  <2>2. QED
    BY <1>1, <2>1 DEF LastIs
<1>3. QED
  BY <1>1, <1>2

\* Start-up replays the log over storage.
LEMMA LogBoot ==
  ASSUME TypeOK, TypeOK', WriterInv, LogInv, BootStep
  PROVE  LogInv'
<1>0. /\ node # "up" /\ UNCHANGED <<backend, pc, op>> /\ Len(wal) \in Nat
      /\ (IsDurable' <=> IsDurable) /\ \A p \in Procs : pc[p] = "idle"
  <2>1. node # "up" /\ UNCHANGED <<backend, pc, op>>
    BY DEF BootStep, OpenStorageAndWal, Replay, ReplayDone, BootFlush, BootRotate, Bootstrap
  <2>2. QED
    BY <2>1, LenProperties DEF TypeOK, IsDurable, WriterInv, Resting
<1>r. RotatesDurable'
  BY <1>0 DEF RotatesDurable
<1>1. CASE OpenStorageAndWal \/ ReplayDone \/ BootFlush
  <2>1. /\ node' \in {"replay", "boot_flush", "boot_rotate", "bootstrap"}
        /\ UNCHANGED <<store, wal, replayed, ghost>>
        /\ node' \in {"boot_flush", "boot_rotate", "bootstrap"} => replayed = Len(wal)
        /\ node' \in {"boot_flush", "boot_rotate"} => IsDurable
    BY <1>1 DEF OpenStorageAndWal, ReplayDone, BootFlush, LogInv, LogDown
  <2>2. LogDown'
    <3>1. \A k, n, slot : LastIs(k, n, slot) => LastIs(k, n, slot)'
      BY <2>1 DEF LastIs
    <3>2. \A k, n : Recorded(k, n) => Recorded(k, n)'
      BY <2>1 DEF Recorded
    <3>3. /\ replayed \in 0..Len(wal)
          /\ \A k \in Keys : /\ LastIs(k, replayed, store[k])
                             /\ IsDurable \/ Recorded(k, replayed) \/ store[k] = None
          /\ \A k \in Keys \ ghost.unsure :
               /\ LastIs(k, Len(wal), ghost.live[k])
               /\ Recorded(k, Len(wal)) \/ store[k] = ghost.live[k]
      BY <1>0 DEF LogInv, LogDown
    <3>4. QED
      BY <1>0, <2>1, <3>3 DEF LogDown, LastIs, Recorded
  <2>3. LogUp'
    BY <2>1 DEF LogUp
  <2>4. QED
    BY <1>r, <2>2, <2>3 DEF LogInv
<1>2. CASE Replay
  <2> DEFINE record == wal[replayed + 1]
  <2>1. /\ node = "replay" /\ replayed < Len(wal) /\ replayed' = replayed + 1
        /\ store' = [store EXCEPT ![record.key] = record.entry]
        /\ UNCHANGED <<node, wal, ghost>>
    BY <1>2 DEF Replay
  <2>2. replayed \in Nat /\ replayed + 1 \in 1..Len(wal) /\ record \in Records
    <3>1. replayed \in Nat /\ replayed + 1 \in 1..Len(wal)
      BY <1>0, <2>1 DEF TypeOK
    <3>2. QED
      BY <3>1, ElementOfSeq DEF TypeOK
  <2>3. /\ record.key \in Keys /\ store'[record.key] = record.entry
        /\ \A j \in Keys \ {record.key} : store'[j] = store[j]
    BY <2>1, <2>2 DEF Records, TypeOK
  <2>4. /\ \A k \in Keys : /\ LastIs(k, replayed, store[k])
                           /\ IsDurable \/ Recorded(k, replayed) \/ store[k] = None
        /\ \A k \in Keys \ ghost.unsure :
             /\ LastIs(k, Len(wal), ghost.live[k])
             /\ Recorded(k, Len(wal)) \/ store[k] = ghost.live[k]
    BY <1>0 DEF LogInv, LogDown
  <2>5. ASSUME NEW k \in Keys
        PROVE  /\ LastIs(k, replayed + 1, store'[k])
               /\ IsDurable \/ Recorded(k, replayed + 1) \/ store'[k] = None
    <3>1. CASE k = record.key
      BY <2>2, <2>3, <3>1 DEF LastIs, Recorded
    <3>2. CASE k # record.key
      <4>1. LastIs(k, replayed, store[k]) /\ store'[k] = store[k]
        BY <2>3, <2>4, <3>2
      <4>2. LastIs(k, replayed + 1, store[k])
        BY <2>2, <3>2, <4>1 DEF LastIs
      <4>3. Recorded(k, replayed) => Recorded(k, replayed + 1)
        BY <2>2 DEF Recorded
      <4>4. QED
        BY <2>4, <4>1, <4>2, <4>3
    <3>3. QED
      BY <3>1, <3>2
  <2>6. ASSUME NEW k \in Keys \ ghost.unsure
        PROVE  Recorded(k, Len(wal)) \/ store'[k] = ghost.live[k]
    BY <2>2, <2>3, <2>4 DEF Recorded
  <2> HIDE DEF record
  <2>7. LogDown'
    <3>1. /\ replayed' \in 0..Len(wal') /\ node' = "replay"
      BY <1>0, <2>1, <2>2
    <3>2. ASSUME NEW k \in Keys
          PROVE  LastIs(k, replayed, store[k])'
                 /\ (IsDurable \/ Recorded(k, replayed) \/ store[k] = None)'
      BY <1>0, <2>1, <2>5 DEF LastIs, Recorded
    <3>3. ASSUME NEW k \in Keys \ ghost'.unsure
          PROVE  /\ LastIs(k, Len(wal), ghost.live[k])'
                 /\ (Recorded(k, Len(wal)) \/ store[k] = ghost.live[k])'
      <4>1. k \in Keys \ ghost.unsure
        BY <2>1
      <4>2. LastIs(k, Len(wal), ghost.live[k]) /\ (Recorded(k, Len(wal)) \/ store'[k] = ghost.live[k])
        BY <2>4, <2>6, <4>1
      <4>3. QED
        BY <2>1, <4>2 DEF LastIs, Recorded
    <3>4. QED
      BY <3>1, <3>2, <3>3 DEF LogDown
  <2>8. LogUp'
    BY <2>1 DEF LogUp
  <2>9. QED
    BY <1>r, <2>7, <2>8 DEF LogInv
<1>3. CASE BootRotate
  <2>1. /\ node = "boot_rotate" /\ node' = "bootstrap" /\ wal' = <<>> /\ replayed' = 0
        /\ UNCHANGED <<store, ghost>>
    BY <1>3 DEF BootRotate
  <2>2. IsDurable' /\ Len(wal') = 0
    BY <1>0, <2>1 DEF LogInv, LogDown
  <2>3. \A k, slot : LastIs(k, 0, slot)'
    BY DEF LastIs
  <2>4. \A k \in Keys \ ghost.unsure : store[k] = ghost.live[k]
    BY <2>1, Restored
  <2>5. LogDown'
    BY <2>1, <2>2, <2>3, <2>4 DEF LogDown, LastIs
  <2>6. LogUp'
    BY <2>1 DEF LogUp
  <2>7. QED
    BY <1>r, <2>5, <2>6 DEF LogInv
<1>4. CASE Bootstrap
  <2>1. node = "bootstrap" /\ node' = "up" /\ UNCHANGED <<store, wal>>
    BY <1>4 DEF Bootstrap
  <2>2. \A k \in Keys : Tells(k, store[k])
    BY <2>1 DEF LogInv, LogDown, Tells
  <2>3. \A k \in Keys : Tells(k, store[k])'
    BY <1>0, <2>1, <2>2 DEF Tells, LastIs, Recorded
  <2>4. LogUp'
    BY <1>0, <2>3 DEF LogUp
  <2>5. LogDown'
    BY <2>1 DEF LogDown
  <2>6. QED
    BY <1>r, <2>4, <2>5 DEF LogInv
<1>5. QED
  BY <1>1, <1>2, <1>3, <1>4 DEF BootStep

LEMMA LogNext ==
  ASSUME TypeOK, TypeOK', WriterInv, LogInv, [Next]_vars
  PROVE  LogInv'
<1>1. ASSUME NEW c \in Clients, ClientStep(c)
      PROVE  LogInv'
  <2>1. c \in Procs
    OBVIOUS
  <2>2. QED
    BY <1>1, <2>1, ClientMoves, LogFrame
<1>2. ASSUME NEW p \in Procs, WriteStep(p)
      PROVE  LogInv'
    BY <1>2, LogWrite
<1>3. CASE SweeperStep
  <2>1. Sweeper \in Procs
    OBVIOUS
  <2>2. QED
    BY <1>3, <2>1, SweeperMoves, LogFrame
<1>4. CASE BootStep
  BY <1>4, LogBoot
<1>5. CASE Crash
  BY <1>5, LogCrash
<1>6. CASE Tick \/ UNCHANGED vars
  <2>1. UNCHANGED <<backend, node, store, wal, replayed, pc, op, ghost>>
    BY <1>6 DEF Tick, vars
  <2>2. QED
    BY <2>1 DEF LogInv, LogUp, LogDown, RotatesDurable, Tells, LastIs, Recorded, IsDurable
<1>7. QED
  BY <1>1, <1>2, <1>3, <1>4, <1>5, <1>6 DEF Next

\* Initially the log is empty and so is storage.
LEMMA LogInit == Init => LogInv
BY DEF Init, LogInv, LogUp, LogDown, RotatesDurable, LastIs, Recorded, EmptyMap, QuietGhost

\* The map clients are served, and the keys a restart may still decide: the
\* refinement mapping of Kv.
Dict == IF node = "up" THEN store ELSE ghost.live
Unsettled ==
  IF node = "up" THEN OpenKeys \cup ghost.overlapped \cup ghost.halfway ELSE ghost.unsure

\* Each way in which a step may move them is a step of the abstract map.
LEMMA KvStutter ==
  ASSUME UNCHANGED <<Dict, Unsettled>>
  PROVE  UNCHANGED Kv!vars
BY DEF Kv!vars, Dict, Unsettled

LEMMA KvBegin ==
  ASSUME NEW k \in Keys, UNCHANGED Dict, Unsettled' = Unsettled \cup {k}
  PROVE  Kv!Next
<1>1. Kv!Begin(k)
  BY DEF Kv!Begin, Dict, Unsettled
<1>2. QED
  BY <1>1 DEF Kv!Next

LEMMA KvLand ==
  ASSUME NEW k \in Keys, k \in Unsettled, Dict' \in [Keys -> Slots],
         \A j \in Keys \ {k} : Dict'[j] = Dict[j], UNCHANGED Unsettled
  PROVE  Kv!Next
<1>1. Kv!Land(k)
  BY DEF Kv!Land, Kv!Maps, Dict, Unsettled, Slots
<1>2. QED
  BY <1>1 DEF Kv!Next

LEMMA KvSettle ==
  ASSUME NEW k \in Keys, k \in Unsettled, UNCHANGED Dict, Unsettled' = Unsettled \ {k}
  PROVE  Kv!Next
<1>1. Kv!Settle(k)
  BY DEF Kv!Settle, Dict, Unsettled
<1>2. QED
  BY <1>1 DEF Kv!Next

LEMMA KvRestart ==
  ASSUME Dict' \in [Keys -> Slots], \A k \in Keys \ Unsettled : Dict'[k] = Dict[k],
         Unsettled' = {}
  PROVE  Kv!Next
<1>1. Kv!Restart
  BY DEF Kv!Restart, Kv!Maps, Dict, Unsettled, Slots
<1>2. QED
  BY <1>1 DEF Kv!Next

\* How the open keys change when one process moves.
LEMMA OpenKeysMove ==
  ASSUME NEW p \in Procs, \A q \in Procs \ {p} : pc'[q] = pc[q] /\ op'[q] = op[q]
  PROVE  /\ pc[p] \notin OpenSteps /\ pc'[p] \notin OpenSteps => OpenKeys' = OpenKeys
         /\ pc[p] \in OpenSteps /\ pc'[p] \in OpenSteps /\ op'[p].key = op[p].key
              => OpenKeys' = OpenKeys
         /\ pc[p] \notin OpenSteps /\ pc'[p] \in OpenSteps /\ op'[p].key \in Keys
              => OpenKeys' = OpenKeys \cup {op'[p].key}
         /\ pc[p] \in OpenSteps /\ pc'[p] \notin OpenSteps
              => OpenKeys' = OpenKeys \/ OpenKeys' = OpenKeys \ {op[p].key}
<1>1. \A k : (\E q \in Procs : pc'[q] \in OpenSteps /\ op'[q].key = k)
          <=> \/ \E q \in Procs \ {p} : pc[q] \in OpenSteps /\ op[q].key = k
              \/ pc'[p] \in OpenSteps /\ op'[p].key = k
  OBVIOUS
<1>2. \A k : (\E q \in Procs : pc[q] \in OpenSteps /\ op[q].key = k)
          <=> \/ \E q \in Procs \ {p} : pc[q] \in OpenSteps /\ op[q].key = k
              \/ pc[p] \in OpenSteps /\ op[p].key = k
  OBVIOUS
<1> DEFINE rest == {k \in Keys : \E q \in Procs \ {p} : pc[q] \in OpenSteps /\ op[q].key = k}
<1>3. /\ OpenKeys = {k \in Keys : k \in rest \/ (pc[p] \in OpenSteps /\ op[p].key = k)}
      /\ OpenKeys' = {k \in Keys : k \in rest \/ (pc'[p] \in OpenSteps /\ op'[p].key = k)}
  BY <1>1, <1>2 DEF OpenKeys, IsOpen
<1>4. rest \subseteq Keys
  OBVIOUS
<1> HIDE DEF rest
<1>5. QED
  BY <1>3, <1>4

\* Every step of an open operation is a step of the map: it lands, it settles
\* its key, or it changes nothing a client can tell.
LEMMA KvWrite ==
  ASSUME TypeOK, TypeOK', WriterInv, NEW p \in Procs, WriteStep(p)
  PROVE  [Kv!Next]_(Kv!vars)
<1>0. node = "up" /\ UNCHANGED node
  <2>1. pc[p] # "idle" /\ UNCHANGED node
    BY DEF WriteStep, WalAppend, AppendFails, StorageApply, OperationFails, Schedule,
           CommitAccounting, PublishChange, RotateCheck, FlushStorage, RotateWal
  <2>2. QED
    BY <2>1, BusyUp
<1>d. Dict = store /\ Dict' = store'
  BY <1>0 DEF Dict
<1>u. /\ Unsettled = OpenKeys \cup ghost.overlapped \cup ghost.halfway
      /\ Unsettled' = OpenKeys' \cup ghost'.overlapped \cup ghost'.halfway
  BY <1>0 DEF Unsettled
<1>1. CASE StorageApply(p)
  <2> DEFINE k == op[p].key
  <2>1. /\ pc[p] = "apply" /\ pc' = [pc EXCEPT ![p] = AfterApply(p)]
        /\ AfterApply(p) \in {"schedule", "commit"}
        /\ store' = [store EXCEPT ![k] = op[p].entry] /\ UNCHANGED op
    BY <1>1 DEF StorageApply, Goto, AfterApply
  <2>2. ghost'.overlapped = ghost.overlapped /\ ghost'.halfway = ghost.halfway
    <3>1. ghost' = [ghost EXCEPT !.unsynced = @ \cup {op[p].key}]
      BY <1>1 DEF StorageApply
    <3>2. QED
      BY <3>1 DEF TypeOK, Ghosts
  <2>3. /\ k \in Keys /\ pc[p] \in OpenSteps /\ pc'[p] \in OpenSteps
        /\ \A q \in Procs \ {p} : pc'[q] = pc[q] /\ op'[q] = op[q]
    BY <2>1, OpTypes DEF TypeOK, OpenSteps
  <2>4. OpenKeys' = OpenKeys /\ k \in OpenKeys
    BY <2>1, <2>3, OpenKeysMove DEF OpenKeys, IsOpen
  <2>5. /\ Dict' \in [Keys -> Slots] /\ \A j \in Keys \ {k} : Dict'[j] = Dict[j]
    BY <1>d, <2>1 DEF TypeOK
  <2> HIDE DEF k
  <2>6. QED
    BY <1>u, <2>2, <2>3, <2>4, <2>5, KvLand
<1>2. CASE WalAppend(p) \/ Schedule(p) \/ CommitAccounting(p)
  <2>1. /\ pc[p] \in OpenSteps /\ pc'[p] \in OpenSteps /\ op'[p] = op[p]
        /\ \A q \in Procs \ {p} : pc'[q] = pc[q] /\ op'[q] = op[q]
        /\ UNCHANGED store
    BY <1>2 DEF WalAppend, Schedule, CommitAccounting, Goto, TypeOK, OpenSteps
  <2>2. OpenKeys' = OpenKeys /\ op[p].key \in OpenKeys
    BY <2>1, OpenKeysMove, OpTypes DEF OpenKeys, IsOpen, OpenSteps
  <2>3. /\ ghost'.overlapped = ghost.overlapped
        /\ \/ ghost'.halfway = ghost.halfway
           \/ ghost'.halfway = ghost.halfway \cup {op[p].key}
    BY <1>2, AppendGhost DEF Schedule, CommitAccounting
  <2>4. Unsettled' = Unsettled
    BY <1>u, <2>2, <2>3
  <2>5. QED
    BY <1>d, <2>1, <2>4, KvStutter
<1>3. ASSUME UNCHANGED store, ghost'.overlapped = ghost.overlapped,
             \/ ghost'.halfway = ghost.halfway
             \/ ghost'.halfway = ghost.halfway \cup {op[p].key},
             pc[p] \in OpenSteps, pc'[p] \notin OpenSteps,
             \A q \in Procs \ {p} : pc'[q] = pc[q] /\ op'[q] = op[q]
      PROVE  [Kv!Next]_(Kv!vars)
  <2> DEFINE k == op[p].key
  <2>1. k \in Keys /\ k \in OpenKeys
    BY <1>3, OpTypes DEF OpenKeys, IsOpen, OpenSteps
  <2>2. OpenKeys' = OpenKeys \/ OpenKeys' = OpenKeys \ {k}
    BY <1>3, OpenKeysMove
  <2> HIDE DEF k
  <2>3. k \in Unsettled /\ (Unsettled' = Unsettled \/ Unsettled' = Unsettled \ {k})
    <3>1. CASE k \in ghost'.halfway \cup ghost.overlapped
      BY <1>u, <1>3, <2>1, <2>2, <3>1 DEF k
    <3>2. CASE k \notin ghost'.halfway \cup ghost.overlapped
      BY <1>u, <1>3, <2>1, <2>2, <3>2 DEF k
    <3>3. QED
      BY <3>1, <3>2
  <2>4. QED
    BY <1>d, <1>3, <2>1, <2>3, KvStutter, KvSettle
<1>4. CASE AppendFails(p) \/ OperationFails(p)
  <2>1. /\ pc[p] \in {"plan", "append", "apply"} /\ UNCHANGED store
        /\ pc' = [pc EXCEPT ![p] = IF p = Sweeper THEN "examine" ELSE "idle"]
        /\ op' = [op EXCEPT ![p] = None]
    BY <1>4, FailureFacts
  <2>2. /\ ghost'.overlapped = ghost.overlapped
        /\ \/ ghost'.halfway = ghost.halfway
           \/ ghost'.halfway = ghost.halfway \cup {op[p].key}
    BY <1>4, FailureFacts
  <2>3. pc'[p] \in {"examine", "idle"} /\ \A q \in Procs \ {p} : pc'[q] = pc[q] /\ op'[q] = op[q]
    BY <2>1 DEF TypeOK
  <2>4. pc[p] \in OpenSteps /\ pc'[p] \notin OpenSteps
    BY <2>1, <2>3 DEF OpenSteps
  <2>5. QED
    BY <1>3, <2>1, <2>2, <2>3, <2>4
<1>5. CASE PublishChange(p)
  <2>1. /\ pc[p] \in OpenSteps /\ pc'[p] \notin OpenSteps
        /\ \A q \in Procs \ {p} : pc'[q] = pc[q] /\ op'[q] = op[q]
        /\ UNCHANGED <<store, ghost>>
    BY <1>5 DEF PublishChange, Goto, TypeOK, OpenSteps
  <2>2. QED
    BY <1>3, <2>1
<1>6. CASE RotateCheck(p) \/ FlushStorage(p) \/ RotateWal(p)
  <2>1. pc[p] \in {"rotate_check", "flush", "rotate"} /\ UNCHANGED store
    BY <1>6 DEF RotateCheck, FlushStorage, RotateWal
  <2>2. ghost'.overlapped = ghost.overlapped /\ ghost'.halfway = ghost.halfway
    <3>1. UNCHANGED ghost \/ ghost' = [ghost EXCEPT !.unsynced = {}]
      BY <1>6 DEF RotateCheck, FlushStorage, RotateWal
    <3>2. QED
      BY <3>1 DEF TypeOK, Ghosts
  <2>3. /\ pc'[p] \in {"idle", "examine", "flush", "rotate"}
        /\ \A q \in Procs \ {p} : pc'[q] = pc[q] /\ op'[q] = op[q]
    BY <1>6, ReturnFacts DEF RotateCheck, FlushStorage, RotateWal, Goto, TypeOK
  <2>4. OpenKeys' = OpenKeys
    BY <2>1, <2>3, OpenKeysMove DEF OpenSteps
  <2>5. QED
    BY <1>d, <1>u, <2>1, <2>2, <2>4, KvStutter
<1>7. QED
  BY <1>1, <1>2, <1>4, <1>5, <1>6 DEF WriteStep

\* Beginning an operation is one too.
LEMMA KvOpen ==
  ASSUME TypeOK, NEW p \in Procs, node = "up", UNCHANGED <<node, store>>,
         pc[p] \notin OpenSteps, pc'[p] \in OpenSteps, op'[p].key \in Keys,
         \A q \in Procs \ {p} : pc'[q] = pc[q] /\ op'[q] = op[q],
         ghost'.halfway = ghost.halfway,
         \/ ghost'.overlapped = ghost.overlapped
         \/ ghost'.overlapped = ghost.overlapped \cup {op'[p].key}
  PROVE  Kv!Next
<1>1. OpenKeys' = OpenKeys \cup {op'[p].key}
  BY OpenKeysMove
<1>2. PICK k \in Keys : k = op'[p].key
  OBVIOUS
<1>3. UNCHANGED Dict /\ Unsettled' = Unsettled \cup {k}
  BY <1>1, <1>2 DEF Dict, Unsettled
<1>4. QED
  BY <1>3, KvBegin

\* The sweeper begins an eviction, or does nothing a client can tell.
LEMMA KvSweeper ==
  ASSUME TypeOK, WriterInv, SweeperStep
  PROVE  [Kv!Next]_(Kv!vars)
<1> Sweeper \in Procs
  OBVIOUS
<1>1. /\ node = "up" /\ UNCHANGED <<node, store>> /\ ghost'.halfway = ghost.halfway
      /\ \A q \in Procs \ {Sweeper} : pc'[q] = pc[q] /\ op'[q] = op[q]
  BY SweeperMoves
<1>2. CASE /\ pc[Sweeper] = "examine" /\ pc'[Sweeper] = "plan"
           /\ op'[Sweeper].key \in Keys
           /\ \/ ghost'.overlapped = ghost.overlapped
              \/ ghost'.overlapped = ghost.overlapped \cup {op'[Sweeper].key}
  <2>1. pc[Sweeper] \notin OpenSteps /\ pc'[Sweeper] \in OpenSteps
    BY <1>2 DEF OpenSteps
  <2>2. QED
    BY <1>1, <1>2, <2>1, KvOpen
<1>3. CASE ~(pc[Sweeper] = "examine" /\ pc'[Sweeper] = "plan")
  <2>1. OpenKeys' = OpenKeys /\ ghost'.overlapped = ghost.overlapped
    BY <1>1, <1>3, SweeperMoves, OpenKeysMove DEF OpenSteps
  <2>2. UNCHANGED <<Dict, Unsettled>>
    BY <1>1, <2>1 DEF Dict, Unsettled
  <2>3. QED
    BY <2>2, KvStutter
<1>4. QED
  BY <1>2, <1>3, SweeperMoves

\* A crash changes nothing that was promised, start-up replays it, and the
\* node that comes up serves it.
LEMMA KvBoot ==
  ASSUME TypeOK, TypeOK', WriterInv, LogInv, BootStep \/ Crash \/ Tick
  PROVE  [Kv!Next]_(Kv!vars)
<1>1. CASE OpenStorageAndWal \/ Replay \/ ReplayDone \/ BootFlush \/ BootRotate
  <2>1. node # "up" /\ node' # "up" /\ UNCHANGED ghost
    BY <1>1 DEF OpenStorageAndWal, Replay, ReplayDone, BootFlush, BootRotate
  <2>2. UNCHANGED <<Dict, Unsettled>>
    BY <2>1 DEF Dict, Unsettled
  <2>3. QED
    BY <2>2, KvStutter
<1>2. CASE Bootstrap
  <2>1. node = "bootstrap" /\ node' = "up" /\ UNCHANGED <<store, pc>> /\ ghost' = QuietGhost
    BY <1>2 DEF Bootstrap
  <2>2. Dict = ghost.live /\ Dict' = store /\ Unsettled = ghost.unsure
    BY <2>1 DEF Dict, Unsettled
  <2>3. Unsettled' = {}
    <3>1. \A p \in Procs : pc'[p] = "idle"
      BY <2>1 DEF WriterInv, Resting
    <3>2. OpenKeys' = {}
      BY <3>1 DEF OpenKeys, IsOpen, OpenSteps
    <3>3. QED
      BY <2>1, <3>2 DEF Unsettled, QuietGhost
  <2>4. \A k \in Keys \ Unsettled : Dict'[k] = Dict[k]
    BY <2>1, <2>2, Restored
  <2>5. Dict' \in [Keys -> Slots]
    BY <2>2 DEF TypeOK
  <2>6. QED
    BY <2>3, <2>4, <2>5, KvRestart
<1>3. CASE Crash
  <2>1. CASE node = "up"
    <3>1. node' = "down"
          /\ ghost' = [QuietGhost EXCEPT
                        !.unsure = OpenKeys \cup ghost.overlapped \cup ghost.halfway,
                        !.live = store]
      BY <1>3, <2>1 DEF Crash
    <3>2. /\ ghost'.unsure = OpenKeys \cup ghost.overlapped \cup ghost.halfway
          /\ ghost'.live = store
      BY <3>1 DEF QuietGhost
    <3>3. UNCHANGED <<Dict, Unsettled>>
      BY <2>1, <3>1, <3>2 DEF Dict, Unsettled
    <3>4. QED
      BY <3>3, KvStutter
  <2>2. CASE node # "up"
    <3>1. UNCHANGED <<Dict, Unsettled>>
      BY <1>3, <2>2 DEF Crash, Dict, Unsettled
    <3>2. QED
      BY <3>1, KvStutter
  <2>3. QED
    BY <2>1, <2>2
<1>4. CASE Tick
  <2>1. UNCHANGED <<Dict, Unsettled>>
    BY <1>4 DEF Tick, Dict, Unsettled, OpenKeys, IsOpen
  <2>2. QED
    BY <2>1, KvStutter
<1>5. QED
  BY <1>1, <1>2, <1>3, <1>4 DEF BootStep

LEMMA KvNext ==
  ASSUME TypeOK, TypeOK', WriterInv, LogInv, [Next]_vars
  PROVE  [Kv!Next]_(Kv!vars)
<1>1. ASSUME NEW c \in Clients, ClientStep(c)
      PROVE  Kv!Next
  <2>1. c \in Procs
    OBVIOUS
  <2>2. pc[c] \notin OpenSteps /\ pc'[c] \in OpenSteps
    BY <1>1, ClientMoves DEF OpenSteps
  <2>3. QED
    BY <1>1, <2>1, <2>2, ClientMoves, KvOpen
<1>2. CASE UNCHANGED vars
  <2>1. UNCHANGED <<Dict, Unsettled>>
    BY <1>2 DEF vars, Dict, Unsettled, OpenKeys, IsOpen
  <2>2. QED
    BY <2>1, KvStutter
<1>3. QED
  BY <1>1, <1>2, KvWrite, KvSweeper, KvBoot DEF Next

\* The node implements the map of KvStore: what clients were served before a
\* crash they are served after it, wherever the crash and any crash during
\* start-up fell, but for the keys with an operation open, overlapped, or
\* failed between its log record and storage.
THEOREM ServesKvStore == Spec => ImplementsKvStore
<1>1. Init => Kv!Init
  BY DEF Init, Kv!Init, EmptyMap, QuietGhost
<1>2. TypeOK /\ TypeOK' /\ WriterInv /\ LogInv /\ [Next]_vars => LogInv'
  BY LogNext
<1>3. TypeOK /\ TypeOK' /\ WriterInv /\ LogInv /\ [Next]_vars => [Kv!Next]_(Kv!vars)
  BY KvNext
<1>4. QED
  BY <1>1, <1>2, <1>3, LogInit, WriterAlways, PTL DEF Spec, ImplementsKvStore, Kv!Spec
=============================================================================
