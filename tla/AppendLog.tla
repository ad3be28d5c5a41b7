------------------------------ MODULE AppendLog ------------------------------
(***************************************************************************)
(* What the write-ahead log promises to the node that uses it: records come *)
(* back in the order they were appended, a record is never lost by a mere   *)
(* crash of the process, and a loss of power costs at most a suffix of what *)
(* was appended since the log was last forced to disk.  An I/O error may    *)
(* damage the log: what it held stays, and it takes in nothing more until   *)
(* it is opened again or dropped.                                           *)
(***************************************************************************)
EXTENDS Naturals, Sequences, SequencesExt

CONSTANT Recs        \* the records

VARIABLES
  log,       \* the records the log would hand back if it were opened now
  durable,   \* the records that were in it when it was last forced to disk
  answered,  \* the records whose append was acknowledged, since the last Drop
  damaged    \* records appended now would not be handed back

vars == <<log, durable, answered, damaged>>

Init == log = <<>> /\ durable = <<>> /\ answered = {} /\ damaged = FALSE

\* The log grows by records whose append was answered with an error, or not
\* at all, followed by `last`.
Grows(last) ==
  LET leaked == Len(log') - Len(last) IN
  /\ leaked >= Len(log)
  /\ IsPrefix(log, log')
  /\ SubSeq(log', leaked + 1, Len(log')) = last
  /\ \A i \in Len(log) + 1 .. leaked : log'[i] \in Recs \ answered
  /\ damaged => log' = log

\* A record is acknowledged by the step that puts it at the end of the log;
\* a damaged log acknowledges it too.
AppendRec(r) ==
  /\ IF damaged THEN log' = log ELSE Grows(<<r>>)
  /\ answered' = answered \cup {r}
  /\ UNCHANGED <<durable, damaged>>

\* An append fails or is cut short by the death of the process: its record,
\* or an earlier one of its kind, may be there, and the log may be damaged.
AppendFails ==
  /\ Grows(<<>>)
  /\ damaged => damaged'
  /\ UNCHANGED <<durable, answered>>

Force ==
  /\ Grows(<<>>)
  /\ durable' = log'
  /\ UNCHANGED <<answered, damaged>>

\* Forget every record; a loss of power may still bring them back until the
\* log is forced.
Drop ==
  /\ log' = <<>>
  /\ answered' = {}
  /\ UNCHANGED <<durable, damaged>>

\* Opened again, or dropped for good: it takes in records again.
Mend ==
  /\ ~damaged'
  /\ durable' \in {durable, log}
  /\ UNCHANGED <<log, answered>>

\* The dropped log cannot be used again.
DropFails ==
  /\ log = <<>>
  /\ damaged'
  /\ UNCHANGED <<log, durable, answered>>

PowerLoss ==
  /\ \/ /\ log' \in Prefixes(log)
        /\ IsPrefix(durable, log) => IsPrefix(durable, log')
     \/ ~IsPrefix(durable, log) /\ log' \in {durable, <<>>}
  /\ durable' = log'
  /\ UNCHANGED <<answered, damaged>>

Next ==
  \/ \E r \in Recs : AppendRec(r)
  \/ AppendFails
  \/ Force
  \/ Drop
  \/ Mend
  \/ DropFails
  \/ PowerLoss

Spec == Init /\ [][Next]_vars
=============================================================================
