--------------------------------- MODULE Wal ---------------------------------
(***************************************************************************)
(* The write-ahead log (ferriskv-node, wal.rs): one segment file behind a   *)
(* mutex and a BufWriter.  The mutex is held for the whole of append, sync  *)
(* and rotate, so the only thing that can fall between two of their system  *)
(* calls is the death of the process, a loss of power, or an I/O error.     *)
(*                                                                          *)
(* Abstracted: a frame is its sequence number and the number of the attempt *)
(* that produced it (which stands for op, key and value); a frame whose     *)
(* bytes are incomplete is Torn; the header is its base_seq, and one whose  *)
(* bytes are incomplete is no header and a Torn.  An open that fails before *)
(* it has written anything is no step.                                      *)
(***************************************************************************)
EXTENDS Naturals, Sequences, FiniteSets, SequencesExt

CONSTANTS
  MaxAppends,    \* bound on the appends attempted
  MaxErrors,     \* bound on the I/O errors
  MaxCrashes,    \* bound on the process crashes
  MaxOutages,    \* bound on the losses of power
  StrayBases,    \* base_seq read where a frame ends a header cut short
  Torn,          \* the bytes of an incomplete frame
  NoHeader       \* the file does not start with a header

ASSUME BoundsAssumption ==
  {MaxAppends, MaxErrors, MaxCrashes, MaxOutages} \cup StrayBases \subseteq Nat

VARIABLES
  proc,           \* "down", inside open ("created"), "up", inside rotate
                  \* ("truncated", "headed"), or "refused": open found no
                  \* header and the node does not start
  file,           \* the segment as the operating system holds it
  disk,           \* the segment as it was when last forced to disk
  loose,          \* the file was emptied or created since: an outage may
                  \* leave any part of it, or the one on disk
  buf,            \* whole frames the BufWriter still has to write
  half,           \* the first of buf is partly in the file already
  next_seq,
  segment_bytes,  \* size of the segment, in frames beyond the header
  budget,         \* what is left of the bounds
  cut_off,        \* a crash, an outage or an error came between emptying or
                  \* creating the segment and forcing its header to disk,
                  \* and that was not done since
  sound,          \* no error has damaged the segment since it was opened
  acked,          \* attempts acknowledged since the segment was last emptied
  owed            \* those of them that a reopened log has to hand back

\* cut_off, sound, acked and owed are observations for the properties.
observed == <<cut_off, sound, acked, owed>>

vars == <<proc, file, disk, loose, buf, half, next_seq, segment_bytes, budget, cut_off,
          sound, acked, owed>>

Attempts == 1..MaxAppends
Frames == [seq : Nat, id : Attempts]
Segments == [base : Nat \cup {NoHeader}, frames : Seq(Frames \cup {Torn})]

ASSUME MarkersAssumption == Torn \notin Frames /\ NoHeader \notin Nat

TypeOK ==
  /\ proc \in {"down", "created", "up", "truncated", "headed", "refused"}
  /\ file \in Segments
  /\ disk \in Segments
  /\ loose \in BOOLEAN
  /\ buf \in Seq(Frames)
  /\ half \in BOOLEAN
  /\ half => buf # <<>>
  /\ next_seq \in Nat
  /\ segment_bytes \in Nat
  /\ budget \in [appends : 0..MaxAppends, errors : Nat, crashes : Nat,
                 outages : Nat]
  /\ cut_off \in BOOLEAN
  /\ sound \in BOOLEAN
  /\ acked \in SUBSET Attempts
  /\ owed \in SUBSET acked

Max2(a, b) == IF a >= b THEN a ELSE b

EmptyFile == [base |-> NoHeader, frames |-> <<>>]

\* The write_all of the header stopped short.
TornHeader == [base |-> NoHeader, frames |-> <<Torn>>]

(* Mutant: a fresh segment is created without its header. *)
HeaderlessSegment(base_seq) == EmptyFile

FreshSegment(base_seq) == [base |-> base_seq, frames |-> <<>>]
Extend(segment, frames) == [segment EXCEPT !.frames = @ \o frames]

\* parse_frames: the frames in front of the first one that does not parse.
ParseFrames(frames) ==
  LET good == {n \in 0..Len(frames) : \A i \in 1..n : frames[i] # Torn}
      last == CHOOSE n \in good : \A m \in good : m <= n
  IN SubSeq(frames, 1, last)

\* What opening the segment yields: a file without a header yields nothing.
Recoverable(segment) ==
  IF segment.base = NoHeader THEN <<>> ELSE ParseFrames(segment.frames)

Ids(frames) == {frames[i].id : i \in 1..Len(frames)}

Spend(what) ==
  /\ budget[what] > 0
  /\ budget' = [budget EXCEPT ![what] = @ - 1]

\* Between emptying or creating the segment and forcing its header to disk.
InHeader == proc \in {"created", "truncated", "headed"}
Interrupted == cut_off' = IF InHeader THEN TRUE ELSE cut_off

Init ==
  /\ proc = "down"
  /\ file = EmptyFile
  /\ disk = EmptyFile
  /\ loose = FALSE
  /\ buf = <<>>
  /\ half = FALSE
  /\ next_seq = 0
  /\ segment_bytes = 0
  /\ budget = [appends |-> MaxAppends, errors |-> MaxErrors,
               crashes |-> MaxCrashes, outages |-> MaxOutages]
  /\ cut_off = FALSE
  /\ sound = TRUE
  /\ acked = {}
  /\ owed = {}

-----------------------------------------------------------------------------
(* Wal::open *)

\* An empty segment: write the header, force it to disk, go on from 0.
OpenNew ==
  /\ proc = "down"
  /\ file = EmptyFile
  /\ file' = FreshSegment(0)
  /\ loose' = TRUE
  /\ proc' = "created"
  /\ UNCHANGED <<disk, buf, half, next_seq, segment_bytes, budget, observed>>

OpenSync ==
  /\ proc = "created"
  /\ disk' = file
  /\ loose' = FALSE
  /\ next_seq' = 0
  /\ segment_bytes' = 0
  /\ proc' = "up"
  /\ cut_off' = FALSE
  /\ sound' = TRUE
  /\ UNCHANGED <<file, buf, half, budget, acked, owed>>

\* The write, partly done, or the sync fails: the node does not start, this time.
OpenFails ==
  /\ Spend("errors")
  /\ \/ proc = "down" /\ file = EmptyFile /\ file' = TornHeader
     \/ proc = "created" /\ UNCHANGED file
  /\ loose' = TRUE
  /\ proc' = "down"
  /\ cut_off' = TRUE
  /\ UNCHANGED <<disk, buf, half, next_seq, segment_bytes, sound, acked, owed>>

(* Mutant: opening ignores the records the segment still holds. *)
NextSeqIsBase(records, base_seq) == base_seq

\* The sequence after the last record, or where the header says to start.
NextSeq(records, base_seq) ==
  IF records = <<>> THEN base_seq ELSE Max2(Last(records).seq + 1, base_seq)

(* Mutant: the torn tail is left in the file. *)
LeaveTornTail(records) == file

\* set_len: the torn tail goes, and the file is forced to disk.
TruncateTo(records) == [file EXCEPT !.frames = records]

OpenExisting ==
  LET records == ParseFrames(file.frames) IN
  /\ proc = "down"
  /\ file.base # NoHeader
  /\ file' = TruncateTo(records)
  /\ IF records # file.frames
     THEN disk' = file' /\ loose' = FALSE
     ELSE UNCHANGED <<disk, loose>>
  /\ next_seq' = NextSeq(records, file.base)
  /\ segment_bytes' = Len(records)
  /\ proc' = "up"
  /\ sound' = TRUE
  /\ UNCHANGED <<buf, half, budget, cut_off, acked, owed>>

\* parse_header fails: "a bad header is fatal".
OpenRefused ==
  /\ proc = "down"
  /\ file.base = NoHeader
  /\ file # EmptyFile
  /\ proc' = "refused"
  /\ UNCHANGED <<file, disk, loose, buf, half, next_seq, segment_bytes, budget, observed>>

\* A header cut short behind its version, with a frame appended to it: the
\* first bytes of the frame are read as the rest of base_seq, and what follows
\* does not parse.
OpenStray ==
  /\ proc = "down"
  /\ file.base = NoHeader
  /\ Len(file.frames) > 1 /\ file.frames[1] = Torn
  /\ \E base_seq \in StrayBases :
       /\ file' = FreshSegment(base_seq)
       /\ next_seq' = base_seq
  /\ disk' = file'
  /\ loose' = FALSE
  /\ segment_bytes' = 0
  /\ proc' = "up"
  /\ sound' = TRUE
  /\ UNCHANGED <<buf, half, budget, cut_off, acked, owed>>

-----------------------------------------------------------------------------
(* Wal::append and Wal::sync *)

\* The attempts number the frames: 1, 2, ...
NewFrame == [seq |-> next_seq, id |-> MaxAppends - budget.appends + 1]

(* Mutant: the append answers from the BufWriter, without the flush. *)
AppendWithoutFlush ==
  /\ proc = "up"
  /\ Spend("appends")
  /\ buf' = Append(buf, NewFrame)
  /\ next_seq' = next_seq + 1
  /\ segment_bytes' = segment_bytes + 1
  /\ acked' = acked \cup {NewFrame.id}
  /\ owed' = IF sound THEN owed \cup {NewFrame.id} ELSE owed
  /\ UNCHANGED <<proc, file, disk, loose, half, cut_off, sound>>

\* write_all and flush succeed: what the buffer held from a failed attempt
\* goes to the file first.  No fsync.
AppendFrame ==
  /\ proc = "up"
  /\ Spend("appends")
  /\ file' = Extend(file, Append(buf, NewFrame))
  /\ buf' = <<>>
  /\ half' = FALSE
  /\ next_seq' = next_seq + 1
  /\ segment_bytes' = segment_bytes + 1
  /\ acked' = acked \cup {NewFrame.id}
  /\ owed' = IF sound THEN owed \cup {NewFrame.id} ELSE owed
  /\ UNCHANGED <<proc, disk, loose, cut_off, sound>>

(* Mutant: a flush that fails forgets what it had left to write. *)
FlushDropsRest(pending) ==
  \E n \in 0..Len(pending) - 1, part \in BOOLEAN :
    /\ file' = Extend(file, SubSeq(pending, 1, n))
    /\ buf' = <<>>
    /\ half' = part

\* The write of `pending` stops short of its end: some whole frames reach the
\* file, perhaps part of the next, and the BufWriter keeps the rest.
PartialFlush(pending) ==
  \E n \in 0..Len(pending) - 1, part \in BOOLEAN :
    /\ n = 0 /\ half => part
    /\ file' = Extend(file, SubSeq(pending, 1, n))
    /\ buf' = SubSeq(pending, n + 1, Len(pending))
    /\ half' = part

\* write_all or flush fails, and `?` leaves next_seq and segment_bytes alone.
\* A frame that fits the BufWriter stays in it; a larger one is written past
\* it, and what was not written is gone.
AppendFails ==
  /\ proc = "up"
  /\ budget.appends > 0 /\ budget.errors > 0
  /\ budget' = [budget EXCEPT !.appends = @ - 1, !.errors = @ - 1]
  /\ \/ PartialFlush(Append(buf, NewFrame)) /\ UNCHANGED sound
     \/ buf # <<>> /\ PartialFlush(buf) /\ UNCHANGED sound
     \/ \E written \in {<<>>, <<Torn>>} :
          /\ file' = Extend(file, buf \o written)
          /\ buf' = <<>>
          /\ half' = FALSE
          /\ sound' = (sound /\ written = <<>>)
  /\ UNCHANGED <<proc, disk, loose, next_seq, segment_bytes, cut_off, acked, owed>>

\* Wal::sync, at shutdown.
SyncData ==
  /\ proc = "up"
  /\ file' = Extend(file, buf)
  /\ buf' = <<>>
  /\ half' = FALSE
  /\ disk' = file'
  /\ loose' = FALSE
  /\ UNCHANGED <<proc, next_seq, segment_bytes, budget, observed>>

-----------------------------------------------------------------------------
(* Wal::rotate *)

\* flush, then open with truncate: the records are gone from the file.
RotateTruncate ==
  /\ proc = "up"
  /\ file' = EmptyFile
  /\ loose' = TRUE
  /\ buf' = <<>>
  /\ half' = FALSE
  /\ acked' = {}
  /\ owed' = {}
  /\ proc' = "truncated"
  /\ UNCHANGED <<disk, next_seq, segment_bytes, budget, cut_off, sound>>

RotateHeader ==
  /\ proc = "truncated"
  /\ file' = FreshSegment(next_seq)
  /\ proc' = "headed"
  /\ UNCHANGED <<disk, loose, buf, half, next_seq, segment_bytes, budget, observed>>

RotateSync ==
  /\ proc = "headed"
  /\ disk' = file
  /\ loose' = FALSE
  /\ segment_bytes' = 0
  /\ proc' = "up"
  /\ cut_off' = FALSE
  /\ sound' = TRUE
  /\ UNCHANGED <<file, buf, half, next_seq, budget, acked, owed>>

\* Any call of rotate fails, the header perhaps partly written.  The writer is
\* still the old appender, which appends to the same, now emptied, file.
RotateFails ==
  /\ Spend("errors")
  /\ \/ /\ proc = "truncated"
        /\ file' \in {EmptyFile, TornHeader}
        /\ proc' = "up"
        /\ sound' = FALSE
        /\ UNCHANGED <<buf, half>>
     \/ /\ proc = "headed"
        /\ proc' = "up"
        /\ sound' = TRUE
        /\ UNCHANGED <<file, buf, half>>
     \/ /\ proc = "up" /\ buf # <<>>
        /\ PartialFlush(buf)
        /\ UNCHANGED <<proc, sound>>
  /\ Interrupted
  /\ UNCHANGED <<disk, loose, next_seq, segment_bytes, acked, owed>>

-----------------------------------------------------------------------------
(* Crashes and outages *)

Running == proc \in {"created", "up", "truncated", "headed"}

Partial == IF half THEN <<Torn>> ELSE <<>>

Crash ==
  /\ Running
  /\ Spend("crashes")
  /\ file' = Extend(file, Partial)
  /\ buf' = <<>>
  /\ half' = FALSE
  /\ proc' = "down"
  /\ Interrupted
  /\ UNCHANGED <<disk, loose, next_seq, segment_bytes, sound, acked, owed>>

\* The process dies inside the write_all of the header, in open or in rotate.
CrashInHeader ==
  /\ proc = "truncated" \/ (proc = "down" /\ file = EmptyFile)
  /\ Spend("crashes")
  /\ file' = TornHeader
  /\ loose' = TRUE
  /\ proc' = "down"
  /\ cut_off' = TRUE
  /\ UNCHANGED <<disk, buf, half, next_seq, segment_bytes, sound, acked, owed>>

\* The process dies inside the write_all of an append that is never answered.
CrashInAppend ==
  /\ proc = "up"
  /\ budget.appends > 0 /\ budget.crashes > 0
  /\ budget' = [budget EXCEPT !.appends = @ - 1, !.crashes = @ - 1]
  /\ \E written \in {Torn, NewFrame} : file' = Extend(file, Append(buf, written))
  /\ buf' = <<>>
  /\ half' = FALSE
  /\ proc' = "down"
  /\ UNCHANGED <<disk, loose, next_seq, segment_bytes, observed>>

\* The front parts of a file, with the frame they end in cut short or not.
CutShort(segment) ==
  LET cut(n) == SubSeq(segment.frames, 1, n) IN
  {[segment EXCEPT !.frames = cut(n)] : n \in 0..Len(segment.frames)}
    \cup {[segment EXCEPT !.frames = Append(cut(n), Torn)] :
            n \in 0..Len(segment.frames) - 1}

\* What an outage can leave of the file: a front part that has what was forced
\* to disk; or of a file emptied since then any part, its header included, or
\* what it was before.
Images ==
  IF loose
  THEN CutShort(file) \cup {disk, EmptyFile, TornHeader}
  ELSE {s \in CutShort(file) : IsPrefix(disk.frames, s.frames)}

PowerLoss ==
  /\ proc # "refused"
  /\ Spend("outages")
  /\ file' \in Images
  /\ disk' = file'
  /\ loose' = FALSE
  /\ buf' = <<>>
  /\ half' = FALSE
  /\ proc' = "down"
  /\ Interrupted
  /\ owed' = owed \cap Ids(Recoverable(disk))
  /\ UNCHANGED <<next_seq, segment_bytes, sound, acked>>

Next ==
  \/ OpenNew
  \/ OpenSync
  \/ OpenFails
  \/ OpenExisting
  \/ OpenRefused
  \/ OpenStray
  \/ AppendFrame
  \/ AppendFails
  \/ SyncData
  \/ RotateTruncate
  \/ RotateHeader
  \/ RotateSync
  \/ RotateFails
  \/ Crash
  \/ CrashInHeader
  \/ CrashInAppend
  \/ PowerLoss

Spec == Init /\ [][Next]_vars

-----------------------------------------------------------------------------
(* Properties *)

\* Whatever happened to the file, opening it now would hand back every record
\* it owes: acknowledged while no error had damaged the segment under the
\* running process, not dropped by a rotation, and, after an outage, forced to
\* disk before it.
OwedRecoverable == owed \subseteq Ids(Recoverable(file))

\* Records come back in the order they were written, under sequence numbers
\* that never go down, and two of them share one only if the first was a
\* failed append whose frame stayed in the BufWriter.
LogOrdered ==
  LET records == Recoverable(file) IN
  \A i, j \in 1..Len(records) : i < j =>
    /\ records[i].id < records[j].id
    /\ records[i].seq <= records[j].seq
    /\ records[i].seq = records[j].seq => records[i].id \notin acked

\* service.rs:152-155, on a rotation that fails: "The cost of staying quiet is
\* a segment that keeps growing".  The segment a running node appends to is one
\* that the next start accepts.
RunningSegmentOpens == proc = "up" => file.base # NoHeader \/ file = EmptyFile

\* wal.rs:246: a start is refused, for want of a header, only if something came
\* between emptying or creating the segment and forcing the header to disk
\* (wal.rs:235-236, 333-339), and no such window has closed well since.  No
\* failure, crash or outage at any other point of an append, a sync, a start or
\* a rotation makes the node unable to start.
RefusedOnlyAfterCutOff == proc = "refused" => cut_off

\* The log keeps the promise the node relies on (AppendLog), through crashes
\* at any point of an append or a rotation, losses of power, and failed
\* appends and rotations.
RecIds(segment) ==
  LET frames == Recoverable(segment)
  IN [i \in 1..Len(frames) |-> frames[i].id]
Log == INSTANCE AppendLog WITH
         Recs <- Attempts, log <- RecIds(file), durable <- RecIds(disk),
         answered <- acked, damaged <- ~sound
ImplementsAppendLog == Log!Spec
=============================================================================
