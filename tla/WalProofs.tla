------------------------------- MODULE WalProofs -------------------------------
(***************************************************************************)
(* Proofs about Wal, for any number of appends, I/O errors, crashes and     *)
(* outages.                                                                 *)
(*                                                                          *)
(* The properties speak of what the file would yield.  What keeps them true *)
(* is said of the file and the BufWriter together: while no error has       *)
(* damaged the segment, its frames and those still in the buffer form one   *)
(* line that the next frame continues (LineGood, Continuable), so that it   *)
(* makes no difference how much of it a failing flush gets written.  A      *)
(* damaged segment yields the same whatever is written behind it (LineBad). *)
(* For outages, what was forced to disk is the front of the file, or the    *)
(* file was emptied since, and then it shares no record with it (OnDisk).   *)
(* For the header, a file that lacks it but is not empty, and one that was  *)
(* emptied and not forced to disk outside of open and rotate, are the trace *)
(* of a header cut off (HeadKept).                                          *)
(***************************************************************************)
EXTENDS Wal, ProofFacts, SequenceTheorems

-----------------------------------------------------------------------------
(* Parsing a segment *)

Chunks == Frames \cup {Torn}

\* n frames of f are whole, and what follows them is not.
Cut(f, n) ==
  /\ n \in 0..Len(f)
  /\ \A i \in 1..n : f[i] # Torn
  /\ n < Len(f) => f[n + 1] = Torn

\* g begins with all of f.
Continues(f, g) == Len(f) <= Len(g) /\ \A i \in 1..Len(f) : g[i] = f[i]

\* Every file has such a place.
LEMMA CutExists ==
  ASSUME NEW f \in Seq(Chunks)
  PROVE  \E n : Cut(f, n)
<1> Len(f) \in Nat
  BY LenProperties
<1> DEFINE S == {i \in 1..Len(f) : f[i] = Torn}
<1>1. CASE S = {}
  BY <1>1 DEF Cut
<1>2. CASE S # {}
  <2>1. S \in SUBSET Nat
    OBVIOUS
  <2>2. PICK m \in S : \A i \in S : m <= i
    <3> HIDE DEF S
    <3> QED BY <1>2, <2>1, LeastNumber
  <2>3. Cut(f, m - 1)
    BY <2>2 DEF Cut
  <2>4. QED
    BY <2>3
<1>3. QED
  BY <1>1, <1>2

\* parse_frames hands back exactly the frames before it.
LEMMA ParseCut ==
  ASSUME NEW f \in Seq(Chunks), NEW n, Cut(f, n)
  PROVE  /\ ParseFrames(f) = SubSeq(f, 1, n)
         /\ ParseFrames(f) \in Seq(Frames)
         /\ Len(ParseFrames(f)) = n
         /\ \A i \in 1..n : ParseFrames(f)[i] = f[i]
<1> Len(f) \in Nat
  BY LenProperties
<1>0. n \in 0..Len(f) /\ (\A i \in 1..n : f[i] # Torn) /\ (n < Len(f) => f[n + 1] = Torn)
  BY DEF Cut
<1> DEFINE good == {m \in 0..Len(f) : \A i \in 1..m : f[i] # Torn}
           last == CHOOSE m \in good : \A x \in good : x <= m
<1>1. n \in good /\ \A m \in good : m <= n
  <2>1. SUFFICES ASSUME NEW m \in good PROVE m <= n
    BY <1>0
  <2>2. QED
    BY <1>0
<1>2. last = n
  <2>1. last \in good /\ \A m \in good : m <= last
    <3> HIDE DEF good
    <3> QED BY <1>1, Zenon
  <2>2. \A m \in good : m \in Nat
    OBVIOUS
  <2> HIDE DEF last, good
  <2>3. QED
    BY <1>1, <2>1, <2>2
<1>3. ParseFrames(f) = SubSeq(f, 1, n)
  BY <1>2 DEF ParseFrames
<1>4. \A i \in 1..n : f[i] \in Frames
  BY <1>0, ElementOfSeq DEF Chunks
<1>5. /\ SubSeq(f, 1, n) \in Seq(Frames) /\ Len(SubSeq(f, 1, n)) = n
      /\ \A i \in 1..n : SubSeq(f, 1, n)[i] = f[i]
  <2>1. n \in Int /\ 1 \in Int /\ n - 1 + 1 = n
    BY <1>0
  <2>2. /\ SubSeq(f, 1, n) \in Seq(Frames)
        /\ Len(SubSeq(f, 1, n)) = IF 1 <= n THEN n - 1 + 1 ELSE 0
        /\ \A i \in 1..n-1+1 : SubSeq(f, 1, n)[i] = f[1 + i - 1]
    BY <1>4, <2>1, SubSeqProperties
  <2>3. QED
    BY <1>0, <2>1, <2>2
<1>6. QED
  BY <1>3, <1>5

\* A file that is whole is handed back whole.
LEMMA ParseWhole ==
  ASSUME NEW f \in Seq(Frames)
  PROVE  ParseFrames(f) = f
<1>1. f \in Seq(Chunks) /\ Len(f) \in Nat
  BY SeqMonotonic, LenProperties DEF Chunks
<1>2. Cut(f, Len(f))
  BY <1>1, ElementOfSeq, MarkersAssumption DEF Cut, MarkersAssumption
<1>3. QED
  BY <1>1, <1>2, ParseCut, SubSeqFull

\* What is written behind a segment takes nothing away from what it yields,
\* and adds nothing if the segment was torn.
LEMMA ParseGrows ==
  ASSUME NEW f \in Seq(Chunks), NEW g \in Seq(Chunks), Continues(f, g)
  PROVE  /\ Continues(ParseFrames(f), ParseFrames(g))
         /\ (\E i \in 1..Len(f) : f[i] = Torn) => ParseFrames(g) = ParseFrames(f)
<1>1. PICK n, m : Cut(f, n) /\ Cut(g, m)
  BY CutExists
<1>2. /\ Len(f) \in Nat /\ Len(g) \in Nat /\ n \in 0..Len(f) /\ m \in 0..Len(g)
  BY <1>1, LenProperties DEF Cut
<1>3. n <= m /\ (n < Len(f) => m = n)
  <2>1. n <= m
    <3>1. SUFFICES ASSUME m < n PROVE FALSE
      BY <1>2
    <3>2. m + 1 \in 1..n /\ m < Len(g) /\ m + 1 \in 1..Len(f)
      BY <1>2, <3>1 DEF Continues
    <3>3. QED
      BY <1>1, <3>2 DEF Cut, Continues
  <2>2. ASSUME n < Len(f), n < m PROVE FALSE
    <3>1. n + 1 \in 1..m /\ n + 1 \in 1..Len(f)
      BY <1>2, <2>2
    <3>2. QED
      BY <1>1, <2>2, <3>1 DEF Cut, Continues
  <2>3. QED
    BY <1>2, <2>1, <2>2
<1>4. /\ Len(ParseFrames(f)) = n /\ \A i \in 1..n : ParseFrames(f)[i] = f[i]
      /\ Len(ParseFrames(g)) = m /\ \A i \in 1..m : ParseFrames(g)[i] = g[i]
      /\ ParseFrames(f) \in Seq(Frames) /\ ParseFrames(g) \in Seq(Frames)
  BY <1>1, ParseCut
<1>5. Continues(ParseFrames(f), ParseFrames(g))
  BY <1>2, <1>3, <1>4 DEF Continues
<1>6. ASSUME \E i \in 1..Len(f) : f[i] = Torn
      PROVE  ParseFrames(g) = ParseFrames(f)
  <2>1. m = n
    BY <1>1, <1>2, <1>3, <1>6 DEF Cut
  <2>2. \A i \in 1..n : ParseFrames(g)[i] = ParseFrames(f)[i]
    BY <1>2, <1>4, <2>1 DEF Continues
  <2>3. QED
    BY <1>4, <2>1, <2>2, SeqEqual
<1>7. QED
  BY <1>5, <1>6

-----------------------------------------------------------------------------
(* What opening a segment yields *)

\* A segment that records written now would be lost on.
Damaged(s) == s.base = NoHeader \/ \E i \in 1..Len(s.frames) : s.frames[i] = Torn

\* The attempts in a file, behind a torn frame too.
AllIds(frames) == {frames[i].id : i \in {j \in 1..Len(frames) : frames[j] # Torn}}

LEMMA RecoverableType ==
  ASSUME NEW s \in Segments
  PROVE  /\ Recoverable(s) \in Seq(Frames)
         /\ Continues(Recoverable(s), s.frames)
         /\ Len(Recoverable(s)) \in Nat
         /\ \A i \in 1..Len(Recoverable(s)) :
              Recoverable(s)[i] \in Frames /\ Recoverable(s)[i].id \in AllIds(s.frames)
<1>1. s.frames \in Seq(Chunks)
  BY DEF Segments, Chunks
<1>2. PICK n : Cut(s.frames, n)
  BY <1>1, CutExists
<1>3. n \in 0..Len(s.frames) /\ Len(s.frames) \in Nat /\ \A i \in 1..n : s.frames[i] # Torn
  BY <1>1, <1>2, LenProperties DEF Cut
<1>4. CASE s.base = NoHeader
  <2>1. Recoverable(s) = <<>>
    BY <1>4 DEF Recoverable
  <2>2. QED
    BY <1>3, <2>1 DEF Continues
<1>5. CASE s.base # NoHeader
  <2>1. Recoverable(s) = ParseFrames(s.frames)
    BY <1>5 DEF Recoverable
  <2>2. /\ ParseFrames(s.frames) \in Seq(Frames) /\ Len(ParseFrames(s.frames)) = n
        /\ \A i \in 1..n : ParseFrames(s.frames)[i] = s.frames[i]
    BY <1>1, <1>2, ParseCut
  <2>3. \A i \in 1..n : s.frames[i].id \in AllIds(s.frames)
    BY <1>3 DEF AllIds
  <2>4. \A i \in 1..n : ParseFrames(s.frames)[i] \in Frames
    BY <2>2, ElementOfSeq
  <2>5. QED
    BY <1>3, <2>1, <2>2, <2>3, <2>4 DEF Continues
<1>6. QED
  BY <1>4, <1>5

LEMMA RecoverableGrows ==
  ASSUME NEW s \in Segments, NEW t \in Segments, s.base = t.base,
         Continues(s.frames, t.frames)
  PROVE  /\ Continues(Recoverable(s), Recoverable(t))
         /\ Damaged(s) => Recoverable(t) = Recoverable(s)
<1>1. s.frames \in Seq(Chunks) /\ t.frames \in Seq(Chunks)
  BY DEF Segments, Chunks
<1>2. CASE s.base = NoHeader
  BY <1>2 DEF Recoverable, Continues
<1>3. CASE s.base # NoHeader
  BY <1>1, <1>3, ParseGrows DEF Recoverable, Damaged
<1>4. QED
  BY <1>2, <1>3

LEMMA RecoverableWhole ==
  ASSUME NEW s, s.base \in Nat, s.frames \in Seq(Frames)
  PROVE  Recoverable(s) = s.frames
BY ParseWhole, MarkersAssumption DEF Recoverable, MarkersAssumption

\* The attempts that a longer list holds.
LEMMA IdsGrow ==
  ASSUME NEW r, NEW t, Len(r) \in Nat, Len(t) \in Nat, Continues(r, t)
  PROVE  Ids(r) \subseteq Ids(t)
BY DEF Ids, Continues

-----------------------------------------------------------------------------
(* The inductive invariant *)

\* What is written and what the BufWriter still has to write, in one line.
Line == file.frames \o buf

\* How many attempts there were: they are numbered 1, 2, ..., Spent.
Spent == MaxAppends - budget.appends

\* In the order they were written, as LogOrdered says of the file.
InOrder(records, answered) ==
  \A i, j \in 1..Len(records) : i < j =>
    /\ records[i].id < records[j].id
    /\ records[i].seq <= records[j].seq
    /\ records[i].seq = records[j].seq => records[i].id \notin answered

\* The next frame, numbered next, continues the line: a frame that failed may
\* share its number, an answered one may not, and is among the first len.
Continuable(line, len, answered, next) ==
  /\ InOrder(line, answered)
  /\ \A i \in 1..Len(line) :
       /\ line[i].seq <= next
       /\ line[i].id \in answered => line[i].seq < next /\ i <= len

\* No frame anywhere is numbered beyond the attempts made.
Numbered ==
  /\ AllIds(file.frames) \cup AllIds(disk.frames) \cup Ids(buf) \subseteq 1..Spent
  /\ acked \subseteq 1..Spent

\* Only a writer that is up has anything in its buffer.
Flushed == proc # "up" => buf = <<>>

\* While its header is being written the segment holds nothing.
Rotating ==
  /\ InHeader => file.frames = <<>> /\ loose
  /\ proc \in {"truncated", "headed"} => acked = {}
  /\ proc = "truncated" => file.base = NoHeader
  /\ proc = "created" => file.base = 0
  /\ proc = "headed" => file.base \in Nat

\* While no error has damaged the segment, the next frame continues the line.
LineGood ==
  proc = "up" /\ sound =>
    /\ file.base \in Nat
    /\ file.frames \in Seq(Frames)
    /\ Continuable(Line, Len(file.frames), acked, next_seq)

\* A segment that an error has damaged takes in nothing that opening yields.
LineBad == proc = "up" /\ ~sound => Damaged(file)

\* What was forced to disk is the front of the file, or it is what a rotation
\* dropped, none of which is in the file.
OnDisk ==
  IF loose
  THEN AllIds(disk.frames) \cap (AllIds(file.frames) \cup Ids(buf) \cup acked) = {}
  ELSE file.base = disk.base /\ Continues(disk.frames, file.frames)

\* A segment without its header, or emptied and not forced to disk by the call
\* that did it, is the trace of a header cut off.
Headless(s) == s.base = NoHeader /\ s.frames # <<>>
HeadKept ==
  \/ proc = "refused"
  \/ proc \in {"up", "down"} /\ loose
  \/ proc = "up" /\ file.base = NoHeader
  \/ Headless(file) \/ Headless(disk)
  => cut_off

WalInv ==
  /\ Numbered
  /\ Flushed
  /\ Rotating
  /\ LineGood
  /\ LineBad
  /\ InOrder(Recoverable(file), acked)
  /\ InOrder(Recoverable(disk), acked)
  /\ OwedRecoverable
  /\ OnDisk
  /\ HeadKept

-----------------------------------------------------------------------------
(* Lists in order *)

\* The front of a list in order is in order.
LEMMA FrontInOrder ==
  ASSUME NEW r, NEW t, Len(r) \in Nat, Len(t) \in Nat, Continues(r, t), NEW answered,
         InOrder(t, answered)
  PROVE  InOrder(r, answered)
<1>1. \A i \in 1..Len(r) : i \in 1..Len(t) /\ r[i] = t[i]
  BY DEF Continues
<1>2. QED
  BY <1>1 DEF InOrder

\* Answering an attempt that is not in the list keeps it in order.
LEMMA AnswerOther ==
  ASSUME NEW r, NEW answered, NEW now, InOrder(r, answered),
         \A i \in 1..Len(r) : r[i].id \in now => r[i].id \in answered
  PROVE  InOrder(r, now)
BY DEF InOrder

\* More of the line is in the file.
LEMMA ContinuableWritten ==
  ASSUME NEW line, NEW len \in Nat, NEW more \in Nat, len <= more, NEW answered, NEW next,
         Continuable(line, len, answered, next), Len(line) \in Nat
  PROVE  Continuable(line, more, answered, next)
BY DEF Continuable

\* One more frame: its append failed, or it was written and answered.
LEMMA ContinuableAppend ==
  ASSUME NEW line \in Seq(Frames), NEW len \in Nat, NEW answered, NEW next \in Nat,
         NEW n \in Attempts, Continuable(line, len, answered, next),
         \A i \in 1..Len(line) : line[i].id < n, n \notin answered,
         NEW frame \in Frames, frame.seq = next, frame.id = n,
         NEW longer, longer = Append(line, frame)
  PROVE  /\ Continuable(longer, len, answered, next)
         /\ Continuable(longer, Len(longer), answered \cup {n}, next + 1)
<1>1. /\ Len(line) \in Nat /\ Len(longer) = Len(line) + 1
      /\ \A i \in 1..Len(line) : longer[i] = line[i]
      /\ longer[Len(line) + 1] = frame
  BY AppendProperties, LenProperties
<1>2. \A i \in 1..Len(line) : line[i].seq \in Nat /\ line[i].id \in Nat
  <2>1. \A a \in Frames : a.seq \in Nat /\ a.id \in Nat
    BY DEF Frames, Attempts
  <2>2. QED
    BY <2>1, ElementOfSeq
<1>3. n \in Nat
  BY DEF Attempts
<1>4. /\ \A i, j \in 1..Len(line) : i < j =>
           /\ line[i].id < line[j].id
           /\ line[i].seq <= line[j].seq
           /\ line[i].seq = line[j].seq => line[i].id \notin answered
      /\ \A i \in 1..Len(line) :
           /\ line[i].seq <= next
           /\ line[i].id \in answered => line[i].seq < next /\ i <= len
  BY DEF Continuable, InOrder
<1>5. ASSUME NEW i \in 1..Len(longer), NEW j \in 1..Len(longer), i < j
      PROVE  /\ longer[i].id < longer[j].id
             /\ longer[i].seq <= longer[j].seq
             /\ longer[i].seq = longer[j].seq => longer[i].id \notin answered \cup {n}
  <2>1. i \in 1..Len(line) /\ longer[i] = line[i]
    BY <1>1, <1>5
  <2>2. CASE j \in 1..Len(line)
    <3>1. longer[j] = line[j] /\ line[i].id < n
      BY <1>1, <2>1, <2>2
    <3>2. line[i].id # n
      BY <1>2, <1>3, <2>1, <3>1
    <3>3. QED
      BY <1>4, <1>5, <2>1, <2>2, <3>1, <3>2
  <2>3. CASE j = Len(line) + 1
    <3>1. longer[j] = frame /\ line[i].id < n
      BY <1>1, <2>1, <2>3
    <3>2. line[i].id # n
      BY <1>2, <1>3, <2>1, <3>1
    <3>3. line[i].seq <= next /\ (line[i].seq = next => line[i].id \notin answered)
      BY <1>2, <1>4, <2>1
    <3>4. QED
      BY <2>1, <3>1, <3>2, <3>3
  <2>4. QED
    BY <1>1, <2>2, <2>3
<1>6. InOrder(longer, answered) /\ InOrder(longer, answered \cup {n})
  BY <1>5 DEF InOrder
<1>7. ASSUME NEW i \in 1..Len(longer)
      PROVE  /\ longer[i].seq <= next
             /\ longer[i].id \in answered => longer[i].seq < next /\ i <= len
  <2>1. CASE i \in 1..Len(line)
    BY <1>1, <1>4, <2>1
  <2>2. CASE i = Len(line) + 1
    BY <1>1, <1>3, <2>2
  <2>3. QED
    BY <1>1, <2>1, <2>2
<1>8. \A i \in 1..Len(longer) : longer[i].seq < next + 1 /\ longer[i].seq <= next + 1
  <2>1. \A i \in 1..Len(longer) : longer[i].seq \in Nat
    BY <1>1, <1>2
  <2>2. QED
    BY <1>7, <2>1
<1>9. QED
  BY <1>1, <1>6, <1>7, <1>8 DEF Continuable

-----------------------------------------------------------------------------
(* Writing to the segment *)

\* What Extend does to a segment.
LEMMA ExtendFacts ==
  ASSUME NEW s \in Segments, NEW g \in Seq(Chunks)
  PROVE  /\ Extend(s, g) \in Segments
         /\ Extend(s, g).base = s.base
         /\ Extend(s, g).frames = s.frames \o g
         /\ Continues(s.frames, s.frames \o g)
         /\ Len(s.frames \o g) = Len(s.frames) + Len(g)
         /\ AllIds(s.frames \o g) = AllIds(s.frames) \cup AllIds(g)
<1>1. s.frames \in Seq(Chunks) /\ s.base \in Nat \cup {NoHeader}
  BY DEF Segments, Chunks
<1>2. /\ s.frames \o g \in Seq(Chunks) /\ Len(s.frames \o g) = Len(s.frames) + Len(g)
      /\ \A i \in 1..Len(s.frames) + Len(g) : (s.frames \o g)[i] =
           IF i <= Len(s.frames) THEN s.frames[i] ELSE g[i - Len(s.frames)]
      /\ Len(s.frames) \in Nat /\ Len(g) \in Nat
  BY <1>1, ConcatProperties, LenProperties
<1>3. PICK f : f = s.frames \o g
  OBVIOUS
<1>4. Extend(s, g) = [s EXCEPT !.frames = f]
  BY <1>3 DEF Extend
<1>5. /\ Extend(s, g) \in Segments /\ Extend(s, g).base = s.base /\ Extend(s, g).frames = f
  BY <1>2, <1>3, <1>4 DEF Segments, Chunks
<1>6. Continues(s.frames, f)
  BY <1>2, <1>3 DEF Continues
<1>7. AllIds(f) = AllIds(s.frames) \cup AllIds(g)
  <2>1. \A i \in 1..Len(s.frames) : i \in 1..Len(f) /\ f[i] = s.frames[i]
    BY <1>2, <1>3
  <2>2. \A i \in 1..Len(g) : Len(s.frames) + i \in 1..Len(f) /\ f[Len(s.frames) + i] = g[i]
    BY <1>2, <1>3
  <2>3. \A i \in 1..Len(f) : \/ i \in 1..Len(s.frames) /\ f[i] = s.frames[i]
                             \/ i - Len(s.frames) \in 1..Len(g) /\ f[i] = g[i - Len(s.frames)]
    BY <1>2, <1>3
  <2>4. AllIds(s.frames) \cup AllIds(g) \subseteq AllIds(f)
    BY <2>1, <2>2 DEF AllIds
  <2>5. AllIds(f) \subseteq AllIds(s.frames) \cup AllIds(g)
    BY <2>3 DEF AllIds
  <2>6. QED
    BY <2>4, <2>5
<1>8. QED
  BY <1>2, <1>3, <1>5, <1>6, <1>7

\* Only whole frames: every one counts.
LEMMA WholeIds ==
  ASSUME NEW f \in Seq(Frames)
  PROVE  /\ AllIds(f) = Ids(f)
         /\ f \in Seq(Chunks)
<1>1. f \in Seq(Chunks)
  BY SeqMonotonic DEF Chunks
<1>2. \A i \in 1..Len(f) : f[i] # Torn
  BY ElementOfSeq, MarkersAssumption DEF MarkersAssumption
<1>3. QED
  BY <1>1, <1>2 DEF AllIds, Ids

\* Whole frames followed by a torn one: only they come back.
LEMMA ParseTorn ==
  ASSUME NEW f \in Seq(Frames), NEW g, g = f \o <<Torn>>
  PROVE  ParseFrames(g) = f
<1>1. f \in Seq(Chunks) /\ <<Torn>> \in Seq(Chunks) /\ Len(<<Torn>>) = 1 /\ <<Torn>>[1] = Torn
  BY WholeIds DEF Chunks
<1>2. Len(f) \in Nat /\ \A i \in 1..Len(f) : f[i] # Torn
  BY LenProperties, ElementOfSeq, MarkersAssumption DEF MarkersAssumption
<1>3. /\ g \in Seq(Chunks) /\ Len(g) = Len(f) + 1
      /\ \A i \in 1..Len(f) : g[i] = f[i]
      /\ g[Len(f) + 1] = Torn
  BY <1>1, <1>2, ConcatProperties
<1>4. Cut(g, Len(f))
  BY <1>2, <1>3 DEF Cut
<1>5. /\ ParseFrames(g) \in Seq(Frames) /\ Len(ParseFrames(g)) = Len(f)
      /\ \A i \in 1..Len(f) : ParseFrames(g)[i] = g[i]
  BY <1>3, <1>4, ParseCut
<1>6. QED
  BY <1>3, <1>5, SeqEqual

\* What is written behind a segment, and what opening it then yields.
LEMMA ExtendRecoverable ==
  ASSUME NEW s \in Segments, NEW w \in Seq(Chunks), NEW t, t = Extend(s, w)
  PROVE  /\ t \in Segments /\ t.base = s.base /\ t.frames = s.frames \o w
         /\ Continues(s.frames, t.frames)
         /\ Continues(Recoverable(s), Recoverable(t))
         /\ Ids(Recoverable(s)) \subseteq Ids(Recoverable(t))
         /\ Damaged(s) => Damaged(t) /\ Recoverable(t) = Recoverable(s)
         /\ AllIds(t.frames) = AllIds(s.frames) \cup AllIds(w)
         /\ Len(t.frames) = Len(s.frames) + Len(w)
<1>1. /\ t \in Segments /\ t.base = s.base /\ t.frames = s.frames \o w
      /\ Continues(s.frames, t.frames)
      /\ AllIds(t.frames) = AllIds(s.frames) \cup AllIds(w)
      /\ Len(t.frames) = Len(s.frames) + Len(w)
  BY ExtendFacts
<1>2. Continues(Recoverable(s), Recoverable(t)) /\ (Damaged(s) => Recoverable(t) = Recoverable(s))
  BY <1>1, RecoverableGrows
<1>3. Len(Recoverable(s)) \in Nat /\ Len(Recoverable(t)) \in Nat
  BY <1>1, RecoverableType
<1>4. Ids(Recoverable(s)) \subseteq Ids(Recoverable(t))
  BY <1>2, <1>3, IdsGrow
<1>5. Damaged(s) => Damaged(t)
  <2>1. Len(s.frames) \in Nat /\ Len(t.frames) \in Nat
    BY <1>1, LenProperties DEF Segments
  <2>2. QED
    BY <1>1, <2>1 DEF Damaged, Continues
<1>6. QED
  BY <1>1, <1>2, <1>4, <1>5

LEMMA LineAssociative ==
  \A f, a, b \in Seq(Chunks) : (f \o a) \o b = f \o (a \o b)
BY ConcatAssociative

\* The two parts a failing flush divides what it had to write into.
LEMMA FlushParts ==
  ASSUME NEW f \in Seq(Chunks), NEW p \in Seq(Frames), NEW n \in 0..Len(p) - 1,
         NEW a, a = SubSeq(p, 1, n), NEW b, b = SubSeq(p, n + 1, Len(p))
  PROVE  /\ a \in Seq(Frames) /\ b \in Seq(Frames) /\ b # <<>>
         /\ (f \o a) \o b = f \o p
         /\ Ids(a) \cup Ids(b) \subseteq Ids(p)
<1>1. Len(p) \in Nat /\ n \in Nat /\ n + 1 \in Int /\ Len(p) \in Int /\ 1 \in Int /\ n \in Int
  BY LenProperties
<1>2. /\ \A i \in 1..n : p[i] \in Frames
      /\ \A i \in n + 1 .. Len(p) : p[i] \in Frames
  BY <1>1, ElementOfSeq
<1>3. /\ a \in Seq(Frames) /\ Len(a) = n
      /\ \A i \in 1..n : a[i] = p[i]
  <2>1. /\ a \in Seq(Frames) /\ Len(a) = IF 1 <= n THEN n - 1 + 1 ELSE 0
        /\ \A i \in 1..n - 1 + 1 : a[i] = p[1 + i - 1]
    BY <1>1, <1>2, SubSeqProperties
  <2>2. QED
    BY <1>1, <2>1
<1>4. /\ b \in Seq(Frames) /\ Len(b) = Len(p) - n
      /\ \A i \in 1..Len(p) - n : b[i] = p[n + i]
  <2>1. /\ b \in Seq(Frames)
        /\ Len(b) = IF n + 1 <= Len(p) THEN Len(p) - (n + 1) + 1 ELSE 0
        /\ \A i \in 1..Len(p) - (n + 1) + 1 : b[i] = p[(n + 1) + i - 1]
    BY <1>1, <1>2, SubSeqProperties
  <2>2. n + 1 <= Len(p) /\ Len(p) - (n + 1) + 1 = Len(p) - n
    BY <1>1
  <2>3. \A i \in 1..Len(p) - n : (n + 1) + i - 1 = n + i
    BY <1>1
  <2>4. QED
    BY <2>1, <2>2, <2>3
<1>5. a \o b = p
  <2>1. 1 \in 1..Len(p) + 1 /\ n \in 1 - 1 .. Len(p) /\ Len(p) \in n..Len(p)
    BY <1>1
  <2>2. SubSeq(p, 1, n) \o SubSeq(p, n + 1, Len(p)) = SubSeq(p, 1, Len(p))
    BY <2>1, ConcatAdjacentSubSeq
  <2>3. QED
    BY <2>2, SubSeqFull
<1>6. b # <<>>
  <2>1. Len(p) - n # 0
    BY <1>1
  <2>2. QED
    BY <1>4, <2>1, EmptySeq, Zenon
<1>7. (f \o a) \o b = f \o p
  <2>1. a \in Seq(Chunks) /\ b \in Seq(Chunks)
    BY <1>3, <1>4, WholeIds
  <2>2. (f \o a) \o b = f \o (a \o b)
    BY <2>1, LineAssociative, Zenon
  <2>3. QED
    BY <1>5, <2>2
<1>8. Ids(a) \cup Ids(b) \subseteq Ids(p)
  <2>1. \A i \in 1..Len(a) : i \in 1..Len(p) /\ a[i] = p[i]
    BY <1>1, <1>3
  <2>2. \A i \in 1..Len(b) : n + i \in 1..Len(p) /\ b[i] = p[n + i]
    BY <1>1, <1>4
  <2>3. QED
    BY <2>1, <2>2 DEF Ids
<1>9. QED
  BY <1>3, <1>4, <1>6, <1>7, <1>8

-----------------------------------------------------------------------------
(* The steps *)

LEMMA NewFrameFacts ==
  ASSUME TypeOK, budget.appends > 0
  PROVE  /\ NewFrame \in Frames /\ NewFrame.seq = next_seq /\ NewFrame.id = Spent + 1
         /\ Spent \in Nat /\ Spent + 1 \in Attempts
         /\ Append(buf, NewFrame) \in Seq(Frames)
         /\ Ids(Append(buf, NewFrame)) = Ids(buf) \cup {Spent + 1}
<1>1. /\ budget.appends \in 0..MaxAppends /\ MaxAppends \in Nat /\ next_seq \in Nat
      /\ buf \in Seq(Frames)
  BY BoundsAssumption DEF TypeOK, BoundsAssumption
<1>2. Spent \in Nat /\ Spent + 1 \in Attempts
  BY <1>1 DEF Spent, Attempts
<1>3. NewFrame.seq = next_seq /\ NewFrame.id = Spent + 1
  BY DEF NewFrame, Spent
<1>4. NewFrame \in Frames
  BY <1>1, <1>2 DEF NewFrame, Spent, Frames
<1>5. PICK p : p = Append(buf, NewFrame)
  OBVIOUS
<1>6. /\ p \in Seq(Frames) /\ Len(p) = Len(buf) + 1 /\ Len(buf) \in Nat
      /\ \A i \in 1..Len(buf) : p[i] = buf[i]
      /\ p[Len(buf) + 1] = NewFrame
  <2> HIDE DEF NewFrame
  <2> QED BY <1>1, <1>4, <1>5, AppendProperties, LenProperties
<1>7. Ids(p) = Ids(buf) \cup {Spent + 1}
  <2>1. \A i \in 1..Len(buf) : i \in 1..Len(p) /\ p[i].id = buf[i].id
    BY <1>6
  <2>2. Len(buf) + 1 \in 1..Len(p) /\ p[Len(buf) + 1].id = Spent + 1
    BY <1>3, <1>6
  <2>3. \A i \in 1..Len(p) : i \in 1..Len(buf) \/ i = Len(buf) + 1
    BY <1>6
  <2>4. QED
    BY <2>1, <2>2, <2>3 DEF Ids
<1>8. QED
  BY <1>2, <1>3, <1>4, <1>5, <1>6, <1>7

LEMMA PartialFlushFacts ==
  ASSUME TypeOK, NEW pending \in Seq(Frames), PartialFlush(pending)
  PROVE  /\ buf' \in Seq(Frames) /\ buf' # <<>> /\ half' \in BOOLEAN
         /\ \E w \in Seq(Frames) :
              /\ file' = Extend(file, w)
              /\ file'.frames \o buf' = file.frames \o pending
              /\ Ids(w) \cup Ids(buf') \subseteq Ids(pending)
<1>1. PICK n \in 0..Len(pending) - 1, part \in BOOLEAN :
        /\ file' = Extend(file, SubSeq(pending, 1, n))
        /\ buf' = SubSeq(pending, n + 1, Len(pending))
        /\ half' = part
  BY DEF PartialFlush
<1>2. PICK w : w = SubSeq(pending, 1, n)
  OBVIOUS
<1>3. file \in Segments /\ file.frames \in Seq(Chunks)
  BY DEF TypeOK, Segments, Chunks
<1>4. /\ w \in Seq(Frames) /\ buf' \in Seq(Frames) /\ buf' # <<>>
      /\ (file.frames \o w) \o buf' = file.frames \o pending
      /\ Ids(w) \cup Ids(buf') \subseteq Ids(pending)
  <2>1. PICK f, b : f = file.frames /\ b = SubSeq(pending, n + 1, Len(pending))
    OBVIOUS
  <2>2. /\ w \in Seq(Frames) /\ b \in Seq(Frames) /\ b # <<>>
        /\ (f \o w) \o b = f \o pending
        /\ Ids(w) \cup Ids(b) \subseteq Ids(pending)
    <3>1. f \in Seq(Chunks)
      BY <1>3, <2>1
    <3>2. \A x, y : x = SubSeq(pending, 1, n) /\ y = SubSeq(pending, n + 1, Len(pending)) =>
            /\ x \in Seq(Frames) /\ y \in Seq(Frames) /\ y # <<>>
            /\ (f \o x) \o y = f \o pending
            /\ Ids(x) \cup Ids(y) \subseteq Ids(pending)
      BY <3>1, FlushParts
    <3>3. QED
      BY <1>2, <2>1, <3>2, Zenon
  <2>3. b = buf'
    BY <1>1, <2>1
  <2>4. QED
    BY <2>1, <2>2, <2>3
<1>5. file' = Extend(file, w) /\ half' \in BOOLEAN
  BY <1>1, <1>2
<1>6. w \in Seq(Chunks)
  BY <1>4, WholeIds
<1>7. file'.frames = file.frames \o w
  BY <1>3, <1>5, <1>6, ExtendFacts
<1>8. file'.frames \o buf' = file.frames \o pending
  BY <1>4, <1>7
<1>9. QED
  BY <1>4, <1>5, <1>8

\* A cut-short image of a segment.
LEMMA CutShortFacts ==
  ASSUME NEW s \in Segments, NEW t \in CutShort(s)
  PROVE  /\ t \in Segments /\ t.base = s.base
         /\ Continues(Recoverable(t), Recoverable(s))
         /\ AllIds(t.frames) \subseteq AllIds(s.frames)
         /\ t.frames # <<>> => s.frames # <<>>
<1>1. s.frames \in Seq(Chunks) /\ Len(s.frames) \in Nat /\ s.base \in Nat \cup {NoHeader}
  BY LenProperties DEF Segments, Chunks
<1>20. PICK n \in 0..Len(s.frames) :
         \E g : /\ t = [s EXCEPT !.frames = g]
               /\ \/ g = SubSeq(s.frames, 1, n)
                  \/ n < Len(s.frames) /\ g = Append(SubSeq(s.frames, 1, n), Torn)
  BY <1>1 DEF CutShort
<1>2. PICK g : /\ t = [s EXCEPT !.frames = g]
               /\ \/ g = SubSeq(s.frames, 1, n)
                  \/ n < Len(s.frames) /\ g = Append(SubSeq(s.frames, 1, n), Torn)
  BY <1>20, Zenon
<1>3. PICK c : c = SubSeq(s.frames, 1, n)
  OBVIOUS
<1>4. /\ c \in Seq(Chunks) /\ Len(c) = n
      /\ \A i \in 1..n : c[i] = s.frames[i]
  <2>1. n \in Int /\ 1 \in Int /\ n - 1 + 1 = n /\ \A i \in 1..n : s.frames[i] \in Chunks
    BY <1>1, ElementOfSeq
  <2>2. /\ c \in Seq(Chunks)
        /\ Len(c) = IF 1 <= n THEN n - 1 + 1 ELSE 0
        /\ \A i \in 1..n-1+1 : c[i] = s.frames[1 + i - 1]
    BY <1>3, <2>1, SubSeqProperties
  <2>3. QED
    BY <2>1, <2>2
<1>5. /\ g \in Seq(Chunks) /\ Len(g) \in Nat /\ n <= Len(g) /\ Len(g) <= Len(s.frames)
      /\ \A i \in 1..n : g[i] = s.frames[i]
      /\ Len(g) > n => Len(g) = n + 1 /\ g[n + 1] = Torn
  <2>1. CASE g = c
    BY <1>1, <1>4, <2>1
  <2>2. CASE n < Len(s.frames) /\ g = Append(c, Torn)
    <3>1. Torn \in Chunks
      BY DEF Chunks
    <3>2. /\ g \in Seq(Chunks) /\ Len(g) = n + 1 /\ \A i \in 1..n : g[i] = c[i]
          /\ g[n + 1] = Torn
      BY <1>4, <2>2, <3>1, AppendProperties
    <3>3. QED
      BY <1>1, <1>4, <2>2, <3>2
  <2>3. QED
    BY <1>2, <1>3, <2>1, <2>2
<1>6. t \in Segments /\ t.base = s.base /\ t.frames = g
  BY <1>1, <1>2, <1>5 DEF Segments, Chunks
<1>7. AllIds(g) \subseteq AllIds(s.frames)
  <2>1. \A i \in 1..Len(g) : g[i] # Torn => i \in 1..Len(s.frames) /\ g[i] = s.frames[i]
    BY <1>1, <1>5
  <2>2. QED
    BY <2>1 DEF AllIds
<1>8. g # <<>> => s.frames # <<>>
  <2>1. SUFFICES ASSUME s.frames = <<>> PROVE g = <<>>
    OBVIOUS
  <2>2. Len(g) = 0
    BY <1>1, <1>5, <2>1
  <2>3. QED
    BY <1>5, <2>2, EmptySeq
<1>9. Continues(Recoverable(t), Recoverable(s))
  <2>1. CASE s.base = NoHeader
    BY <1>6, <2>1 DEF Recoverable, Continues
  <2>2. CASE s.base # NoHeader
    <3>1. Recoverable(t) = ParseFrames(g) /\ Recoverable(s) = ParseFrames(s.frames)
      BY <1>6, <2>2 DEF Recoverable
    <3>2. PICK k, m : Cut(g, k) /\ Cut(s.frames, m)
      BY <1>1, <1>5, CutExists
    <3>3. k \in 0..Len(g) /\ m \in 0..Len(s.frames) /\ k <= n /\ k <= m
      <4>1. k \in 0..Len(g) /\ m \in 0..Len(s.frames)
        BY <3>2 DEF Cut
      <4>2. k <= n
        <5>1. SUFFICES ASSUME n < k PROVE FALSE
          BY <4>1
        <5>2. n + 1 \in 1..k /\ Len(g) > n
          BY <1>5, <4>1, <5>1
        <5>3. QED
          BY <1>5, <3>2, <5>2 DEF Cut
      <4>3. k <= m
        <5>1. SUFFICES ASSUME m < k PROVE FALSE
          BY <4>1
        <5>2. m + 1 \in 1..k /\ m + 1 \in 1..n /\ m < Len(s.frames)
          BY <1>1, <4>1, <4>2, <5>1
        <5>3. s.frames[m + 1] = Torn /\ g[m + 1] # Torn
          BY <3>2, <5>2 DEF Cut
        <5>4. QED
          BY <1>5, <5>2, <5>3
      <4>4. QED
        BY <4>1, <4>2, <4>3
    <3>4. /\ Len(ParseFrames(g)) = k /\ \A i \in 1..k : ParseFrames(g)[i] = g[i]
          /\ Len(ParseFrames(s.frames)) = m
          /\ \A i \in 1..m : ParseFrames(s.frames)[i] = s.frames[i]
      BY <1>1, <1>5, <3>2, ParseCut
    <3>5. \A i \in 1..k : i \in 1..m /\ i \in 1..n
      BY <3>3
    <3>6. QED
      BY <1>5, <3>1, <3>3, <3>4, <3>5 DEF Continues
  <2>3. QED
    BY <2>1, <2>2
<1>10. QED
  BY <1>6, <1>7, <1>8, <1>9

LEMMA EmptyFacts ==
  /\ <<>> \in Seq(Frames) /\ <<>> \in Seq(Chunks) /\ Len(<<>>) = 0
  /\ Ids(<<>>) = {} /\ AllIds(<<>>) = {}
  /\ EmptyFile \in Segments /\ EmptyFile.base = NoHeader /\ EmptyFile.frames = <<>>
  /\ Recoverable(EmptyFile) = <<>>
  /\ \A n \in Nat : /\ FreshSegment(n) \in Segments /\ FreshSegment(n).base = n
                    /\ FreshSegment(n).frames = <<>>
                    /\ Recoverable(FreshSegment(n)) = <<>>
<1>1. <<>> \in Seq(Frames) /\ <<>> \in Seq(Chunks) /\ Len(<<>>) = 0
  BY EmptySeq
<1>2. Ids(<<>>) = {} /\ AllIds(<<>>) = {}
  BY <1>1 DEF Ids, AllIds
<1>3. EmptyFile \in Segments /\ EmptyFile.base = NoHeader /\ EmptyFile.frames = <<>>
  BY <1>1 DEF EmptyFile, Segments, Chunks
<1>4. Recoverable(EmptyFile) = <<>>
  BY <1>3 DEF Recoverable
<1>5. ASSUME NEW n \in Nat
      PROVE  /\ FreshSegment(n) \in Segments /\ FreshSegment(n).base = n
             /\ FreshSegment(n).frames = <<>>
             /\ Recoverable(FreshSegment(n)) = <<>>
  <2>1. /\ FreshSegment(n) \in Segments /\ FreshSegment(n).base = n
        /\ FreshSegment(n).frames = <<>>
    BY <1>1 DEF FreshSegment, Segments, Chunks
  <2>2. QED
    BY <1>1, <2>1, RecoverableWhole
<1>6. QED
  BY <1>1, <1>2, <1>3, <1>4, <1>5

LEMMA TornFacts ==
  /\ <<Torn>> \in Seq(Chunks) /\ Len(<<Torn>>) = 1 /\ <<Torn>>[1] = Torn /\ AllIds(<<Torn>>) = {}
  /\ TornHeader \in Segments /\ TornHeader.base = NoHeader /\ TornHeader.frames = <<Torn>>
  /\ Recoverable(TornHeader) = <<>>
<1>1. Torn \in Chunks
  BY DEF Chunks
<1>2. <<Torn>> \in Seq(Chunks) /\ Len(<<Torn>>) = 1 /\ <<Torn>>[1] = Torn
  BY <1>1
<1>3. TornHeader \in Segments /\ TornHeader.base = NoHeader /\ TornHeader.frames = <<Torn>>
  BY <1>2 DEF TornHeader, Segments, Chunks
<1>4. Recoverable(TornHeader) = <<>>
  BY <1>3 DEF Recoverable
<1>5. AllIds(<<Torn>>) = {}
  BY <1>2 DEF AllIds
<1>6. QED
  BY <1>2, <1>3, <1>4, <1>5

\* What an interruption leaves for the next start to see.
LEMMA Interrupts ==
  ASSUME TypeOK, Interrupted
  PROVE  /\ cut_off' \in BOOLEAN
         /\ InHeader => cut_off' = TRUE
         /\ ~InHeader => cut_off' = cut_off
         /\ cut_off => cut_off' = TRUE
<1>1. cut_off \in BOOLEAN /\ cut_off' = IF InHeader THEN TRUE ELSE cut_off
  BY DEF TypeOK, Interrupted
<1>2. CASE InHeader
  BY <1>1, <1>2, Zenon
<1>3. CASE ~InHeader
  <2>1. cut_off' = cut_off
    BY <1>1, <1>3, Zenon
  <2>2. QED
    BY <1>1, <1>3, <2>1
<1>4. QED
  BY <1>2, <1>3

\* Spending from the budget.
LEMMA BudgetFacts ==
  ASSUME TypeOK, NEW a \in {0, 1}, NEW e \in {0, 1}, NEW c \in {0, 1}, NEW o \in {0, 1},
         a <= budget.appends, e <= budget.errors, c <= budget.crashes, o <= budget.outages,
         budget' = [appends |-> budget.appends - a, errors |-> budget.errors - e,
                    crashes |-> budget.crashes - c, outages |-> budget.outages - o]
  PROVE  /\ budget' \in [appends : 0..MaxAppends, errors : Nat, crashes : Nat, outages : Nat]
         /\ Spent' = Spent + a /\ Spent \in Nat
<1>1. /\ budget.appends \in 0..MaxAppends /\ budget.errors \in Nat /\ budget.crashes \in Nat
      /\ budget.outages \in Nat /\ MaxAppends \in Nat
  BY BoundsAssumption DEF TypeOK, BoundsAssumption
<1>2. /\ budget.appends - a \in 0..MaxAppends /\ budget.errors - e \in Nat
      /\ budget.crashes - c \in Nat /\ budget.outages - o \in Nat
  BY <1>1
<1>3. Spent' = Spent + a /\ Spent \in Nat
  BY <1>1 DEF Spent
<1>4. QED
  BY <1>2, <1>3

\* What each step takes from it.
LEMMA Spends ==
  ASSUME TypeOK
  PROVE  /\ Spend("appends") =>
              budget.appends > 0 /\ budget' = [appends |-> budget.appends - 1, errors |-> budget.errors - 0,
                          crashes |-> budget.crashes - 0, outages |-> budget.outages - 0]
         /\ Spend("errors") =>
              budget.errors > 0 /\ budget' = [appends |-> budget.appends - 0, errors |-> budget.errors - 1,
                          crashes |-> budget.crashes - 0, outages |-> budget.outages - 0]
         /\ Spend("crashes") =>
              budget.crashes > 0 /\ budget' = [appends |-> budget.appends - 0, errors |-> budget.errors - 0,
                          crashes |-> budget.crashes - 1, outages |-> budget.outages - 0]
         /\ Spend("outages") =>
              budget.outages > 0 /\ budget' = [appends |-> budget.appends - 0, errors |-> budget.errors - 0,
                          crashes |-> budget.crashes - 0, outages |-> budget.outages - 1]
         /\ AppendFails =>
              budget.appends > 0 /\ budget.errors > 0
              /\ budget' = [appends |-> budget.appends - 1, errors |-> budget.errors - 1,
                          crashes |-> budget.crashes - 0, outages |-> budget.outages - 0]
         /\ CrashInAppend =>
              budget.appends > 0 /\ budget.crashes > 0
              /\ budget' = [appends |-> budget.appends - 1, errors |-> budget.errors - 0,
                          crashes |-> budget.crashes - 1, outages |-> budget.outages - 0]
<1>1. PICK a, e, c, o : budget = [appends |-> a, errors |-> e, crashes |-> c, outages |-> o]
  BY DEF TypeOK
<1>2. /\ budget.appends \in Int /\ budget.errors \in Int /\ budget.crashes \in Int
      /\ budget.outages \in Int
  BY DEF TypeOK
<1>3. /\ budget.appends = a /\ budget.errors = e /\ budget.crashes = c /\ budget.outages = o
      /\ a \in Int /\ e \in Int /\ c \in Int /\ o \in Int
  BY <1>1, <1>2
<1>4. a - 0 = a /\ e - 0 = e /\ c - 0 = c /\ o - 0 = o
  BY <1>3
<1>5. /\ Spend("appends") => budget.appends > 0 /\ budget' = [appends |-> a - 1, errors |-> e, crashes |-> c, outages |-> o]
      /\ Spend("errors") => budget.errors > 0 /\ budget' = [appends |-> a, errors |-> e - 1, crashes |-> c, outages |-> o]
      /\ Spend("crashes") => budget.crashes > 0 /\ budget' = [appends |-> a, errors |-> e, crashes |-> c - 1, outages |-> o]
      /\ Spend("outages") => budget.outages > 0 /\ budget' = [appends |-> a, errors |-> e, crashes |-> c, outages |-> o - 1]
  BY <1>1 DEF Spend
<1>6. AppendFails => budget.appends > 0 /\ budget.errors > 0
                     /\ budget' = [appends |-> a - 1, errors |-> e - 1, crashes |-> c, outages |-> o]
  BY <1>1 DEF AppendFails
<1>7. CrashInAppend => budget.appends > 0 /\ budget.crashes > 0
                       /\ budget' = [appends |-> a - 1, errors |-> e, crashes |-> c - 1, outages |-> o]
  BY <1>1 DEF CrashInAppend
<1>8. QED
  BY <1>3, <1>4, <1>5, <1>6, <1>7

\* A step that makes a attempts.
Charged(a) ==
  /\ budget' \in [appends : 0..MaxAppends, errors : Nat, crashes : Nat, outages : Nat]
  /\ Spent' = Spent + a

LEMMA Charges ==
  ASSUME TypeOK
  PROVE  /\ Spend("appends") => budget.appends > 0 /\ Charged(1)
         /\ Spend("errors") => budget.errors > 0 /\ Charged(0)
         /\ Spend("crashes") => Charged(0)
         /\ Spend("outages") => Charged(0)
         /\ AppendFails => budget.appends > 0 /\ budget.errors > 0 /\ Charged(1)
         /\ CrashInAppend => budget.appends > 0 /\ Charged(1)
         /\ UNCHANGED budget => Charged(0)
<1>1. /\ budget.appends \in Nat /\ budget.errors \in Nat /\ budget.crashes \in Nat
      /\ budget.outages \in Nat
  BY BoundsAssumption DEF TypeOK, BoundsAssumption
<1>2. ASSUME Spend("appends") PROVE budget.appends > 0 /\ Charged(1)
  BY <1>1, <1>2, Spends, BudgetFacts DEF Charged
<1>3. ASSUME Spend("errors") PROVE budget.errors > 0 /\ Charged(0)
  BY <1>1, <1>3, Spends, BudgetFacts DEF Charged
<1>4. ASSUME Spend("crashes") PROVE Charged(0)
  BY <1>1, <1>4, Spends, BudgetFacts DEF Charged
<1>5. ASSUME Spend("outages") PROVE Charged(0)
  BY <1>1, <1>5, Spends, BudgetFacts DEF Charged
<1>6. ASSUME AppendFails PROVE budget.appends > 0 /\ budget.errors > 0 /\ Charged(1)
  BY <1>1, <1>6, Spends, BudgetFacts DEF Charged
<1>7. ASSUME CrashInAppend PROVE budget.appends > 0 /\ Charged(1)
  BY <1>1, <1>7, Spends, BudgetFacts DEF Charged
<1>8. ASSUME UNCHANGED budget PROVE Charged(0)
  <2>1. Spent' = Spent /\ MaxAppends \in Nat /\ budget.appends \in Nat
    BY <1>1, <1>8, BoundsAssumption DEF Spent, BoundsAssumption
  <2>2. Spent' = Spent + 0
    BY <1>1, <2>1 DEF Spent
  <2>3. QED
    BY <1>8, <2>2 DEF Charged, TypeOK
<1>9. QED
  BY <1>2, <1>3, <1>4, <1>5, <1>6, <1>7, <1>8

\* The step keeps the types: what is not written is as it was.
LEMMA TypeStep ==
  ASSUME TypeOK, [Next]_vars
  PROVE  TypeOK'
<1> USE DEF TypeOK
<1>1. /\ file \in Segments /\ disk \in Segments /\ buf \in Seq(Frames) /\ next_seq \in Nat
      /\ segment_bytes \in Nat /\ file.frames \in Seq(Chunks) /\ buf \in Seq(Chunks)
      /\ file.base \in Nat \cup {NoHeader}
  BY WholeIds DEF Segments, Chunks
<1>2. CASE OpenNew
  BY <1>2, EmptyFacts DEF OpenNew, observed
<1>18. CASE OpenSync
  BY <1>18 DEF OpenSync
<1>19. CASE OpenFails
  <2>1. Charged(0)
    BY <1>19, Charges DEF OpenFails
  <2>2. file' \in Segments
    BY <1>1, <1>19, TornFacts DEF OpenFails
  <2>3. QED
    BY <1>19, <2>1, <2>2 DEF OpenFails, Charged
<1>20. CASE OpenStray
  <2>1. PICK b \in StrayBases : file' = FreshSegment(b) /\ next_seq' = b
    BY <1>20 DEF OpenStray
  <2>2. b \in Nat
    BY BoundsAssumption DEF BoundsAssumption
  <2>3. QED
    BY <1>20, <2>1, <2>2, EmptyFacts DEF OpenStray
<1>21. CASE CrashInHeader
  <2>1. Charged(0)
    BY <1>21, Charges DEF CrashInHeader
  <2>2. QED
    BY <1>21, <2>1, TornFacts DEF CrashInHeader, Charged
<1>3. CASE OpenExisting
  <2>1. PICK r : r = ParseFrames(file.frames)
    OBVIOUS
  <2>2. r \in Seq(Frames) /\ Len(r) \in Nat
    BY <1>1, <2>1, CutExists, ParseCut, LenProperties
  <2>3. file' = [file EXCEPT !.frames = r]
    BY <1>3, <2>1 DEF OpenExisting, TruncateTo
  <2>4. r \in Seq(Chunks)
    BY <2>2, WholeIds
  <2>5. file' \in Segments
    BY <1>1, <2>3, <2>4 DEF Segments, Chunks
  <2>6. file.base \in Nat
    BY <1>1, <1>3 DEF OpenExisting
  <2>7. next_seq' \in Nat
    <3>1. next_seq' = NextSeq(r, file.base)
      BY <1>3, <2>1 DEF OpenExisting
    <3>2. CASE r = <<>>
      BY <2>6, <3>1, <3>2 DEF NextSeq
    <3>3. CASE r # <<>>
      <4>1. Len(r) \in 1..Len(r)
        BY <2>2, <3>3, EmptySeq
      <4>2. Last(r).seq \in Nat
        <5>1. r[Len(r)] \in Frames
          BY <2>2, <4>1, ElementOfSeq
        <5>2. QED
          BY <5>1 DEF Last, Frames
      <4>3. QED
        BY <2>6, <3>1, <3>3, <4>2 DEF NextSeq, Max2
    <3>4. QED
      BY <3>2, <3>3
  <2>8. disk' \in Segments /\ segment_bytes' \in Nat /\ loose' \in BOOLEAN
    BY <1>3, <2>1, <2>2, <2>5 DEF OpenExisting
  <2>9. QED
    BY <1>3, <2>5, <2>7, <2>8 DEF OpenExisting
<1>4. CASE OpenRefused
  BY <1>4 DEF OpenRefused, observed
<1>5. CASE AppendFrame
  <2>1. PICK p : p = Append(buf, NewFrame)
    OBVIOUS
  <2>2. Charged(1) /\ p \in Seq(Frames) /\ NewFrame.id \in Attempts
    BY <1>5, <2>1, Charges, NewFrameFacts DEF AppendFrame
  <2>3. file' = Extend(file, p) /\ p \in Seq(Chunks)
    BY <1>5, <2>1, <2>2, WholeIds DEF AppendFrame
  <2>4. file' \in Segments
    BY <1>1, <2>3, ExtendFacts
  <2>5. acked' \in SUBSET Attempts /\ owed' \in SUBSET acked'
    BY <1>5, <2>2 DEF AppendFrame
  <2>6. next_seq' \in Nat /\ segment_bytes' \in Nat
    BY <1>1, <1>5 DEF AppendFrame
  <2>7. QED
    BY <1>5, <2>2, <2>4, <2>5, <2>6, EmptyFacts DEF AppendFrame, Charged
<1>6. ASSUME NEW p \in Seq(Frames), PartialFlush(p)
      PROVE  file' \in Segments /\ buf' \in Seq(Frames) /\ buf' # <<>> /\ half' \in BOOLEAN
  <2>1. PICK w \in Seq(Frames) : file' = Extend(file, w)
    BY <1>6, PartialFlushFacts
  <2>2. w \in Seq(Chunks)
    BY <2>1, WholeIds
  <2>3. file' \in Segments
    BY <1>1, <2>1, <2>2, ExtendFacts
  <2>4. QED
    BY <1>6, <2>3, PartialFlushFacts
<1>7. CASE AppendFails
  <2>1. Charged(1) /\ Append(buf, NewFrame) \in Seq(Frames)
    BY <1>7, Charges, NewFrameFacts
  <2>2. CASE PartialFlush(Append(buf, NewFrame)) /\ UNCHANGED sound
    BY <1>6, <1>7, <2>1, <2>2 DEF AppendFails, Charged
  <2>3. CASE buf # <<>> /\ PartialFlush(buf) /\ UNCHANGED sound
    BY <1>1, <1>6, <1>7, <2>1, <2>3 DEF AppendFails, Charged
  <2>4. ASSUME NEW written \in {<<>>, <<Torn>>},
               file' = Extend(file, buf \o written), buf' = <<>>, half' = FALSE,
               sound' = (sound /\ written = <<>>)
        PROVE  TypeOK'
    <3>1. PICK w : w = buf \o written
      OBVIOUS
    <3>2. written \in Seq(Chunks)
      BY <2>4, EmptyFacts, TornFacts
    <3>3. w \in Seq(Chunks)
      BY <1>1, <3>1, <3>2, ConcatProperties
    <3>4. file' \in Segments
      BY <1>1, <2>4, <3>1, <3>3, ExtendFacts
    <3>5. sound' \in BOOLEAN
      BY <2>4, Zenon
    <3>6. QED
      BY <1>7, <2>1, <2>4, <3>4, <3>5, EmptyFacts DEF AppendFails, Charged
  <2>5. QED
    BY <1>7, <2>2, <2>3, <2>4 DEF AppendFails
<1>8. CASE SyncData
  <2>1. file' \in Segments
    BY <1>1, <1>8, ExtendFacts DEF SyncData
  <2>2. QED
    BY <1>8, <2>1, EmptyFacts DEF SyncData, observed
<1>9. CASE RotateTruncate
  BY <1>9, EmptyFacts DEF RotateTruncate
<1>10. CASE RotateHeader
  BY <1>10, EmptyFacts DEF RotateHeader, observed
<1>11. CASE RotateSync
  BY <1>11 DEF RotateSync
<1>12. CASE RotateFails
  <2>1. Charged(0) /\ cut_off' \in BOOLEAN
    BY <1>12, Charges, Interrupts DEF RotateFails
  <2>2. CASE proc' = "up" /\ sound' \in BOOLEAN /\ UNCHANGED <<buf, half>>
             /\ file' \in {file, EmptyFile, TornHeader}
    BY <1>1, <1>12, <2>1, <2>2, EmptyFacts, TornFacts DEF RotateFails, Charged
  <2>3. CASE PartialFlush(buf) /\ UNCHANGED <<proc, sound>>
    BY <1>1, <1>6, <1>12, <2>1, <2>3 DEF RotateFails, Charged
  <2>4. QED
    BY <1>12, <2>2, <2>3 DEF RotateFails
<1>13. CASE Crash
  <2>1. Partial \in Seq(Chunks)
    BY EmptyFacts, TornFacts DEF Partial
  <2>2. file' \in Segments
    BY <1>1, <1>13, <2>1, ExtendFacts DEF Crash
  <2>3. Charged(0) /\ cut_off' \in BOOLEAN
    BY <1>13, Charges, Interrupts DEF Crash
  <2>4. QED
    BY <1>13, <2>2, <2>3, EmptyFacts DEF Crash, Charged
<1>14. CASE CrashInAppend
  <2>1. Charged(1) /\ NewFrame \in Frames
    BY <1>14, Charges, NewFrameFacts
  <2>2. PICK written \in {Torn, NewFrame} : file' = Extend(file, Append(buf, written))
    BY <1>14 DEF CrashInAppend
  <2>3. PICK w : w = Append(buf, written)
    OBVIOUS
  <2>4. written \in Chunks
    BY <2>1 DEF Chunks
  <2>5. w \in Seq(Chunks)
    BY <1>1, <2>3, <2>4, AppendProperties
  <2>6. file' \in Segments
    BY <1>1, <2>2, <2>3, <2>5, ExtendFacts
  <2>7. QED
    BY <1>14, <2>1, <2>6, EmptyFacts DEF CrashInAppend, Charged, observed
<1>15. CASE PowerLoss
  <2>1. file' \in CutShort(file) \/ file' \in {disk, EmptyFile, TornHeader}
    BY <1>15 DEF PowerLoss, Images
  <2>2. file' \in Segments
    BY <1>1, <2>1, CutShortFacts, EmptyFacts, TornFacts
  <2>3. Charged(0) /\ cut_off' \in BOOLEAN
    BY <1>15, Charges, Interrupts DEF PowerLoss
  <2>4. owed' \in SUBSET acked'
    BY <1>15 DEF PowerLoss
  <2>5. QED
    BY <1>15, <2>2, <2>3, <2>4, EmptyFacts DEF PowerLoss, Charged
<1>16. CASE UNCHANGED vars
  BY <1>16 DEF vars
<1>17. QED
  BY <1>2, <1>3, <1>4, <1>5, <1>7, <1>8, <1>9, <1>10, <1>11, <1>12, <1>13, <1>14, <1>15, <1>16,
     <1>18, <1>19, <1>20, <1>21 DEF Next

LEMMA SpentFacts ==
  ASSUME TypeOK
  PROVE  Spent \in Nat
<1>1. budget.appends \in 0..MaxAppends /\ MaxAppends \in Nat
  BY BoundsAssumption DEF TypeOK, BoundsAssumption
<1>2. QED
  BY <1>1 DEF Spent

\* What was forced to disk is as it was, or is now all of the file.
Forced ==
  /\ cut_off' = cut_off
  /\ UNCHANGED <<disk, loose>> \/ (disk' = file' /\ ~loose')

\* What every step that writes behind the segment keeps, whether an append is
\* answered, fails or is cut off: `line` is what a sound segment then yields,
\* or more than that.
LEMMA Written ==
  ASSUME TypeOK, TypeOK', WalInv, proc = "up", proc' \in {"up", "down"},
         NEW w \in Seq(Chunks), file' = Extend(file, w), Forced,
         NEW a \in {0, 1}, Charged(a),
         acked' \subseteq acked \cup {Spent + 1}, acked' \subseteq 1..Spent',
         AllIds(w) \cup Ids(buf') \subseteq Ids(buf) \cup {Spent + 1},
         AllIds(w) \cup Ids(buf') \subseteq 1..Spent',
         NEW line, Len(line) \in Nat,
         sound => Continues(Recoverable(file'), line) /\ InOrder(line, acked')
  PROVE  /\ Numbered'
         /\ InOrder(Recoverable(file), acked)'
         /\ InOrder(Recoverable(disk), acked)'
         /\ OnDisk'
         /\ HeadKept'
         /\ ~sound => Damaged(file')
         /\ Ids(Recoverable(file)) \subseteq Ids(Recoverable(file'))
<1>1. /\ file \in Segments /\ disk \in Segments /\ Spent \in Nat /\ Spent' = Spent + a
      /\ disk' \in {disk, file'}
  BY SpentFacts DEF TypeOK, Charged, Forced
<1>2. /\ file' \in Segments /\ file'.base = file.base
      /\ Continues(file.frames, file'.frames)
      /\ Ids(Recoverable(file)) \subseteq Ids(Recoverable(file'))
      /\ Damaged(file) => Damaged(file') /\ Recoverable(file') = Recoverable(file)
      /\ AllIds(file'.frames) = AllIds(file.frames) \cup AllIds(w)
  BY <1>1, ExtendRecoverable, Zenon
<1>3. /\ AllIds(file.frames) \cup AllIds(disk.frames) \cup Ids(buf) \subseteq 1..Spent
      /\ acked \subseteq 1..Spent
  BY DEF WalInv, Numbered
<1>4. 1..Spent \subseteq 1..Spent' /\ Spent + 1 \notin 1..Spent
  BY <1>1
<1>5. Numbered'
  <2>1. AllIds(file'.frames) \cup AllIds(disk'.frames) \cup Ids(buf') \subseteq 1..Spent'
    BY <1>1, <1>2, <1>3, <1>4
  <2>2. QED
    BY <2>1 DEF Numbered
<1>6. ASSUME NEW s \in Segments, AllIds(s.frames) \subseteq 1..Spent, InOrder(Recoverable(s), acked)
      PROVE  InOrder(Recoverable(s), acked')
  <2>1. \A i \in 1..Len(Recoverable(s)) : Recoverable(s)[i].id \in 1..Spent
    BY <1>6, RecoverableType
  <2>2. \A i \in 1..Len(Recoverable(s)) : Recoverable(s)[i].id \in acked' => Recoverable(s)[i].id \in acked
    BY <1>4, <2>1
  <2>3. QED
    BY <1>6, <2>2, AnswerOther
<1>7. InOrder(Recoverable(file'), acked')
  <2>1. CASE sound
    <3>1. Len(Recoverable(file')) \in Nat
      BY <1>2, RecoverableType
    <3>2. QED
      BY <2>1, <3>1, FrontInOrder
  <2>2. CASE ~sound
    <3>1. Recoverable(file') = Recoverable(file)
      BY <1>2, <2>2 DEF WalInv, LineBad
    <3>2. QED
      BY <1>1, <1>3, <1>6, <3>1 DEF WalInv
  <2>3. QED
    BY <2>1, <2>2
<1>8. InOrder(Recoverable(disk'), acked')
  <2>1. CASE disk' = disk
    <3>1. InOrder(Recoverable(disk), acked')
      BY <1>1, <1>3, <1>6 DEF WalInv
    <3>2. QED
      BY <2>1, <3>1
  <2>2. CASE disk' = file'
    BY <1>7, <2>2
  <2>3. QED
    BY <1>1, <2>1, <2>2
<1>9. OnDisk'
  <2>1. CASE disk' = file' /\ ~loose'
    <3>1. file'.base = disk'.base /\ Continues(disk'.frames, file'.frames)
      BY <1>2, <2>1, LenProperties DEF Continues, Segments
    <3>2. QED
      BY <2>1, <3>1 DEF OnDisk
  <2>2. CASE UNCHANGED <<disk, loose>> /\ ~loose /\ file.base = disk.base
             /\ Continues(disk.frames, file.frames)
    <3>1. Len(disk.frames) \in Nat /\ Len(file.frames) \in Nat /\ Len(file'.frames) \in Nat
      BY <1>1, <1>2, LenProperties DEF Segments
    <3>2. Continues(disk.frames, file'.frames)
      BY <1>2, <2>2, <3>1 DEF Continues
    <3>3. QED
      BY <1>2, <2>2, <3>2 DEF OnDisk
  <2>3. CASE UNCHANGED <<disk, loose>> /\ loose
             /\ AllIds(disk.frames) \cap (AllIds(file.frames) \cup Ids(buf) \cup acked) = {}
    <3>1. AllIds(disk.frames) \cap (AllIds(file'.frames) \cup Ids(buf') \cup acked') = {}
      BY <1>2, <1>3, <1>4, <2>3
    <3>2. QED
      BY <2>3, <3>1 DEF OnDisk
  <2>4. QED
    BY <2>1, <2>2, <2>3 DEF WalInv, OnDisk, Forced
<1>10. HeadKept'
  <2>1. (loose \/ file.base = NoHeader \/ Headless(disk)) => cut_off
    BY DEF WalInv, HeadKept
  <2>2. Headless(file') => file.base = NoHeader
    BY <1>2 DEF Headless
  <2>3. (Headless(disk') => Headless(disk) \/ Headless(file')) /\ (loose' => loose)
        /\ cut_off' = cut_off
    BY <1>1 DEF Forced
  <2>4. QED
    BY <1>2, <2>1, <2>2, <2>3 DEF HeadKept
<1>11. ~sound => Damaged(file')
  BY <1>2 DEF WalInv, LineBad
<1>12. QED
  BY <1>2, <1>5, <1>7, <1>8, <1>9, <1>10, <1>11

LEMMA AppendLine ==
  ASSUME NEW f \in Seq(Chunks), NEW b \in Seq(Chunks), NEW x \in Chunks
  PROVE  f \o Append(b, x) = Append(f \o b, x)
<1>1. Append(b, x) = b \o <<x>> /\ <<x>> \in Seq(Chunks)
  BY AppendIsConcat
<1>2. f \o b \in Seq(Chunks)
  BY ConcatProperties
<1>3. PICK fb : fb = f \o b
  OBVIOUS
<1>4. Append(fb, x) = fb \o <<x>>
  BY <1>2, <1>3, AppendIsConcat
<1>5. f \o (b \o <<x>>) = (f \o b) \o <<x>>
  BY <1>1, LineAssociative, Zenon
<1>6. QED
  BY <1>1, <1>3, <1>4, <1>5, Zenon

\* A sound segment and what its BufWriter holds.
LEMMA SoundLine ==
  ASSUME TypeOK, WalInv, proc = "up", sound
  PROVE  /\ file.base \in Nat /\ file.frames \in Seq(Frames) /\ Len(file.frames) \in Nat
         /\ Line \in Seq(Frames) /\ Len(Line) \in Nat
         /\ Continuable(Line, Len(file.frames), acked, next_seq)
         /\ \A i \in 1..Len(Line) : Line[i].id < Spent + 1
<1>1. /\ file.base \in Nat /\ file.frames \in Seq(Frames)
      /\ Continuable(Line, Len(file.frames), acked, next_seq)
  BY DEF WalInv, LineGood
<1>2. buf \in Seq(Frames) /\ Len(file.frames) \in Nat /\ Len(buf) \in Nat
  BY <1>1, LenProperties DEF TypeOK
<1>3. /\ Line \in Seq(Frames) /\ Len(Line) = Len(file.frames) + Len(buf)
      /\ \A i \in 1..Len(file.frames) + Len(buf) : Line[i] =
           IF i <= Len(file.frames) THEN file.frames[i] ELSE buf[i - Len(file.frames)]
  BY <1>1, <1>2, ConcatProperties DEF Line
<1>4. Ids(file.frames) \cup Ids(buf) \subseteq 1..Spent
  BY <1>1, WholeIds DEF WalInv, Numbered
<1>5. Spent \in Nat
  BY SpentFacts
<1>6. ASSUME NEW i \in 1..Len(Line)
      PROVE  Line[i].id < Spent + 1
  <2>1. CASE i \in 1..Len(file.frames)
    <3>1. Line[i] = file.frames[i] /\ file.frames[i].id \in Ids(file.frames)
      BY <1>2, <1>3, <2>1 DEF Ids
    <3>2. QED
      BY <1>4, <1>5, <3>1
  <2>2. CASE i - Len(file.frames) \in 1..Len(buf)
    <3>1. PICK j \in 1..Len(buf) : j = i - Len(file.frames)
      BY <2>2
    <3>2. Line[i] = buf[j]
      BY <1>2, <1>3, <3>1
    <3>3. buf[j].id \in Ids(buf)
      BY DEF Ids
    <3>4. QED
      BY <1>4, <1>5, <3>2, <3>3
  <2>3. QED
    BY <1>2, <1>3, <2>1, <2>2
<1>7. QED
  BY <1>1, <1>2, <1>3, <1>6

\* The next frame continues it, whether its append succeeds or not.
LEMMA SoundAppend ==
  ASSUME TypeOK, WalInv, proc = "up", sound, budget.appends > 0
  PROVE  /\ file.frames \o Append(buf, NewFrame) \in Seq(Frames)
         /\ Len(file.frames \o Append(buf, NewFrame)) \in Nat
         /\ Continuable(file.frames \o Append(buf, NewFrame), Len(file.frames), acked, next_seq)
         /\ Continuable(file.frames \o Append(buf, NewFrame),
                        Len(file.frames \o Append(buf, NewFrame)),
                        acked \cup {Spent + 1}, next_seq + 1)
<1>1. /\ file.frames \in Seq(Frames) /\ Len(file.frames) \in Nat /\ Line \in Seq(Frames)
      /\ Continuable(Line, Len(file.frames), acked, next_seq)
      /\ \A i \in 1..Len(Line) : Line[i].id < Spent + 1
  BY SoundLine
<1>2. /\ NewFrame \in Frames /\ NewFrame.seq = next_seq /\ NewFrame.id = Spent + 1
      /\ Spent + 1 \in Attempts /\ Spent \in Nat
  BY NewFrameFacts
<1>3. next_seq \in Nat /\ Spent + 1 \notin acked
  <2>1. acked \subseteq 1..Spent /\ next_seq \in Nat
    BY DEF TypeOK, WalInv, Numbered
  <2>2. Spent + 1 \notin 1..Spent
    BY <1>2
  <2>3. QED
    BY <2>1, <2>2
<1>4. PICK longer, frame, n : longer = Append(Line, NewFrame) /\ frame = NewFrame /\ n = Spent + 1
  OBVIOUS
<1>5. file.frames \o Append(buf, NewFrame) = longer
  <2>1. file.frames \in Seq(Chunks) /\ buf \in Seq(Chunks) /\ frame \in Chunks
    BY <1>1, <1>2, <1>4, WholeIds DEF TypeOK, Chunks
  <2>2. file.frames \o Append(buf, frame) = Append(file.frames \o buf, frame)
    BY <2>1, AppendLine
  <2>3. QED
    BY <1>4, <2>2 DEF Line
<1>6. longer \in Seq(Frames) /\ Len(longer) \in Nat
  <2>1. longer = Append(Line, frame) /\ frame \in Frames
    BY <1>2, <1>4
  <2>2. QED
    BY <1>1, <2>1, AppendProperties, LenProperties
<1>7. /\ Continuable(longer, Len(file.frames), acked, next_seq)
      /\ Continuable(longer, Len(longer), acked \cup {Spent + 1}, next_seq + 1)
  <2>1. /\ frame \in Frames /\ frame.seq = next_seq /\ frame.id = n /\ n \in Attempts
        /\ n \notin acked /\ longer = Append(Line, frame)
        /\ \A i \in 1..Len(Line) : Line[i].id < n
    BY <1>1, <1>2, <1>3, <1>4
  <2>2. /\ Continuable(longer, Len(file.frames), acked, next_seq)
        /\ Continuable(longer, Len(longer), acked \cup {n}, next_seq + 1)
    BY <1>1, <1>3, <2>1, ContinuableAppend
  <2>3. QED
    BY <1>4, <2>2
<1>8. QED
  BY <1>5, <1>6, <1>7

\* A flush that stops short: written or not, the line is the same.
LEMMA FlushKeeps ==
  ASSUME TypeOK, TypeOK', WalInv, proc = "up",
         NEW p \in Seq(Frames), PartialFlush(p),
         NEW a \in {0, 1}, Charged(a),
         Ids(p) \subseteq Ids(buf) \cup {Spent + 1}, Ids(p) \subseteq 1..Spent',
         UNCHANGED <<proc, disk, loose, next_seq, cut_off, sound, acked, owed>>,
         sound => Continuable(file.frames \o p, Len(file.frames), acked, next_seq)
  PROVE  WalInv'
<1>1. PICK w \in Seq(Frames) :
        /\ file' = Extend(file, w)
        /\ file'.frames \o buf' = file.frames \o p
        /\ Ids(w) \cup Ids(buf') \subseteq Ids(p)
  BY PartialFlushFacts
<1>2. buf' \in Seq(Frames) /\ buf' # <<>>
  BY PartialFlushFacts
<1>3. w \in Seq(Chunks) /\ AllIds(w) = Ids(w) /\ file \in Segments
  BY WholeIds DEF TypeOK
<1>4. /\ file' \in Segments /\ file'.base = file.base /\ file'.frames = file.frames \o w
      /\ Len(file'.frames) = Len(file.frames) + Len(w)
  BY <1>1, <1>3, ExtendRecoverable
<1>5. PICK line : line = file.frames \o p
  OBVIOUS
<1>6. Len(line) \in Nat
  <2>1. file.frames \in Seq(Chunks) /\ p \in Seq(Chunks)
    BY <1>3, WholeIds DEF Segments, Chunks
  <2>2. line \in Seq(Chunks)
    BY <1>5, <2>1, ConcatProperties
  <2>3. QED
    BY <2>2, LenProperties
<1>7. sound => /\ file'.frames \in Seq(Frames) /\ file'.base \in Nat
               /\ Recoverable(file') = file'.frames
               /\ Continues(file'.frames, line)
               /\ Len(file.frames) \in Nat /\ Len(file'.frames) \in Nat
               /\ Len(file.frames) <= Len(file'.frames)
  <2>1. SUFFICES ASSUME sound
                 PROVE  /\ file'.frames \in Seq(Frames) /\ file'.base \in Nat
                        /\ Recoverable(file') = file'.frames
                        /\ Continues(file'.frames, line)
                        /\ Len(file.frames) \in Nat /\ Len(file'.frames) \in Nat
                        /\ Len(file.frames) <= Len(file'.frames)
    OBVIOUS
  <2>2. file.base \in Nat /\ file.frames \in Seq(Frames) /\ Len(file.frames) \in Nat
    BY <2>1, SoundLine
  <2>3. file'.frames \in Seq(Frames)
    <3>1. file.frames \o w \in Seq(Frames)
      BY <2>2, ConcatProperties
    <3>2. QED
      BY <1>4, <3>1
  <2>4. Recoverable(file') = file'.frames
    BY <1>4, <2>2, <2>3, RecoverableWhole
  <2>5. Continues(file'.frames, line)
    <3>1. file'.frames \in Seq(Chunks) /\ buf' \in Seq(Chunks)
      BY <1>2, <2>3, WholeIds
    <3>2. Continues(file'.frames, file'.frames \o buf')
      BY <1>4, <3>1, ExtendFacts
    <3>3. QED
      BY <1>1, <1>5, <3>2
  <2>6. Len(w) \in Nat
    BY LenProperties
  <2>7. QED
    BY <1>4, <2>2, <2>3, <2>4, <2>5, <2>6
<1>8. sound => InOrder(line, acked')
  BY <1>5 DEF Continuable
<1>9. acked' \subseteq acked \cup {Spent + 1} /\ acked' \subseteq 1..Spent'
  <2>1. Spent \in Nat /\ Spent' = Spent + a /\ acked \subseteq 1..Spent
    BY SpentFacts DEF Charged, WalInv, Numbered
  <2>2. 1..Spent \subseteq 1..Spent'
    BY <2>1
  <2>3. QED
    BY <2>1, <2>2
<1>10. /\ Numbered' /\ InOrder(Recoverable(file), acked)' /\ InOrder(Recoverable(disk), acked)'
       /\ OnDisk' /\ HeadKept' /\ (~sound => Damaged(file'))
       /\ Ids(Recoverable(file)) \subseteq Ids(Recoverable(file'))
  <2>1. /\ proc' \in {"up", "down"} /\ Forced
        /\ AllIds(w) \cup Ids(buf') \subseteq Ids(buf) \cup {Spent + 1}
        /\ AllIds(w) \cup Ids(buf') \subseteq 1..Spent'
        /\ sound => Continues(Recoverable(file'), line) /\ InOrder(line, acked')
    BY <1>1, <1>3, <1>7, <1>8 DEF Forced
  <2>2. QED
    BY <1>1, <1>3, <1>6, <1>9, <2>1, Written
<1>11. Flushed' /\ Rotating'
  BY DEF Flushed, Rotating, InHeader
<1>12. LineGood'
  <2>1. SUFFICES ASSUME sound
                 PROVE  Continuable(file'.frames \o buf', Len(file'.frames), acked, next_seq)
    BY <1>7 DEF LineGood, Line
  <2>2. Continuable(line, Len(file.frames), acked, next_seq)
    BY <1>5, <2>1
  <2>3. Continuable(line, Len(file'.frames), acked, next_seq)
    BY <1>6, <1>7, <2>1, <2>2, ContinuableWritten
  <2>4. QED
    BY <1>1, <1>5, <2>3
<1>13. LineBad'
  BY <1>10 DEF LineBad
<1>14. OwedRecoverable'
  BY <1>10 DEF WalInv, OwedRecoverable
<1>15. QED
  BY <1>10, <1>11, <1>12, <1>13, <1>14 DEF WalInv

LEMMA AppendFrameKeeps ==
  ASSUME TypeOK, TypeOK', WalInv, AppendFrame
  PROVE  WalInv'
<1>1. /\ proc = "up" /\ proc' = "up" /\ Forced /\ buf' = <<>> /\ sound' = sound
      /\ next_seq' = next_seq + 1
      /\ budget.appends > 0 /\ Charged(1)
  BY Charges DEF AppendFrame, Forced
<1>2. /\ NewFrame.id = Spent + 1 /\ Append(buf, NewFrame) \in Seq(Frames)
      /\ Ids(Append(buf, NewFrame)) = Ids(buf) \cup {Spent + 1} /\ Spent \in Nat
  BY <1>1, NewFrameFacts
<1>3. PICK w, n : w = Append(buf, NewFrame) /\ n = Spent + 1
  OBVIOUS
<1>4. /\ w \in Seq(Frames) /\ w \in Seq(Chunks) /\ AllIds(w) = Ids(buf) \cup {n}
      /\ file \in Segments /\ file' = Extend(file, w) /\ acked' = acked \cup {n}
      /\ owed' = IF sound THEN owed \cup {n} ELSE owed
  BY <1>2, <1>3, WholeIds DEF TypeOK, AppendFrame
<1>5. /\ file' \in Segments /\ file'.base = file.base /\ file'.frames = file.frames \o w
  BY <1>4, ExtendRecoverable
<1>6. PICK line : line = file'.frames
  OBVIOUS
<1>7. sound => /\ line \in Seq(Frames) /\ file'.base \in Nat
               /\ Recoverable(file') = line
               /\ Continuable(line, Len(line), acked', next_seq')
  <2>1. SUFFICES ASSUME sound
                 PROVE  /\ line \in Seq(Frames) /\ file'.base \in Nat
                        /\ Recoverable(file') = line
                        /\ Continuable(line, Len(line), acked', next_seq')
    OBVIOUS
  <2>2. file.base \in Nat
    BY <1>1, <2>1, SoundLine
  <2>3. /\ line \in Seq(Frames)
        /\ Continuable(line, Len(line), acked \cup {n}, next_seq + 1)
    BY <1>1, <1>3, <1>5, <1>6, <2>1, SoundAppend
  <2>4. Recoverable(file') = line
    BY <1>5, <1>6, <2>2, <2>3, RecoverableWhole
  <2>5. QED
    BY <1>1, <1>4, <1>5, <2>2, <2>3, <2>4
<1>8. Len(line) \in Nat /\ Continues(line, line)
  BY <1>5, <1>6, LenProperties DEF Segments, Continues
<1>9. acked' \subseteq 1..Spent' /\ AllIds(w) \cup Ids(buf') \subseteq 1..Spent'
      /\ AllIds(w) \cup Ids(buf') \subseteq Ids(buf) \cup {Spent + 1}
  <2>1. Spent' = Spent + 1 /\ acked \subseteq 1..Spent /\ Ids(buf) \subseteq 1..Spent
    BY <1>1 DEF Charged, WalInv, Numbered
  <2>2. 1..Spent \cup {Spent + 1} \subseteq 1..Spent'
    BY <1>2, <2>1
  <2>3. Ids(buf') = {}
    BY <1>1, EmptyFacts
  <2>4. QED
    BY <1>3, <1>4, <2>1, <2>2, <2>3
<1>10. /\ Numbered' /\ InOrder(Recoverable(file), acked)' /\ InOrder(Recoverable(disk), acked)'
       /\ OnDisk' /\ HeadKept' /\ (~sound => Damaged(file'))
       /\ Ids(Recoverable(file)) \subseteq Ids(Recoverable(file'))
  <2>1. /\ proc' \in {"up", "down"} /\ Forced
        /\ acked' \subseteq acked \cup {Spent + 1}
        /\ sound => Continues(Recoverable(file'), line) /\ InOrder(line, acked')
    BY <1>1, <1>3, <1>4, <1>7, <1>8 DEF Continuable
  <2>2. QED
    BY <1>1, <1>4, <1>8, <1>9, <2>1, Written
<1>11. Flushed' /\ Rotating'
  BY <1>1 DEF Flushed, Rotating, InHeader
<1>12. LineGood'
  <2>1. sound => file'.frames \o buf' = line
    BY <1>1, <1>6, <1>7, ConcatEmptySeq
  <2>2. QED
    BY <1>1, <1>6, <1>7, <2>1 DEF LineGood, Line
<1>13. LineBad'
  BY <1>1, <1>10 DEF LineBad
<1>14. OwedRecoverable'
  <2>1. CASE ~sound
    BY <1>4, <1>10, <2>1 DEF WalInv, OwedRecoverable
  <2>2. CASE sound
    <3>1. n \in Ids(Recoverable(file'))
      <4>1. file.frames \in Seq(Chunks)
        BY <1>4 DEF Segments, Chunks
      <4>2. /\ Len(line) = Len(file.frames) + Len(w) /\ Len(file.frames) \in Nat /\ Len(w) \in Nat
            /\ \A i \in 1..Len(file.frames) + Len(w) : line[i] =
                 IF i <= Len(file.frames) THEN file.frames[i] ELSE w[i - Len(file.frames)]
        BY <1>4, <1>5, <1>6, <4>1, ConcatProperties, LenProperties
      <4>3. PICK i \in 1..Len(w) : w[i].id = n
        <5>1. n \in Ids(w)
          BY <1>2, <1>3
        <5>2. QED
          BY <5>1 DEF Ids
      <4>4. Len(file.frames) + i \in 1..Len(line) /\ line[Len(file.frames) + i] = w[i]
        <5>1. PICK a, b : a = Len(file.frames) /\ b = Len(w)
          OBVIOUS
        <5>2. a \in Nat /\ b \in Nat /\ i \in 1..b /\ Len(line) = a + b
          BY <4>2, <5>1
        <5>3. a + i \in 1..a + b /\ ~(a + i <= a) /\ (a + i) - a = i
          BY <5>2
        <5>4. \A j \in 1..a + b : line[j] = IF j <= a THEN file.frames[j] ELSE w[j - a]
          BY <4>2, <5>1
        <5>5. line[a + i] = w[(a + i) - a]
          BY <5>3, <5>4
        <5>6. QED
          BY <5>1, <5>2, <5>3, <5>5
      <4>5. n \in Ids(line)
        BY <4>3, <4>4 DEF Ids
      <4>6. QED
        BY <1>7, <2>2, <4>5
    <3>2. QED
      BY <1>4, <1>10, <2>2, <3>1 DEF WalInv, OwedRecoverable
  <2>3. QED
    BY <2>1, <2>2
<1>15. QED
  BY <1>10, <1>11, <1>12, <1>13, <1>14 DEF WalInv

\* The whole buffer is written, and perhaps part of a frame behind it.
LEMMA DrainFacts ==
  ASSUME TypeOK, WalInv, proc = "up", NEW w, w \in {buf, buf \o <<Torn>>},
         file' = Extend(file, w)
  PROVE  /\ w \in Seq(Chunks) /\ AllIds(w) = Ids(buf)
         /\ w # buf => Damaged(file')
         /\ sound => /\ Recoverable(file') = Line
                     /\ w = buf => file'.frames = Line /\ file'.base \in Nat
<1>1. buf \in Seq(Chunks) /\ AllIds(buf) = Ids(buf) /\ file \in Segments
  BY WholeIds DEF TypeOK
<1>2. /\ buf \o <<Torn>> \in Seq(Chunks) /\ Len(buf \o <<Torn>>) = Len(buf) + 1 /\ Len(buf) \in Nat
      /\ \A i \in 1..Len(buf) + 1 : (buf \o <<Torn>>)[i] = IF i <= Len(buf) THEN buf[i] ELSE <<Torn>>[i - Len(buf)]
  BY <1>1, TornFacts, ConcatProperties, LenProperties
<1>3. w \in Seq(Chunks) /\ AllIds(w) = Ids(buf)
  <2>1. CASE w = buf
    BY <1>1, <2>1
  <2>2. CASE w = buf \o <<Torn>>
    <3>1. /\ Len(w) = Len(buf) + 1
          /\ \A i \in 1..Len(buf) : i \in 1..Len(w) /\ w[i] = buf[i]
          /\ w[Len(buf) + 1] = Torn
      BY <1>2, <2>2, TornFacts
    <3>2. \A i \in 1..Len(w) : i \in 1..Len(buf) \/ i = Len(buf) + 1
      BY <1>2, <3>1
    <3>3. AllIds(w) = AllIds(buf)
      BY <3>1, <3>2 DEF AllIds
    <3>4. QED
      BY <1>1, <1>2, <2>2, <3>3
  <2>3. QED
    BY <2>1, <2>2
<1>4. /\ file' \in Segments /\ file'.base = file.base /\ file'.frames = file.frames \o w
  BY <1>1, <1>3, ExtendRecoverable
<1>5. ASSUME w # buf PROVE Damaged(file')
  <2>1. file.frames \in Seq(Chunks) /\ Len(file.frames) \in Nat
    BY <1>1, LenProperties DEF Segments, Chunks
  <2>2. /\ Len(file.frames \o w) = Len(file.frames) + Len(w)
        /\ \A i \in 1..Len(file.frames) + Len(w) : (file.frames \o w)[i] =
             IF i <= Len(file.frames) THEN file.frames[i] ELSE w[i - Len(file.frames)]
    BY <1>3, <2>1, ConcatProperties
  <2>3. Len(w) = Len(buf) + 1 /\ w[Len(buf) + 1] = Torn
    BY <1>2, <1>5, TornFacts
  <2>4. PICK m, k : m = Len(file.frames) /\ k = Len(buf) + 1
    OBVIOUS
  <2>5. m \in Nat /\ k \in Nat /\ k > 0 /\ k = Len(w) /\ m + k \in 1..m + k /\ ~(m + k <= m)
        /\ (m + k) - m = k
    <3>1. PICK b : b = Len(buf)
      OBVIOUS
    <3>2. m \in Nat /\ b \in Nat /\ k = b + 1
      BY <1>2, <2>1, <2>4, <3>1, Zenon
    <3>3. k = Len(w)
      BY <2>3, <2>4, Zenon
    <3>4. k \in Nat /\ k > 0 /\ m + k \in 1..m + k /\ ~(m + k <= m) /\ (m + k) - m = k
      BY <3>2
    <3>5. QED
      BY <3>2, <3>3, <3>4
  <2>6. Len(file.frames \o w) = m + k
        /\ (file.frames \o w)[m + k] = w[(m + k) - m]
    <3>1. PICK g : g = file.frames \o w
      OBVIOUS
    <3>2. /\ Len(g) = m + k
          /\ \A i \in 1..m + k : g[i] = IF i <= m THEN file.frames[i] ELSE w[i - m]
      BY <2>2, <2>4, <2>5, <3>1
    <3>3. g[m + k] = w[(m + k) - m]
      BY <2>5, <3>2
    <3>4. QED
      BY <3>1, <3>2, <3>3
  <2>7. m + k \in 1..Len(file'.frames) /\ file'.frames[m + k] = Torn
    BY <1>4, <2>3, <2>4, <2>5, <2>6
  <2>8. QED
    BY <2>7 DEF Damaged
<1>6. ASSUME sound
      PROVE  /\ Recoverable(file') = Line
             /\ w = buf => file'.frames = Line /\ file'.base \in Nat
  <2>1. file.base \in Nat /\ Line \in Seq(Frames) /\ file.frames \in Seq(Chunks)
    BY <1>1, <1>6, SoundLine DEF Segments, Chunks
  <2>2. CASE w = buf
    <3>1. file'.frames = Line
      BY <1>4, <2>2 DEF Line
    <3>2. QED
      BY <1>4, <2>1, <3>1, RecoverableWhole
  <2>3. CASE w = buf \o <<Torn>> /\ w # buf
    <3>1. file.frames \o (buf \o <<Torn>>) = (file.frames \o buf) \o <<Torn>>
      BY <1>1, <2>1, TornFacts, LineAssociative, Zenon
    <3>2. file'.frames = Line \o <<Torn>>
      BY <1>4, <2>3, <3>1 DEF Line
    <3>3. ParseFrames(file'.frames) = Line
      BY <2>1, <3>2, ParseTorn
    <3>4. Recoverable(file') = Line
      BY <1>4, <2>1, <3>3, MarkersAssumption DEF Recoverable, MarkersAssumption
    <3>5. QED
      BY <2>3, <3>4
  <2>4. QED
    BY <2>2, <2>3
<1>7. QED
  BY <1>3, <1>5, <1>6

\* The buffer is written, with success or with an error behind it.
LEMMA DrainKeeps ==
  ASSUME TypeOK, TypeOK', WalInv, proc = "up", NEW w, w \in {buf, buf \o <<Torn>>},
         file' = Extend(file, w), buf' = <<>>, Forced,
         NEW a \in {0, 1}, Charged(a),
         UNCHANGED <<acked, owed>>,
         \/ proc' = "up" /\ next_seq' = next_seq /\ sound' = (sound /\ w = buf)
         \/ proc' = "down"
  PROVE  WalInv'
<1>1. /\ w \in Seq(Chunks) /\ AllIds(w) = Ids(buf)
      /\ w # buf => Damaged(file')
      /\ sound => /\ Recoverable(file') = Line
                  /\ w = buf => file'.frames = Line /\ file'.base \in Nat
  BY DrainFacts
<1>2. PICK line : line = Recoverable(file')
  OBVIOUS
<1>3. file' \in Segments /\ Len(line) \in Nat
  BY <1>2, RecoverableType DEF TypeOK
<1>4. sound => InOrder(line, acked')
  <2>1. SUFFICES ASSUME sound PROVE InOrder(line, acked)
    OBVIOUS
  <2>2. InOrder(Line, acked)
    BY <2>1, SoundLine DEF Continuable
  <2>3. QED
    BY <1>1, <1>2, <2>1, <2>2
<1>5. /\ acked' \subseteq acked \cup {Spent + 1} /\ acked' \subseteq 1..Spent'
      /\ AllIds(w) \cup Ids(buf') \subseteq Ids(buf) \cup {Spent + 1}
      /\ AllIds(w) \cup Ids(buf') \subseteq 1..Spent'
  <2>1. /\ Spent \in Nat /\ Spent' = Spent + a /\ acked \subseteq 1..Spent
        /\ Ids(buf) \subseteq 1..Spent
    BY SpentFacts DEF Charged, WalInv, Numbered
  <2>2. 1..Spent \subseteq 1..Spent'
    BY <2>1
  <2>3. Ids(buf') = {}
    BY EmptyFacts
  <2>4. QED
    BY <1>1, <2>1, <2>2, <2>3
<1>6. /\ Numbered' /\ InOrder(Recoverable(file), acked)' /\ InOrder(Recoverable(disk), acked)'
      /\ OnDisk' /\ HeadKept' /\ (~sound => Damaged(file'))
      /\ Ids(Recoverable(file)) \subseteq Ids(Recoverable(file'))
  <2>1. /\ proc' \in {"up", "down"}
        /\ sound => Continues(Recoverable(file'), line) /\ InOrder(line, acked')
    BY <1>2, <1>3, <1>4 DEF Continues
  <2>2. QED
    BY <1>1, <1>3, <1>5, <2>1, Written
<1>7. Flushed' /\ Rotating'
  BY DEF Flushed, Rotating, InHeader
<1>8. LineGood'
  <2>1. SUFFICES ASSUME proc' = "up", sound'
                 PROVE  /\ file'.base \in Nat /\ file'.frames \in Seq(Frames)
                        /\ Continuable(file'.frames \o buf', Len(file'.frames), acked', next_seq')
    BY DEF LineGood, Line
  <2>2. sound /\ w = buf /\ next_seq' = next_seq
    BY <2>1
  <2>3. /\ Line \in Seq(Frames) /\ Len(Line) \in Nat /\ Len(file.frames) \in Nat
        /\ Continuable(Line, Len(file.frames), acked, next_seq)
    BY <2>2, SoundLine
  <2>4. Len(file.frames) <= Len(Line)
    <3>1. file.frames \in Seq(Frames) /\ buf \in Seq(Frames) /\ Len(buf) \in Nat
      BY <2>2, SoundLine, LenProperties DEF TypeOK
    <3>2. Len(Line) = Len(file.frames) + Len(buf)
      BY <3>1, ConcatProperties DEF Line
    <3>3. QED
      BY <2>3, <3>1, <3>2
  <2>5. Continuable(Line, Len(Line), acked, next_seq)
    BY <2>3, <2>4, ContinuableWritten
  <2>6. file'.frames = Line /\ file'.frames \o buf' = Line /\ file'.base \in Nat
    BY <1>1, <2>2, <2>3, ConcatEmptySeq
  <2>7. QED
    BY <2>2, <2>3, <2>5, <2>6
<1>9. LineBad'
  BY <1>1, <1>6 DEF LineBad
<1>10. OwedRecoverable'
  BY <1>6 DEF WalInv, OwedRecoverable
<1>11. QED
  BY <1>6, <1>7, <1>8, <1>9, <1>10 DEF WalInv

LEMMA AppendFailsKeeps ==
  ASSUME TypeOK, TypeOK', WalInv, AppendFails
  PROVE  WalInv'
<1>1. /\ proc = "up" /\ UNCHANGED <<proc, disk, loose, next_seq, cut_off, acked, owed>>
      /\ budget.appends > 0 /\ Charged(1) /\ Forced
  BY Charges DEF AppendFails, Forced
<1>2. Ids(buf) \subseteq 1..Spent' /\ Spent + 1 \in 1..Spent'
  <2>1. Spent \in Nat /\ Spent' = Spent + 1 /\ Ids(buf) \subseteq 1..Spent
    BY <1>1, SpentFacts DEF Charged, WalInv, Numbered
  <2>2. 1..Spent \subseteq 1..Spent' /\ Spent + 1 \in 1..Spent'
    BY <2>1
  <2>3. QED
    BY <2>1, <2>2
<1>3. CASE PartialFlush(Append(buf, NewFrame)) /\ UNCHANGED sound
  <2>1. PICK p : p = Append(buf, NewFrame)
    OBVIOUS
  <2>2. p \in Seq(Frames) /\ Ids(p) = Ids(buf) \cup {Spent + 1}
    BY <1>1, <2>1, NewFrameFacts
  <2>3. sound => Continuable(file.frames \o p, Len(file.frames), acked, next_seq)
    BY <1>1, <2>1, SoundAppend
  <2>4. /\ PartialFlush(p) /\ UNCHANGED <<proc, disk, loose, next_seq, cut_off, sound, acked, owed>>
        /\ Ids(p) \subseteq Ids(buf) \cup {Spent + 1} /\ Ids(p) \subseteq 1..Spent'
    BY <1>1, <1>2, <1>3, <2>1, <2>2
  <2>5. QED
    BY <1>1, <2>2, <2>3, <2>4, FlushKeeps
<1>4. CASE PartialFlush(buf) /\ UNCHANGED sound
  <2>1. sound => Continuable(file.frames \o buf, Len(file.frames), acked, next_seq)
    BY <1>1, SoundLine DEF Line
  <2>2. /\ buf \in Seq(Frames)
        /\ UNCHANGED <<proc, disk, loose, next_seq, cut_off, sound, acked, owed>>
        /\ Ids(buf) \subseteq Ids(buf) \cup {Spent + 1}
    BY <1>1, <1>4 DEF TypeOK
  <2>3. PICK p : p = buf
    OBVIOUS
  <2>4. QED
    BY <1>1, <1>2, <1>4, <2>1, <2>2, <2>3, FlushKeeps
<1>5. ASSUME NEW written \in {<<>>, <<Torn>>},
             file' = Extend(file, buf \o written), buf' = <<>>, half' = FALSE,
             sound' = (sound /\ written = <<>>)
      PROVE  WalInv'
  <2>1. PICK w : w = buf \o written
    OBVIOUS
  <2>2. buf \o <<>> = buf /\ buf \in Seq(Frames)
    BY ConcatEmptySeq DEF TypeOK
  <2>3. buf \o <<Torn>> # buf
    <3>1. Len(buf \o <<Torn>>) = Len(buf) + 1 /\ Len(buf) \in Nat
      BY <2>2, WholeIds, TornFacts, ConcatProperties, LenProperties
    <3>2. QED
      BY <3>1
  <2>4. w \in {buf, buf \o <<Torn>>} /\ (w = buf <=> written = <<>>)
    <3>1. <<Torn>> # <<>>
      BY TornFacts, EmptyFacts
    <3>2. QED
      BY <1>5, <2>1, <2>2, <2>3, <3>1
  <2>5. sound' = (sound /\ w = buf)
    BY <1>5, <2>4
  <2>6. QED
    BY <1>1, <1>5, <2>1, <2>4, <2>5, DrainKeeps
<1>6. QED
  BY <1>3, <1>4, <1>5 DEF AppendFails

LEMMA SyncDataKeeps ==
  ASSUME TypeOK, TypeOK', WalInv, SyncData
  PROVE  WalInv'
<1>1. /\ proc = "up" /\ proc' = "up" /\ file' = Extend(file, buf) /\ buf' = <<>> /\ Forced
      /\ next_seq' = next_seq /\ sound' = sound /\ acked' = acked /\ owed' = owed
  BY DEF SyncData, observed, Forced
<1>2. Charged(0)
  BY Charges DEF SyncData
<1>3. PICK w : w = buf
  OBVIOUS
<1>4. sound' = (sound /\ w = buf)
  BY <1>1, <1>3 DEF TypeOK
<1>5. QED
  BY <1>1, <1>2, <1>3, <1>4, DrainKeeps, Zenon

\* A process that dies between two calls.
LEMMA CrashKeeps ==
  ASSUME TypeOK, TypeOK', WalInv, Crash
  PROVE  WalInv'
<1>1. /\ Running /\ proc' = "down" /\ file' = Extend(file, Partial) /\ buf' = <<>>
      /\ UNCHANGED <<disk, loose, next_seq, sound, acked, owed>> /\ Charged(0)
      /\ InHeader => cut_off' = TRUE
      /\ ~InHeader => cut_off' = cut_off
  BY Charges, Interrupts DEF Crash
<1>2. PICK w : w = Partial
  OBVIOUS
<1>3. w \in Seq(Chunks) /\ AllIds(w) = {} /\ w \in {<<>>, <<Torn>>}
  BY <1>2, EmptyFacts, TornFacts DEF Partial
<1>4. file \in Segments /\ file.frames \in Seq(Chunks)
  BY DEF TypeOK, Segments, Chunks
<1>5. /\ file' \in Segments /\ file'.base = file.base /\ file'.frames = file.frames \o w
      /\ Ids(Recoverable(file)) \subseteq Ids(Recoverable(file'))
      /\ AllIds(file'.frames) = AllIds(file.frames)
  <2>1. file' = Extend(file, w)
    BY <1>1, <1>2
  <2>2. /\ file' \in Segments /\ file'.base = file.base /\ file'.frames = file.frames \o w
        /\ Ids(Recoverable(file)) \subseteq Ids(Recoverable(file'))
        /\ AllIds(file'.frames) = AllIds(file.frames) \cup AllIds(w)
    BY <1>3, <1>4, <2>1, ExtendRecoverable, Zenon
  <2>3. QED
    BY <1>3, <2>2
<1>6. Spent' = Spent /\ Spent \in Nat
  BY <1>1, SpentFacts DEF Charged
<1>7. Flushed' /\ Rotating' /\ LineGood' /\ LineBad'
  BY <1>1 DEF Flushed, Rotating, LineGood, LineBad, InHeader
<1>8. OwedRecoverable'
  BY <1>1, <1>5 DEF WalInv, OwedRecoverable
<1>9. CASE proc = "up"
  <2>1. PICK line : line = file.frames
    OBVIOUS
  <2>2. Len(line) \in Nat
    BY <1>4, <2>1, LenProperties
  <2>3. ASSUME sound
        PROVE  Continues(Recoverable(file'), line) /\ InOrder(line, acked')
    <3>1. /\ file.base \in Nat /\ file.frames \in Seq(Frames)
          /\ Line \in Seq(Frames) /\ Len(Line) \in Nat /\ InOrder(Line, acked)
      BY <1>9, <2>3, SoundLine DEF Continuable
    <3>2. Continues(line, Line)
      <4>1. buf \in Seq(Chunks)
        BY WholeIds DEF TypeOK
      <4>2. Continues(file.frames, file.frames \o buf)
        BY <1>4, <4>1, ExtendFacts
      <4>3. QED
        BY <2>1, <4>2 DEF Line
    <3>3. InOrder(line, acked')
      BY <1>1, <2>2, <3>1, <3>2, FrontInOrder
    <3>4. Recoverable(file') = line
      <4>1. CASE w = <<>>
        <5>1. file'.frames = line
          BY <1>4, <1>5, <2>1, <4>1, ConcatEmptySeq
        <5>2. QED
          BY <1>5, <2>1, <3>1, <5>1, RecoverableWhole
      <4>2. CASE w = <<Torn>>
        <5>1. ParseFrames(file'.frames) = line
          BY <1>5, <2>1, <3>1, <4>2, ParseTorn
        <5>2. file'.base # NoHeader
          BY <1>5, <3>1, MarkersAssumption DEF MarkersAssumption
        <5>3. QED
          BY <5>1, <5>2 DEF Recoverable
      <4>3. QED
        BY <1>3, <4>1, <4>2
    <3>5. QED
      BY <2>2, <3>3, <3>4 DEF Continues
  <2>4. /\ acked' \subseteq acked \cup {Spent + 1} /\ acked' \subseteq 1..Spent'
        /\ AllIds(w) \cup Ids(buf') \subseteq Ids(buf) \cup {Spent + 1}
        /\ AllIds(w) \cup Ids(buf') \subseteq 1..Spent'
        /\ proc' \in {"up", "down"} /\ Forced /\ file' = Extend(file, w)
    BY <1>1, <1>2, <1>3, <1>6, <1>9, EmptyFacts DEF WalInv, Numbered, Forced, InHeader
  <2>5. /\ Numbered' /\ InOrder(Recoverable(file), acked)' /\ InOrder(Recoverable(disk), acked)'
        /\ OnDisk' /\ HeadKept'
    BY <1>1, <1>3, <1>9, <2>2, <2>3, <2>4, Written
  <2>6. QED
    BY <1>7, <1>8, <2>5 DEF WalInv
<1>10. CASE InHeader
  <2>1. buf = <<>> /\ w = <<>>
    BY <1>2, <1>10 DEF WalInv, Flushed, TypeOK, Partial, InHeader
  <2>2. file'.frames = file.frames
    BY <1>4, <1>5, <2>1, ConcatEmptySeq
  <2>3. Recoverable(file') = Recoverable(file)
    BY <1>5, <2>2 DEF Recoverable
  <2>4. /\ Numbered' /\ InOrder(Recoverable(file), acked)' /\ InOrder(Recoverable(disk), acked)'
    BY <1>1, <1>5, <1>6, <2>1, <2>3 DEF WalInv, Numbered
  <2>5. OnDisk'
    BY <1>1, <1>5, <2>1, <2>2 DEF WalInv, OnDisk
  <2>6. HeadKept'
    BY <1>1, <1>10 DEF HeadKept
  <2>7. QED
    BY <1>7, <1>8, <2>4, <2>5, <2>6 DEF WalInv
<1>11. QED
  BY <1>1, <1>9, <1>10 DEF Running, InHeader

LEMMA CrashInAppendKeeps ==
  ASSUME TypeOK, TypeOK', WalInv, CrashInAppend
  PROVE  WalInv'
<1>1. /\ proc = "up" /\ proc' = "down" /\ buf' = <<>>
      /\ Forced /\ UNCHANGED <<next_seq, sound, acked, owed>>
      /\ budget.appends > 0 /\ Charged(1)
  BY Charges DEF CrashInAppend, observed, Forced
<1>2. buf \in Seq(Frames) /\ buf \in Seq(Chunks)
  BY WholeIds DEF TypeOK
<1>3. CASE file' = Extend(file, Append(buf, Torn))
  <2>1. Torn \in Chunks
    BY DEF Chunks
  <2>2. Append(buf, Torn) = buf \o <<Torn>>
    BY <1>2, <2>1, AppendIsConcat
  <2>3. PICK w : w = buf \o <<Torn>>
    OBVIOUS
  <2>4. file' = Extend(file, w) /\ w \in {buf, buf \o <<Torn>>}
    BY <1>1, <1>3, <2>2, <2>3
  <2>5. QED
    BY <1>1, <2>4, DrainKeeps
<1>4. CASE file' = Extend(file, Append(buf, NewFrame))
  <2>1. PICK w, n : w = Append(buf, NewFrame) /\ n = Spent + 1
    OBVIOUS
  <2>2. /\ w \in Seq(Frames) /\ Ids(w) = Ids(buf) \cup {n}
    BY <1>1, <2>1, NewFrameFacts
  <2>3. w \in Seq(Chunks) /\ AllIds(w) = Ids(buf) \cup {n} /\ file' = Extend(file, w) /\ file \in Segments
    BY <1>4, <2>1, <2>2, WholeIds DEF TypeOK
  <2>4. /\ file' \in Segments /\ file'.base = file.base /\ file'.frames = file.frames \o w
    BY <2>3, ExtendRecoverable
  <2>5. PICK line : line = file'.frames
    OBVIOUS
  <2>6. Len(line) \in Nat
    BY <2>4, <2>5, LenProperties DEF Segments
  <2>7. ASSUME sound
        PROVE  Continues(Recoverable(file'), line) /\ InOrder(line, acked')
    <3>1. file.base \in Nat
      BY <1>1, <2>7, SoundLine
    <3>2. line \in Seq(Frames) /\ InOrder(line, acked)
      BY <1>1, <2>1, <2>4, <2>5, <2>7, SoundAppend DEF Continuable
    <3>3. Recoverable(file') = line
      BY <2>4, <2>5, <3>1, <3>2, RecoverableWhole
    <3>4. QED
      BY <1>1, <2>6, <3>2, <3>3 DEF Continues
  <2>8. /\ acked' \subseteq acked \cup {Spent + 1} /\ acked' \subseteq 1..Spent'
        /\ AllIds(w) \cup Ids(buf') \subseteq Ids(buf) \cup {Spent + 1}
        /\ AllIds(w) \cup Ids(buf') \subseteq 1..Spent'
    <3>1. /\ Spent \in Nat /\ Spent' = Spent + 1 /\ acked \subseteq 1..Spent
          /\ Ids(buf) \subseteq 1..Spent
      BY <1>1, SpentFacts DEF Charged, WalInv, Numbered
    <3>2. 1..Spent \cup {Spent + 1} \subseteq 1..Spent'
      BY <3>1
    <3>3. Ids(buf') = {}
      BY <1>1, EmptyFacts
    <3>4. QED
      BY <1>1, <2>1, <2>3, <3>1, <3>2, <3>3
  <2>9. /\ Numbered' /\ InOrder(Recoverable(file), acked)' /\ InOrder(Recoverable(disk), acked)'
        /\ OnDisk' /\ HeadKept' /\ Ids(Recoverable(file)) \subseteq Ids(Recoverable(file'))
    <3>1. proc' \in {"up", "down"}
      BY <1>1
    <3>2. QED
      BY <1>1, <2>3, <2>6, <2>7, <2>8, <3>1, Written
  <2>10. Flushed' /\ Rotating' /\ LineGood' /\ LineBad'
    BY <1>1 DEF Flushed, Rotating, LineGood, LineBad, InHeader
  <2>11. OwedRecoverable'
    BY <1>1, <2>9 DEF WalInv, OwedRecoverable
  <2>12. QED
    BY <2>9, <2>10, <2>11 DEF WalInv
<1>5. QED
  BY <1>3, <1>4 DEF CrashInAppend

\* The steps of rotate.
LEMMA RotateKeeps ==
  ASSUME TypeOK, TypeOK', WalInv, RotateTruncate \/ RotateHeader \/ RotateSync \/ RotateFails
  PROVE  WalInv'
<1>1. /\ file \in Segments /\ disk \in Segments /\ Len(disk.frames) \in Nat /\ next_seq \in Nat
      /\ Spent \in Nat
  BY SpentFacts, LenProperties DEF TypeOK, Segments
<1>2. /\ AllIds(file.frames) \cup AllIds(disk.frames) \cup Ids(buf) \subseteq 1..Spent
      /\ acked \subseteq 1..Spent
  BY DEF WalInv, Numbered
<1>3. \A answered : InOrder(<<>>, answered) /\ \A n \in Nat : Continuable(<<>>, n, answered, next_seq)
  BY EmptyFacts DEF InOrder, Continuable
<1>4. CASE RotateTruncate
  <2>1. /\ file' = EmptyFile /\ buf' = <<>> /\ acked' = {} /\ owed' = {} /\ proc' = "truncated"
        /\ disk' = disk /\ budget' = budget /\ loose' = TRUE /\ cut_off' = cut_off
    BY <1>4 DEF RotateTruncate
  <2>2. /\ file'.frames = <<>> /\ file'.base = NoHeader /\ AllIds(file'.frames) = {} /\ Ids(buf') = {}
        /\ Recoverable(file') = <<>>
    BY <2>1, EmptyFacts
  <2>3. Spent' = Spent
    BY <2>1 DEF Spent
  <2>4. Numbered' /\ Flushed' /\ Rotating' /\ LineGood' /\ LineBad' /\ OwedRecoverable'
    BY <1>2, <2>1, <2>2, <2>3
       DEF Numbered, Flushed, Rotating, LineGood, LineBad, OwedRecoverable, InHeader
  <2>5. InOrder(Recoverable(file), acked)'
    BY <1>3, <2>2
  <2>6. InOrder(Recoverable(disk), acked)'
    <3>1. InOrder(Recoverable(disk), {})
      BY AnswerOther DEF WalInv
    <3>2. QED
      BY <2>1, <3>1
  <2>7. OnDisk'
    BY <2>1, <2>2 DEF OnDisk
  <2>8. HeadKept'
    BY <2>1, <2>2 DEF WalInv, HeadKept, Headless
  <2>9. QED
    BY <2>4, <2>5, <2>6, <2>7, <2>8 DEF WalInv
<1>5. CASE RotateHeader
  <2>1. /\ proc = "truncated" /\ file' = FreshSegment(next_seq) /\ proc' = "headed"
        /\ UNCHANGED <<disk, loose, buf, budget, cut_off, acked, owed>>
    BY <1>5 DEF RotateHeader, observed
  <2>2. /\ file'.frames = <<>> /\ file'.base \in Nat /\ AllIds(file'.frames) = {}
        /\ Recoverable(file') = <<>> /\ buf = <<>> /\ acked = {} /\ Ids(buf') = {}
        /\ file.frames = <<>> /\ file.base = NoHeader /\ loose
    BY <1>1, <2>1, EmptyFacts DEF WalInv, Rotating, Flushed, InHeader
  <2>3. Spent' = Spent /\ owed = {}
    BY <2>1, <2>2 DEF Spent, TypeOK
  <2>4. Numbered' /\ Flushed' /\ Rotating' /\ LineGood' /\ LineBad' /\ OwedRecoverable'
    BY <1>2, <2>1, <2>2, <2>3
       DEF Numbered, Flushed, Rotating, LineGood, LineBad, OwedRecoverable, InHeader
  <2>5. InOrder(Recoverable(file), acked)' /\ InOrder(Recoverable(disk), acked)'
    BY <1>3, <2>1, <2>2 DEF WalInv
  <2>6. OnDisk'
    BY <2>1, <2>2 DEF OnDisk
  <2>7. HeadKept'
    BY <2>1, <2>2, MarkersAssumption DEF WalInv, HeadKept, Headless, MarkersAssumption
  <2>8. QED
    BY <2>4, <2>5, <2>6, <2>7 DEF WalInv
<1>6. CASE RotateSync
  <2>1. /\ proc = "headed" /\ disk' = file /\ proc' = "up" /\ sound' = TRUE /\ loose' = FALSE
        /\ UNCHANGED <<file, buf, next_seq, budget, acked, owed>>
    BY <1>6 DEF RotateSync
  <2>2. /\ file.frames = <<>> /\ file.base \in Nat /\ buf = <<>> /\ acked = {}
        /\ AllIds(file.frames) = {} /\ file.frames \o buf = <<>>
    BY <2>1, EmptyFacts, ConcatEmptySeq DEF WalInv, Rotating, Flushed, InHeader
  <2>3. Spent' = Spent
    BY <2>1 DEF Spent
  <2>4. Numbered' /\ Flushed' /\ Rotating' /\ LineBad' /\ OwedRecoverable'
    BY <1>2, <2>1, <2>2, <2>3
       DEF WalInv, Numbered, Flushed, Rotating, LineBad, OwedRecoverable, InHeader
  <2>5. LineGood'
    <3>1. /\ file'.base \in Nat /\ file'.frames \in Seq(Frames)
          /\ Continuable(file'.frames \o buf', Len(file'.frames), acked', next_seq')
      BY <1>3, <2>1, <2>2, EmptyFacts
    <3>2. QED
      BY <3>1 DEF LineGood, Line
  <2>6. InOrder(Recoverable(file), acked)' /\ InOrder(Recoverable(disk), acked)'
    BY <2>1 DEF WalInv
  <2>7. OnDisk'
    BY <2>1, <2>2, EmptyFacts DEF OnDisk, Continues
  <2>8. HeadKept'
    BY <2>1, <2>2, MarkersAssumption DEF WalInv, HeadKept, Headless, MarkersAssumption
  <2>9. QED
    BY <2>4, <2>5, <2>6, <2>7, <2>8 DEF WalInv
<1>7. CASE RotateFails
  <2>1. /\ UNCHANGED <<disk, loose, next_seq, acked, owed>> /\ Charged(0)
        /\ InHeader => cut_off' = TRUE
        /\ ~InHeader => cut_off' = cut_off
    BY <1>7, Charges, Interrupts DEF RotateFails
  <2>2. CASE /\ proc \in {"truncated", "headed"} /\ proc' = "up" /\ UNCHANGED <<buf, half>>
             /\ \/ proc = "truncated" /\ file' \in {EmptyFile, TornHeader} /\ ~sound'
                \/ proc = "headed" /\ file' = file /\ sound'
    <3>1. /\ file.frames = <<>> /\ buf = <<>> /\ acked = {} /\ AllIds(file.frames) = {}
          /\ Ids(buf) = {} /\ file.frames \o buf = <<>> /\ owed = {}
          /\ proc = "headed" => file.base \in Nat
      BY <2>2, EmptyFacts, ConcatEmptySeq DEF WalInv, Rotating, Flushed, InHeader, TypeOK
    <3>2. Spent' = Spent
      BY <1>1, <2>1 DEF Charged
    <3>3. /\ AllIds(file'.frames) = {}
          /\ ~sound' => file'.base = NoHeader
          /\ sound' => file' = file /\ file.base \in Nat
          /\ Recoverable(file') = <<>>
      BY <2>2, <3>1, EmptyFacts, TornFacts, RecoverableWhole
    <3>4. Numbered' /\ Flushed' /\ Rotating' /\ OwedRecoverable'
      BY <1>2, <2>1, <2>2, <3>1, <3>2, <3>3
         DEF WalInv, Numbered, Flushed, Rotating, OwedRecoverable, InHeader
    <3>5. LineBad'
      BY <3>3 DEF LineBad, Damaged
    <3>6. LineGood'
      <4>1. sound' => /\ file'.base \in Nat /\ file'.frames \in Seq(Frames)
                      /\ Continuable(file'.frames \o buf', Len(file'.frames), acked', next_seq')
        <5>1. SUFFICES ASSUME sound'
                       PROVE  /\ file'.base \in Nat /\ file'.frames \in Seq(Frames)
                              /\ Continuable(file'.frames \o buf', Len(file'.frames), acked', next_seq')
          OBVIOUS
        <5>2. /\ file' = file /\ buf' = buf /\ acked' = acked /\ next_seq' = next_seq
              /\ file.base \in Nat /\ Len(file.frames) = 0 /\ file.frames \in Seq(Frames)
          BY <2>1, <2>2, <3>1, <3>3, <5>1, EmptyFacts
        <5>3. Continuable(file.frames \o buf, Len(file.frames), acked, next_seq)
          BY <1>3, <3>1, <5>2
        <5>4. QED
          BY <5>2, <5>3
      <4>2. QED
        BY <4>1 DEF LineGood, Line
    <3>7. InOrder(Recoverable(file), acked)' /\ InOrder(Recoverable(disk), acked)'
      BY <1>3, <2>1, <3>3 DEF WalInv
    <3>8. OnDisk'
      <4>1. loose
        BY <2>2 DEF WalInv, Rotating, InHeader
      <4>2. QED
        BY <2>1, <2>2, <3>1, <3>3, <4>1 DEF OnDisk
    <3>9. HeadKept'
      BY <2>1, <2>2 DEF HeadKept, InHeader
    <3>10. QED
      BY <3>4, <3>5, <3>6, <3>7, <3>8, <3>9 DEF WalInv
  <2>3. CASE proc = "up" /\ PartialFlush(buf) /\ UNCHANGED <<proc, sound>>
    <3>1. sound => Continuable(file.frames \o buf, Len(file.frames), acked, next_seq)
      BY <2>3, SoundLine DEF Line
    <3>2. /\ buf \in Seq(Frames)
          /\ UNCHANGED <<proc, disk, loose, next_seq, cut_off, sound, acked, owed>>
          /\ Ids(buf) \subseteq Ids(buf) \cup {Spent + 1}
      BY <2>1, <2>3 DEF TypeOK, InHeader
    <3>3. Ids(buf) \subseteq 1..Spent'
      BY <1>1, <1>2, <2>1 DEF Charged
    <3>4. PICK p : p = buf
      OBVIOUS
    <3>5. QED
      BY <2>1, <2>3, <3>1, <3>2, <3>3, <3>4, FlushKeeps
  <2>4. QED
    BY <1>7, <2>2, <2>3 DEF RotateFails
<1>8. QED
  BY <1>4, <1>5, <1>6, <1>7

\* The disk holds no record of a file that was emptied.
LEMMA EmptiedFile ==
  ASSUME TypeOK, WalInv, file.frames = <<>>, ~loose
  PROVE  disk.frames = <<>>
<1>1. Continues(disk.frames, <<>>) /\ disk.frames \in Seq(Chunks)
  BY DEF WalInv, OnDisk, TypeOK, Segments, Chunks
<1>2. Len(disk.frames) \in Nat /\ Len(disk.frames) <= 0
  BY <1>1, EmptyFacts, LenProperties DEF Continues
<1>3. Len(disk.frames) = 0
  BY <1>2
<1>4. QED
  BY <1>1, <1>3, EmptySeq

\* The header is written, whole or in part, into an empty segment: by open, or
\* by a rotation that is cut off.
LEMMA HeaderKeeps ==
  ASSUME TypeOK, TypeOK', WalInv, OpenNew \/ OpenFails \/ CrashInHeader
  PROVE  WalInv'
<1>1. /\ proc \in {"down", "created", "truncated"} /\ buf = <<>> /\ file.frames = <<>>
      /\ file \in Segments
      /\ file' \in {file, TornHeader, FreshSegment(0)}
      /\ proc' \in {"down", "created"} /\ loose' = TRUE
      /\ UNCHANGED <<disk, buf, acked, owed>>
      /\ proc' = "created" => file' = FreshSegment(0) /\ cut_off' = cut_off
      /\ proc' = "down" => cut_off' = TRUE
  BY EmptyFacts DEF TypeOK, WalInv, Rotating, Flushed, InHeader, OpenNew, OpenFails, CrashInHeader, observed
<1>2. Spent' = Spent /\ Spent \in Nat
  <2>1. Charged(0)
    BY Charges DEF OpenNew, OpenFails, CrashInHeader
  <2>2. QED
    BY <2>1, SpentFacts DEF Charged
<1>3. /\ AllIds(file.frames) = {} /\ AllIds(file'.frames) = {} /\ Ids(buf') = {}
      /\ Recoverable(file) = <<>> /\ Recoverable(file') = <<>>
      /\ FreshSegment(0).base = 0 /\ FreshSegment(0).frames = <<>>
  <2>1. Recoverable(file) = <<>>
    <3>1. CASE file.base = NoHeader
      BY <3>1 DEF Recoverable
    <3>2. CASE file.base \in Nat
      BY <1>1, <3>2, EmptyFacts, RecoverableWhole
    <3>3. QED
      BY <1>1, <3>1, <3>2 DEF Segments
  <2>2. QED
    BY <1>1, <2>1, EmptyFacts, TornFacts
<1>4. AllIds(disk.frames) \cap acked = {}
  <2>1. CASE loose
    BY <2>1 DEF WalInv, OnDisk
  <2>2. CASE ~loose
    BY <1>1, <2>2, EmptiedFile, EmptyFacts
  <2>3. QED
    BY <2>1, <2>2
<1>5. Numbered'
  BY <1>1, <1>2, <1>3 DEF WalInv, Numbered
<1>6. Flushed' /\ Rotating' /\ LineGood' /\ LineBad'
  BY <1>1, <1>3 DEF Flushed, Rotating, LineGood, LineBad, InHeader
<1>7. OwedRecoverable'
  BY <1>1, <1>3 DEF WalInv, OwedRecoverable
<1>8. InOrder(Recoverable(file), acked)' /\ InOrder(Recoverable(disk), acked)'
  <2>1. InOrder(<<>>, acked)
    BY EmptyFacts DEF InOrder
  <2>2. QED
    BY <1>1, <1>3, <2>1 DEF WalInv
<1>9. OnDisk'
  BY <1>1, <1>3, <1>4 DEF OnDisk
<1>10. HeadKept'
  <2>1. CASE proc' = "down"
    BY <1>1, <2>1 DEF HeadKept
  <2>2. CASE proc' = "created"
    <3>1. ~Headless(file')
      BY <1>1, <1>3, <2>2 DEF Headless
    <3>2. QED
      BY <1>1, <2>2, <3>1 DEF WalInv, HeadKept
  <2>3. QED
    BY <1>1, <2>1, <2>2
<1>11. QED
  BY <1>5, <1>6, <1>7, <1>8, <1>9, <1>10 DEF WalInv

\* A segment that starts afresh, and is on disk.
LEMMA FreshKeeps ==
  ASSUME TypeOK, TypeOK', WalInv, Recoverable(file) = <<>>, buf = <<>>,
         NEW n \in Nat, file' = FreshSegment(n), disk' = file', ~loose', next_seq' = n,
         proc' = "up", sound', UNCHANGED <<buf, budget, acked, owed>>
  PROVE  WalInv'
<1>1. /\ file'.base = n /\ file'.frames = <<>> /\ Recoverable(file') = <<>>
      /\ AllIds(file'.frames) = {} /\ Ids(buf') = {} /\ file'.frames \o buf' = <<>>
      /\ Len(file'.frames) = 0 /\ file'.frames \in Seq(Frames) /\ Spent' = Spent
  BY EmptyFacts, ConcatEmptySeq DEF Spent
<1>2. Numbered' /\ Flushed' /\ Rotating' /\ LineBad'
  BY <1>1 DEF WalInv, Numbered, Flushed, Rotating, LineBad, InHeader
<1>3. OwedRecoverable'
  BY <1>1 DEF WalInv, OwedRecoverable
<1>4. InOrder(<<>>, acked') /\ Continuable(<<>>, 0, acked', n)
  BY EmptyFacts DEF InOrder, Continuable
<1>5. LineGood'
  <2>1. Continuable(file'.frames \o buf', Len(file'.frames), acked', next_seq')
    BY <1>1, <1>4, Zenon
  <2>2. QED
    BY <1>1, <2>1 DEF LineGood, Line
<1>6. InOrder(Recoverable(file), acked)' /\ InOrder(Recoverable(disk), acked)'
  BY <1>1, <1>4
<1>7. OnDisk'
  BY <1>1 DEF OnDisk, Continues
<1>8. HeadKept'
  BY <1>1, MarkersAssumption DEF HeadKept, Headless, MarkersAssumption
<1>9. QED
  BY <1>2, <1>3, <1>5, <1>6, <1>7, <1>8 DEF WalInv

\* Wal::open, on a segment in whatever state a crash or an outage left it.
LEMMA OpenKeeps ==
  ASSUME TypeOK, TypeOK', WalInv, OpenSync \/ OpenExisting \/ OpenRefused \/ OpenStray
  PROVE  WalInv'
<1>1. /\ file \in Segments /\ disk \in Segments /\ file.frames \in Seq(Chunks)
      /\ file.base \in Nat \cup {NoHeader}
      /\ proc \in {"down", "created"} /\ buf = <<>> /\ UNCHANGED <<buf, budget, acked, owed>>
      /\ Spent' = Spent
  BY DEF TypeOK, Segments, Chunks, WalInv, Flushed, OpenSync, OpenExisting, OpenRefused,
         OpenStray, observed, Spent
<1>2. /\ AllIds(file.frames) \cup AllIds(disk.frames) \cup Ids(buf) \subseteq 1..Spent
      /\ acked \subseteq 1..Spent
  BY DEF WalInv, Numbered
<1>7. CASE OpenStray
  <2>1. PICK b \in StrayBases : file' = FreshSegment(b) /\ next_seq' = b
    BY <1>7 DEF OpenStray
  <2>2. /\ b \in Nat /\ disk' = file' /\ ~loose' /\ proc' = "up" /\ sound'
        /\ Recoverable(file) = <<>>
    BY <1>7, BoundsAssumption DEF BoundsAssumption, OpenStray, Recoverable
  <2>3. QED
    BY <1>1, <2>1, <2>2, FreshKeeps
<1>3. CASE OpenSync
  <2>1. /\ proc = "created" /\ file' = file /\ disk' = file /\ next_seq' = 0 /\ ~loose'
        /\ proc' = "up" /\ sound'
    BY <1>3 DEF OpenSync
  <2>2. /\ file.frames = <<>> /\ file.base = 0
    BY <2>1 DEF WalInv, Rotating, InHeader
  <2>3. file = [base |-> file.base, frames |-> file.frames]
    BY <1>1 DEF Segments
  <2>4. file' = FreshSegment(0) /\ disk' = file'
    BY <2>1, <2>2, <2>3 DEF FreshSegment
  <2>5. Recoverable(file) = <<>>
    BY <2>1, <2>4, EmptyFacts
  <2>6. QED
    BY <1>1, <2>1, <2>4, <2>5, FreshKeeps
<1>4. CASE OpenExisting
  <2>1. PICK r : r = ParseFrames(file.frames)
    OBVIOUS
  <2>2. PICK k : Cut(file.frames, k)
    BY <1>1, CutExists
  <2>3. r \in Seq(Frames) /\ Len(r) \in Nat /\ r \in Seq(Chunks)
    BY <1>1, <2>1, <2>2, ParseCut, LenProperties, WholeIds
  <2>4. /\ file' = [file EXCEPT !.frames = r] /\ file.base # NoHeader
        /\ r # file.frames => disk' = file' /\ loose' = FALSE
        /\ r = file.frames => UNCHANGED <<disk, loose>>
        /\ next_seq' = NextSeq(r, file.base) /\ proc' = "up" /\ sound' = TRUE
        /\ proc = "down" /\ cut_off' = cut_off
    BY <1>4, <2>1 DEF OpenExisting, TruncateTo
  <2>5. /\ file'.frames = r /\ file'.base = file.base /\ file.base \in Nat
    BY <1>1, <2>4 DEF Segments
  <2>6. Recoverable(file') = r /\ Recoverable(file) = r
    <3>1. Recoverable(file) = r
      BY <2>1, <2>4 DEF Recoverable
    <3>2. Recoverable(file') = r
      BY <2>3, <2>5, RecoverableWhole
    <3>3. QED
      BY <3>1, <3>2
  <2>7. AllIds(r) \subseteq AllIds(file.frames)
    <3>1. \A i \in 1..Len(r) : r[i].id \in AllIds(file.frames)
      BY <1>1, <2>6, RecoverableType
    <3>2. QED
      BY <3>1 DEF AllIds
  <2>8. Numbered' /\ Flushed' /\ Rotating' /\ LineBad'
    <3>1. AllIds(file'.frames) \cup AllIds(disk'.frames) \cup Ids(buf') \subseteq 1..Spent
      BY <1>1, <1>2, <2>4, <2>5, <2>7
    <3>2. QED
      BY <1>1, <1>2, <2>4, <3>1 DEF Numbered, Flushed, Rotating, LineBad, InHeader
  <2>9. OwedRecoverable'
    BY <1>1, <2>6 DEF WalInv, OwedRecoverable
  <2>10. InOrder(r, acked)
    BY <2>6 DEF WalInv
  <2>11. Continuable(r, Len(r), acked, next_seq')
    <3>1. \A i \in 1..Len(r) : r[i].seq \in Nat
      <4>1. \A i \in 1..Len(r) : r[i] \in Frames
        BY <2>3, ElementOfSeq
      <4>2. QED
        BY <4>1 DEF Frames
    <3>2. CASE r = <<>>
      BY <2>10, <3>2, EmptyFacts DEF Continuable
    <3>3. CASE r # <<>>
      <4>1. Len(r) \in 1..Len(r)
        BY <2>3, <3>3, EmptySeq
      <4>2. next_seq' \in Nat /\ next_seq' > Last(r).seq
        BY <2>4, <2>5, <3>1, <3>3, <4>1 DEF NextSeq, Max2, Last
      <4>3. PICK m, top, q : m = Len(r) /\ top = r[m].seq /\ q = next_seq'
        OBVIOUS
      <4>4. m \in 1..m /\ m \in Nat /\ top \in Nat /\ q \in Nat /\ top < q
        BY <2>3, <3>1, <4>1, <4>2, <4>3 DEF Last
      <4>5. ASSUME NEW i \in 1..Len(r) PROVE r[i].seq <= top
        <5>1. CASE i = m
          BY <3>1, <4>3, <4>4, <5>1
        <5>2. CASE i # m
          <6>1. i < m
            BY <4>3, <4>4, <5>2
          <6>2. r[i].seq <= r[m].seq
            BY <2>10, <4>1, <4>3, <6>1 DEF InOrder
          <6>3. QED
            BY <4>3, <6>2
        <5>3. QED
          BY <5>1, <5>2
      <4>6. \A i \in 1..Len(r) : r[i].seq <= q /\ r[i].seq < q /\ i <= Len(r)
        BY <3>1, <4>4, <4>5
      <4>7. QED
        BY <2>10, <4>3, <4>6 DEF Continuable
    <3>4. QED
      BY <3>2, <3>3
  <2>12. LineGood'
    <3>1. file'.frames \o buf' = r
      BY <1>1, <2>3, <2>5, ConcatEmptySeq
    <3>2. /\ file'.base \in Nat /\ file'.frames \in Seq(Frames)
          /\ Continuable(file'.frames \o buf', Len(file'.frames), acked', next_seq')
      BY <1>1, <2>3, <2>5, <2>11, <3>1
    <3>3. QED
      BY <3>2 DEF LineGood, Line
  <2>13. InOrder(Recoverable(file), acked)' /\ InOrder(Recoverable(disk), acked)'
    BY <1>1, <2>4, <2>6, <2>10 DEF WalInv
  <2>14. OnDisk'
    <3>1. CASE r # file.frames
      <4>1. disk' = file' /\ ~loose'
        BY <2>4, <3>1
      <4>2. Continues(file'.frames, file'.frames)
        BY <2>3, <2>5 DEF Continues
      <4>3. QED
        BY <4>1, <4>2 DEF OnDisk
    <3>2. CASE r = file.frames
      BY <1>1, <2>4, <2>5, <3>2 DEF WalInv, OnDisk
    <3>3. QED
      BY <3>1, <3>2
  <2>15. HeadKept'
    <3>1. /\ file'.base # NoHeader /\ ~Headless(file') /\ (Headless(disk') => Headless(disk))
          /\ loose' => loose
      <4>1. CASE r # file.frames
        BY <2>4, <2>5, <4>1 DEF Headless
      <4>2. CASE r = file.frames
        BY <2>4, <2>5, <4>2 DEF Headless
      <4>3. QED
        BY <4>1, <4>2
    <3>2. QED
      BY <1>1, <2>4, <3>1 DEF WalInv, HeadKept
  <2>16. QED
    BY <2>8, <2>9, <2>12, <2>13, <2>14, <2>15 DEF WalInv
<1>5. CASE OpenRefused
  <2>1. /\ file.base = NoHeader /\ file # EmptyFile /\ proc' = "refused"
        /\ UNCHANGED <<file, disk, loose, cut_off>>
    BY <1>5 DEF OpenRefused, observed
  <2>2. Headless(file)
    <3>1. file = [base |-> file.base, frames |-> file.frames]
      BY <1>1 DEF Segments
    <3>2. QED
      BY <2>1, <3>1 DEF Headless, EmptyFile
  <2>3. Numbered' /\ Flushed' /\ Rotating' /\ LineBad' /\ LineGood' /\ OwedRecoverable'
    BY <1>1, <1>2, <2>1
       DEF WalInv, Numbered, Flushed, Rotating, LineBad, LineGood, OwedRecoverable, InHeader
  <2>4. InOrder(Recoverable(file), acked)' /\ InOrder(Recoverable(disk), acked)' /\ OnDisk'
    BY <1>1, <2>1 DEF WalInv, OnDisk
  <2>5. HeadKept'
    BY <1>1, <2>1, <2>2 DEF WalInv, HeadKept
  <2>6. QED
    BY <2>3, <2>4, <2>5 DEF WalInv
<1>6. QED
  BY <1>3, <1>4, <1>5, <1>7

LEMMA PrefixContinues ==
  ASSUME NEW S, NEW f \in Seq(S), NEW g \in Seq(S)
  PROVE  IsPrefix(f, g) <=> Continues(f, g)
<1>1. Len(f) \in Nat /\ Len(g) \in Nat /\ SubSeq(f, 1, Len(f)) = f
  BY LenProperties, SubSeqFull
<1>2. ASSUME Len(f) <= Len(g)
      PROVE  f = SubSeq(g, 1, Len(f)) <=> \A i \in 1..Len(f) : g[i] = f[i]
  <2>1. PICK n, h : n = Len(f) /\ h = SubSeq(g, 1, n)
    OBVIOUS
  <2>2. n \in Nat /\ n \in Int /\ 1 \in Int /\ n - 1 + 1 = n /\ n <= Len(g)
    BY <1>1, <1>2, <2>1
  <2>3. \A i \in 1..n : g[i] \in S
    BY <1>1, <2>2, ElementOfSeq
  <2>4. /\ h \in Seq(S) /\ Len(h) = (IF 1 <= n THEN n - 1 + 1 ELSE 0)
        /\ \A i \in 1..n - 1 + 1 : h[i] = g[1 + i - 1]
    BY <2>1, <2>2, <2>3, SubSeqProperties
  <2>5. Len(h) = n /\ \A i \in 1..n : h[i] = g[i]
    BY <2>2, <2>4
  <2>6. (\A i \in 1..n : g[i] = f[i]) => f = h
    BY <2>1, <2>4, <2>5, SeqEqual
  <2>7. f = h => \A i \in 1..n : g[i] = f[i]
    BY <2>5
  <2>8. QED
    BY <2>1, <2>6, <2>7
<1>3. QED
  BY <1>1, <1>2 DEF IsPrefix, Continues

LEMMA PowerLossKeeps ==
  ASSUME TypeOK, TypeOK', WalInv, PowerLoss
  PROVE  WalInv'
<1>1. /\ file \in Segments /\ disk \in Segments /\ file' \in Segments
      /\ disk.frames \in Seq(Chunks) /\ file.frames \in Seq(Chunks) /\ file'.frames \in Seq(Chunks)
      /\ proc' = "down" /\ buf' = <<>> /\ disk' = file' /\ acked' = acked
      /\ owed' = owed \cap Ids(Recoverable(disk)) /\ Charged(0) /\ loose' = FALSE
      /\ proc # "refused"
      /\ InHeader => cut_off' = TRUE
      /\ cut_off => cut_off' = TRUE
  BY Charges, Interrupts DEF TypeOK, PowerLoss, Segments, Chunks
<1>2. Spent' = Spent
  BY <1>1, SpentFacts DEF Charged
<1>3. /\ \/ file' \in CutShort(file)
         \/ loose /\ file' \in {disk, EmptyFile, TornHeader}
      /\ ~loose => IsPrefix(disk.frames, file'.frames)
  BY DEF PowerLoss, Images
<1>4. InOrder(Recoverable(file'), acked)
  <2>1. CASE file' \in CutShort(file)
    <3>1. Continues(Recoverable(file'), Recoverable(file))
      BY <1>1, <2>1, CutShortFacts
    <3>2. Len(Recoverable(file')) \in Nat /\ Len(Recoverable(file)) \in Nat
      BY <1>1, RecoverableType
    <3>3. QED
      BY <3>1, <3>2, FrontInOrder DEF WalInv
  <2>2. CASE file' = disk
    BY <2>2 DEF WalInv
  <2>3. CASE file' \in {EmptyFile, TornHeader}
    BY <2>3, EmptyFacts, TornFacts DEF InOrder
  <2>4. QED
    BY <1>3, <2>1, <2>2, <2>3
<1>5. /\ AllIds(file'.frames) \subseteq AllIds(file.frames) \cup AllIds(disk.frames)
      /\ Headless(file') => Headless(file) \/ loose
  <2>1. CASE file' \in CutShort(file)
    BY <1>1, <2>1, CutShortFacts DEF Headless
  <2>2. CASE loose /\ file' = disk
    BY <2>2
  <2>3. CASE loose /\ file' \in {EmptyFile, TornHeader}
    BY <2>3, EmptyFacts, TornFacts
  <2>4. QED
    BY <1>3, <2>1, <2>2, <2>3
<1>6. Numbered'
  <2>1. /\ AllIds(file'.frames) \cup AllIds(disk'.frames) \cup Ids(buf') \subseteq 1..Spent'
        /\ acked' \subseteq 1..Spent'
    BY <1>1, <1>2, <1>5, EmptyFacts DEF WalInv, Numbered
  <2>2. QED
    BY <2>1 DEF Numbered
<1>7. Flushed' /\ Rotating' /\ LineGood' /\ LineBad'
  BY <1>1 DEF Flushed, Rotating, LineGood, LineBad, InHeader
<1>8. OwedRecoverable'
  <2>1. CASE ~loose
    <3>1. file' \in CutShort(file) /\ IsPrefix(disk.frames, file'.frames)
      BY <1>3, <2>1
    <3>2. disk.base = file'.base /\ Continues(disk.frames, file'.frames)
      <4>1. file.base = disk.base
        BY <2>1 DEF WalInv, OnDisk
      <4>2. QED
        BY <1>1, <3>1, <4>1, CutShortFacts, PrefixContinues
    <3>3. Continues(Recoverable(disk), Recoverable(file'))
      BY <1>1, <3>2, RecoverableGrows
    <3>4. Len(Recoverable(disk)) \in Nat /\ Len(Recoverable(file')) \in Nat
      BY <1>1, RecoverableType
    <3>5. Ids(Recoverable(disk)) \subseteq Ids(Recoverable(file'))
      BY <3>3, <3>4, IdsGrow
    <3>6. QED
      BY <1>1, <3>5 DEF OwedRecoverable
  <2>2. CASE loose
    <3>1. AllIds(disk.frames) \cap acked = {}
      BY <2>2 DEF WalInv, OnDisk
    <3>2. Ids(Recoverable(disk)) \subseteq AllIds(disk.frames)
      <4>1. \A i \in 1..Len(Recoverable(disk)) : Recoverable(disk)[i].id \in AllIds(disk.frames)
        BY <1>1, RecoverableType
      <4>2. QED
        BY <4>1 DEF Ids
    <3>3. owed' = {}
      BY <1>1, <3>1, <3>2 DEF TypeOK
    <3>4. QED
      BY <3>3 DEF OwedRecoverable
  <2>3. QED
    BY <2>1, <2>2
<1>9. OnDisk'
  BY <1>1, LenProperties DEF OnDisk, Continues
<1>10. HeadKept'
  <2>1. Headless(file') => cut_off' = TRUE
    <3>1. CASE InHeader
      BY <1>1, <3>1
    <3>2. CASE ~InHeader
      <4>1. proc \in {"up", "down"}
        BY <1>1, <3>2 DEF TypeOK, InHeader
      <4>2. Headless(file') => cut_off
        BY <1>5, <4>1 DEF WalInv, HeadKept
      <4>3. QED
        BY <1>1, <4>2
    <3>3. QED
      BY <3>1, <3>2
  <2>2. QED
    BY <1>1, <2>1 DEF HeadKept
<1>11. InOrder(Recoverable(file), acked)' /\ InOrder(Recoverable(disk), acked)'
  BY <1>1, <1>4
<1>12. QED
  BY <1>6, <1>7, <1>8, <1>9, <1>10, <1>11 DEF WalInv

LEMMA WalInit ==
  ASSUME Init
  PROVE  TypeOK /\ WalInv
<1>1. MaxAppends \in Nat /\ MaxErrors \in Nat /\ MaxCrashes \in Nat /\ MaxOutages \in Nat
  BY BoundsAssumption DEF BoundsAssumption
<1>2. TypeOK
  <2>1. budget \in [appends : 0..MaxAppends, errors : Nat, crashes : Nat, outages : Nat]
    BY <1>1 DEF Init
  <2>2. QED
    BY <2>1, EmptyFacts DEF Init, TypeOK
<1>4. WalInv
  <2>1. InOrder(<<>>, acked)
    BY EmptyFacts DEF InOrder
  <2>2. /\ InOrder(Recoverable(file), acked) /\ InOrder(Recoverable(disk), acked)
    BY <2>1, EmptyFacts DEF Init
  <2>3. OnDisk
    BY EmptyFacts DEF Init, OnDisk, Continues
  <2>4. HeadKept
    BY EmptyFacts DEF Init, HeadKept, Headless
  <2>5. Numbered
    BY EmptyFacts DEF Init, Numbered
  <2>6. Flushed /\ Rotating /\ LineGood /\ LineBad /\ OwedRecoverable
    BY DEF Init, Flushed, Rotating, LineGood, LineBad, OwedRecoverable, InHeader
  <2>7. QED
    BY <2>2, <2>3, <2>4, <2>5, <2>6 DEF WalInv
<1>5. QED
  BY <1>2, <1>4

LEMMA WalStep ==
  ASSUME TypeOK, WalInv, [Next]_vars
  PROVE  WalInv'
<1>1. TypeOK'
  BY TypeStep
<1>2. CASE OpenSync \/ OpenExisting \/ OpenRefused \/ OpenStray
  BY <1>1, <1>2, OpenKeeps
<1>12. CASE OpenNew \/ OpenFails \/ CrashInHeader
  BY <1>1, <1>12, HeaderKeeps
<1>3. CASE AppendFrame
  BY <1>1, <1>3, AppendFrameKeeps
<1>4. CASE AppendFails
  BY <1>1, <1>4, AppendFailsKeeps
<1>5. CASE SyncData
  BY <1>1, <1>5, SyncDataKeeps
<1>6. CASE RotateTruncate \/ RotateHeader \/ RotateSync \/ RotateFails
  BY <1>1, <1>6, RotateKeeps
<1>7. CASE Crash
  BY <1>1, <1>7, CrashKeeps
<1>8. CASE CrashInAppend
  BY <1>1, <1>8, CrashInAppendKeeps
<1>9. CASE PowerLoss
  BY <1>1, <1>9, PowerLossKeeps
<1>10. CASE UNCHANGED vars
  BY <1>10 DEF vars, WalInv, Numbered, Spent, Flushed, Rotating, LineGood, Line, LineBad,
               OwedRecoverable, OnDisk, HeadKept, InHeader
<1>11. QED
  BY <1>2, <1>3, <1>4, <1>5, <1>6, <1>7, <1>8, <1>9, <1>10, <1>12 DEF Next

-----------------------------------------------------------------------------
(* Theorems *)

\* The state of the log keeps its types through every append, rotation, error,
\* crash and outage.
THEOREM TypeCorrect == Spec => []TypeOK
<1>1. Init => TypeOK
  BY WalInit
<1>2. TypeOK /\ [Next]_vars => TypeOK'
  BY TypeStep
<1>3. QED
  BY <1>1, <1>2, PTL DEF Spec

LEMMA WalInvariant == Spec => [](TypeOK /\ WalInv)
<1>1. Init => TypeOK /\ WalInv
  BY WalInit
<1>2. TypeOK /\ WalInv /\ [Next]_vars => (TypeOK /\ WalInv)'
  BY TypeStep, WalStep
<1>3. QED
  BY <1>1, <1>2, PTL DEF Spec

\* However appends, failed calls, rotations, crashes and losses of power
\* follow each other, opening the segment hands back every record it owes.
THEOREM OwedRecoverableAlways == Spec => []OwedRecoverable
<1>1. WalInv => OwedRecoverable
  BY DEF WalInv
<1>2. QED
  BY <1>1, WalInvariant, PTL

\* What opening the segment hands back is in the order of the appends, and
\* shares a sequence number only with an append that failed.
THEOREM LogOrderedAlways == Spec => []LogOrdered
<1>1. WalInv => LogOrdered
  BY DEF WalInv, InOrder, LogOrdered
<1>2. QED
  BY <1>1, WalInvariant, PTL

\* A node is refused its start only if an error, a crash or an outage came
\* between emptying or creating the segment and forcing its header to disk,
\* whatever else failed, crashed or lost power before and since.
THEOREM RefusedOnlyAfterCutOffAlways == Spec => []RefusedOnlyAfterCutOff
<1>1. WalInv => RefusedOnlyAfterCutOff
  BY DEF WalInv, HeadKept, RefusedOnlyAfterCutOff
<1>2. QED
  BY <1>1, WalInvariant, PTL

-----------------------------------------------------------------------------
(* The log as the node sees it: refinement of AppendLog *)

LEMMA SamePrefix ==
  /\ \A f, g : Log!IsPrefix(f, g) <=> IsPrefix(f, g)
  /\ \A f : Log!Prefixes(f) = Prefixes(f)
BY DEF IsPrefix, Log!IsPrefix, Prefixes, Log!Prefixes

LEMMA RecIdsFacts ==
  ASSUME NEW s \in Segments
  PROVE  /\ RecIds(s) \in Seq(Attempts)
         /\ Len(RecIds(s)) = Len(Recoverable(s))
         /\ \A i \in 1..Len(Recoverable(s)) : /\ RecIds(s)[i] = Recoverable(s)[i].id
                                              /\ RecIds(s)[i] \in Attempts
         /\ Recoverable(s) = <<>> => RecIds(s) = <<>>
<1>1. PICK n : n = Len(Recoverable(s)) /\ n \in Nat
  BY RecoverableType
<1>2. \A i \in 1..n : Recoverable(s)[i].id \in Attempts
  BY <1>1, RecoverableType DEF Frames
<1>3. PICK f : f = [i \in 1..n |-> Recoverable(s)[i].id]
  OBVIOUS
<1>4. RecIds(s) = f
  BY <1>1, <1>3 DEF RecIds
<1>5. f \in [1..n -> Attempts] /\ \A i \in 1..n : f[i] = Recoverable(s)[i].id
  BY <1>2, <1>3
<1>6. f \in Seq(Attempts)
  BY <1>1, <1>5, SeqDef
<1>7. Len(f) = n
  <2>1. DOMAIN f = 1..Len(f) /\ Len(f) \in Nat
    BY <1>6, LenProperties
  <2>2. DOMAIN f = 1..n
    BY <1>5
  <2>3. 1..Len(f) = 1..n
    BY <2>1, <2>2
  <2>4. \A a, b \in Nat : a < b => b \in 1..b /\ b \notin 1..a
    OBVIOUS
  <2>5. \A a, b \in Nat : a = b \/ a < b \/ b < a
    OBVIOUS
  <2>6. \A a, b \in Nat : 1..a = 1..b => a = b
    BY <2>4, <2>5, Zenon
  <2>7. QED
    BY <1>1, <2>1, <2>3, <2>6, Zenon
<1>8. Recoverable(s) = <<>> => f = <<>>
  <2>1. SUFFICES ASSUME Recoverable(s) = <<>> PROVE f = <<>>
    OBVIOUS
  <2>2. Len(f) = 0
    BY <1>1, <1>7, <2>1, EmptyFacts
  <2>3. QED
    BY <1>6, <2>2, EmptySeq
<1>9. QED
  BY <1>1, <1>2, <1>4, <1>5, <1>6, <1>7, <1>8

LEMMA RecIdsGrow ==
  ASSUME NEW s \in Segments, NEW t \in Segments, Continues(Recoverable(s), Recoverable(t))
  PROVE  /\ IsPrefix(RecIds(s), RecIds(t))
         /\ Len(RecIds(s)) <= Len(RecIds(t))
         /\ RecIds(s) \in Prefixes(RecIds(t))
<1>1. /\ RecIds(s) \in Seq(Attempts) /\ RecIds(t) \in Seq(Attempts)
      /\ Len(RecIds(s)) = Len(Recoverable(s)) /\ Len(RecIds(t)) = Len(Recoverable(t))
      /\ \A i \in 1..Len(Recoverable(s)) : RecIds(s)[i] = Recoverable(s)[i].id
      /\ \A i \in 1..Len(Recoverable(t)) : RecIds(t)[i] = Recoverable(t)[i].id
      /\ Len(Recoverable(s)) \in Nat /\ Len(Recoverable(t)) \in Nat
  BY RecIdsFacts, RecoverableType
<1>2. Len(RecIds(s)) <= Len(RecIds(t)) /\ Continues(RecIds(s), RecIds(t))
  BY <1>1 DEF Continues
<1>3. IsPrefix(RecIds(s), RecIds(t))
  BY <1>1, <1>2, PrefixContinues
<1>4. RecIds(s) = SubSeq(RecIds(t), 1, Len(RecIds(s)))
  BY <1>1, <1>3, SubSeqFull DEF IsPrefix
<1>5. Len(RecIds(s)) \in 0..Len(RecIds(t))
  BY <1>1, <1>2
<1>6. QED
  BY <1>2, <1>3, <1>4, <1>5, Zenon DEF Prefixes

\* What an append leaks into the log was never answered.
LEMMA Leaks ==
  ASSUME TypeOK, TypeOK', WalInv, proc = "up",
         NEW w \in Seq(Chunks), file' = Extend(file, w),
         NEW line, Len(line) \in Nat,
         sound => /\ Continues(Recoverable(file'), line)
                  /\ Continuable(line, Len(file.frames), acked, next_seq)
  PROVE  Log!Grows(<<>>)
<1>1. file \in Segments /\ file' \in Segments
  BY DEF TypeOK
<1>2. /\ Continues(Recoverable(file), Recoverable(file'))
      /\ Damaged(file) => Recoverable(file') = Recoverable(file)
  BY <1>1, ExtendRecoverable
<1>3. PICK l, m : l = RecIds(file) /\ m = RecIds(file')
  OBVIOUS
<1>4. /\ IsPrefix(l, m) /\ Len(l) <= Len(m) /\ Len(l) \in Nat /\ Len(m) \in Nat
      /\ Len(l) = Len(Recoverable(file)) /\ Len(m) = Len(Recoverable(file'))
      /\ \A i \in 1..Len(m) : m[i] = Recoverable(file')[i].id /\ m[i] \in Attempts
  BY <1>1, <1>2, <1>3, RecIdsGrow, RecIdsFacts, RecoverableType
<1>5. ~sound => m = l
  BY <1>2, <1>3 DEF WalInv, LineBad, RecIds
<1>6. ASSUME NEW i \in Len(l) + 1 .. Len(m)
      PROVE  m[i] \in Attempts \ acked
  <2>1. i \in 1..Len(m) /\ i > Len(l)
    BY <1>4
  <2>2. m[i] = Recoverable(file')[i].id /\ m[i] \in Attempts
    BY <1>4, <2>1
  <2>3. sound
    BY <1>5, <2>1, <1>4
  <2>4. Recoverable(file) = file.frames /\ Len(file.frames) \in Nat
    BY <2>3, SoundLine, RecoverableWhole
  <2>5. i \in 1..Len(line) /\ line[i] = Recoverable(file')[i]
    BY <1>4, <2>1, <2>3 DEF Continues
  <2>6. line[i].id \in acked => i <= Len(file.frames)
    BY <2>3, <2>5 DEF Continuable
  <2>7. Len(l) = Len(file.frames)
    BY <1>4, <2>4
  <2>8. ~(i <= Len(file.frames))
    BY <1>4, <2>1, <2>7
  <2>9. QED
    BY <2>2, <2>5, <2>6, <2>8
<1>7. Len(m) - Len(<<>>) = Len(m) /\ SubSeq(m, Len(m) + 1, Len(m)) = <<>>
  <2>1. Len(m) + 1 \in Int /\ Len(m) \in Int /\ Len(m) < Len(m) + 1 /\ Len(m) - 0 = Len(m)
    BY <1>4
  <2>2. QED
    BY <2>1, SubSeqEmpty, EmptyFacts
<1>8. /\ Len(m) - Len(<<>>) >= Len(l) /\ IsPrefix(l, m)
      /\ SubSeq(m, (Len(m) - Len(<<>>)) + 1, Len(m)) = <<>>
      /\ \A i \in Len(l) + 1 .. (Len(m) - Len(<<>>)) : m[i] \in Attempts \ acked
      /\ ~sound => m = l
  <2>1. Len(m) >= Len(l)
    BY <1>4
  <2>2. QED
    BY <1>4, <1>5, <1>6, <1>7, <2>1
<1>9. RecIds(file)' = m
  BY <1>3
<1>10. QED
  <2>1. /\ Len(RecIds(file)') - Len(<<>>) >= Len(RecIds(file)) /\ IsPrefix(RecIds(file), RecIds(file)')
        /\ SubSeq(RecIds(file)', (Len(RecIds(file)') - Len(<<>>)) + 1, Len(RecIds(file)')) = <<>>
        /\ \A i \in Len(RecIds(file)) + 1 .. (Len(RecIds(file)') - Len(<<>>)) :
             RecIds(file)'[i] \in Attempts \ acked
        /\ ~sound => RecIds(file)' = RecIds(file)
    BY <1>3, <1>8, <1>9
  <2>2. QED
    BY <2>1, SamePrefix, Zenon DEF Log!Grows

\* An answered append puts its record at the end of the log.
LEMMA AppendsRecord ==
  ASSUME TypeOK, TypeOK', WalInv, AppendFrame
  PROVE  \E r \in Attempts : Log!AppendRec(r)
<1>1. /\ proc = "up" /\ disk' = disk /\ sound' = sound /\ budget.appends > 0
  BY Charges DEF AppendFrame
<1>2. PICK w, n : w = Append(buf, NewFrame) /\ n = Spent + 1
  OBVIOUS
<1>3. /\ w \in Seq(Frames) /\ n \in Attempts /\ NewFrame.id = n /\ NewFrame \in Frames
  BY <1>1, <1>2, NewFrameFacts
<1>4. /\ w \in Seq(Chunks) /\ file \in Segments /\ file' \in Segments
      /\ file' = Extend(file, w) /\ acked' = acked \cup {n}
  BY <1>2, <1>3, WholeIds DEF TypeOK, AppendFrame
<1>5. /\ file'.base = file.base /\ file'.frames = file.frames \o w
      /\ Continues(Recoverable(file), Recoverable(file'))
      /\ Damaged(file) => Recoverable(file') = Recoverable(file)
  BY <1>4, ExtendRecoverable, Zenon
<1>6. PICK l, m : l = RecIds(file) /\ m = RecIds(file')
  OBVIOUS
<1>7. /\ IsPrefix(l, m) /\ Len(l) <= Len(m) /\ Len(l) \in Nat /\ Len(m) \in Nat
      /\ Len(l) = Len(Recoverable(file)) /\ Len(m) = Len(Recoverable(file'))
      /\ \A i \in 1..Len(m) : m[i] = Recoverable(file')[i].id /\ m[i] \in Attempts
  BY <1>4, <1>5, <1>6, RecIdsGrow, RecIdsFacts, RecoverableType
<1>8. ASSUME ~sound PROVE m = l
  BY <1>5, <1>6, <1>1, <1>8 DEF WalInv, LineBad, RecIds
<1>9. ASSUME sound
      PROVE  /\ Len(m) - 1 >= Len(l)
             /\ SubSeq(m, Len(m), Len(m)) = <<n>>
             /\ \A i \in Len(l) + 1 .. Len(m) - 1 : m[i] \in Attempts \ acked
  <2>1. PICK line : line = file.frames \o w
    OBVIOUS
  <2>2. /\ file.base \in Nat /\ file.frames \in Seq(Frames) /\ Len(file.frames) \in Nat
        /\ line \in Seq(Frames) /\ Len(line) \in Nat
        /\ Continuable(line, Len(file.frames), acked, next_seq)
    BY <1>1, <1>2, <1>9, <2>1, SoundLine, SoundAppend
  <2>3. Recoverable(file') = line /\ Recoverable(file) = file.frames
    BY <1>5, <2>1, <2>2, RecoverableWhole
  <2>4. /\ Len(buf) \in Nat /\ buf \in Seq(Frames) /\ Len(w) = Len(buf) + 1
        /\ w[Len(buf) + 1] = NewFrame
    <3>1. PICK x : x = NewFrame /\ x \in Frames
      BY <1>3
    <3>2. Append(buf, x)[Len(buf) + 1] = x /\ Len(Append(buf, x)) = Len(buf) + 1
      BY <3>1, AppendProperties DEF TypeOK
    <3>3. QED
      BY <1>2, <3>1, <3>2, LenProperties DEF TypeOK
  <2>5. /\ Len(line) = Len(file.frames) + Len(w)
        /\ \A i \in 1..Len(file.frames) + Len(w) : line[i] =
             IF i <= Len(file.frames) THEN file.frames[i] ELSE w[i - Len(file.frames)]
    BY <1>3, <2>1, <2>2, ConcatProperties
  <2>6. PICK a, b : a = Len(file.frames) /\ b = Len(buf)
    OBVIOUS
  <2>7. a \in Nat /\ b \in Nat /\ Len(m) = a + b + 1 /\ Len(l) = a /\ Len(line) = a + b + 1
    <3>1. a \in Nat /\ b \in Nat /\ Len(l) = a /\ Len(m) = Len(line)
      BY <1>7, <2>2, <2>3, <2>4, <2>6
    <3>2. Len(line) = a + (b + 1)
      BY <2>4, <2>5, <2>6, Zenon
    <3>3. a + (b + 1) = a + b + 1
      BY <3>1
    <3>4. QED
      BY <3>1, <3>2, <3>3, Zenon
  <2>8. line[a + b + 1] = NewFrame
    <3>1. a + b + 1 \in 1..a + (b + 1) /\ ~(a + b + 1 <= a) /\ (a + b + 1) - a = b + 1
      BY <2>7
    <3>2. \A i \in 1..a + (b + 1) : line[i] = IF i <= a THEN file.frames[i] ELSE w[i - a]
      BY <2>4, <2>5, <2>6
    <3>3. line[a + b + 1] = w[(a + b + 1) - a]
      BY <3>1, <3>2
    <3>4. QED
      BY <2>4, <2>6, <3>1, <3>3
  <2>9. m[Len(m)] = n /\ Len(m) \in 1..Len(m)
    <3>1. Len(m) \in 1..Len(m)
      BY <2>7
    <3>2. QED
      BY <1>3, <1>7, <2>3, <2>7, <2>8, <3>1
  <2>10. SubSeq(m, Len(m), Len(m)) = <<n>>
    <3>1. m \in Seq(Attempts)
      BY <1>4, <1>6, RecIdsFacts
    <3>2. PICK k, h : k = Len(m) /\ h = SubSeq(m, k, k)
      OBVIOUS
    <3>3. k \in Int /\ k - k + 1 = 1 /\ k + 1 - 1 = k /\ k <= k /\ \A i \in k..k : m[i] \in Attempts
      BY <1>7, <2>9, <3>2
    <3>4. /\ h \in Seq(Attempts) /\ Len(h) = (IF k <= k THEN k - k + 1 ELSE 0)
          /\ \A i \in 1..k - k + 1 : h[i] = m[k + i - 1]
      BY <3>2, <3>3, SubSeqProperties
    <3>5. Len(h) = 1 /\ h[1] = n
      BY <2>9, <3>2, <3>3, <3>4
    <3>6. <<n>> \in Seq(Attempts) /\ Len(<<n>>) = 1 /\ <<n>>[1] = n
      BY <1>3
    <3>7. \A i \in 1..1 : h[i] = <<n>>[i]
      BY <3>5, <3>6
    <3>8. h = <<n>>
      BY <3>4, <3>5, <3>6, <3>7, SeqEqual
    <3>9. QED
      BY <3>2, <3>8
  <2>11. ASSUME NEW i \in Len(l) + 1 .. Len(m) - 1
         PROVE  m[i] \in Attempts \ acked
    <3>1. i \in 1..Len(m) /\ i \in 1..Len(line) /\ ~(i <= a)
      BY <2>7
    <3>2. m[i] = line[i].id /\ m[i] \in Attempts
      BY <1>7, <2>3, <3>1
    <3>3. line[i].id \in acked => i <= Len(file.frames)
      BY <2>2, <3>1 DEF Continuable
    <3>4. QED
      BY <2>6, <3>1, <3>2, <3>3
  <2>12. Len(m) - 1 >= Len(l)
    BY <2>7
  <2>13. QED
    BY <2>10, <2>11, <2>12
<1>10. Log!AppendRec(n)
  <2>1. RecIds(file)' = m /\ RecIds(file) = l /\ RecIds(disk)' = RecIds(disk) /\ (~sound)' = ~sound
    BY <1>1, <1>6
  <2>2. CASE ~sound
    BY <1>4, <1>8, <2>1, <2>2 DEF Log!AppendRec
  <2>3. CASE sound
    <3>1. Len(<<n>>) = 1 /\ (Len(m) - 1) + 1 = Len(m)
      BY <1>7
    <3>2. /\ Len(m) - Len(<<n>>) >= Len(l) /\ Log!IsPrefix(l, m)
          /\ SubSeq(m, (Len(m) - Len(<<n>>)) + 1, Len(m)) = <<n>>
          /\ \A i \in Len(l) + 1 .. (Len(m) - Len(<<n>>)) : m[i] \in Attempts \ acked
      BY <1>7, <1>9, <2>3, <3>1, SamePrefix
    <3>3. Log!Grows(<<n>>)
      BY <2>1, <2>3, <3>2, Zenon DEF Log!Grows
    <3>4. QED
      BY <1>4, <2>1, <2>3, <3>3 DEF Log!AppendRec
  <2>4. QED
    BY <2>2, <2>3
<1>11. QED
  BY <1>3, <1>10

LEMMA FlushGrows ==
  ASSUME TypeOK, TypeOK', WalInv, proc = "up", NEW p \in Seq(Frames), PartialFlush(p),
         sound => Continuable(file.frames \o p, Len(file.frames), acked, next_seq)
  PROVE  Log!Grows(<<>>)
<1>1. PICK w \in Seq(Frames) : file' = Extend(file, w) /\ file'.frames \o buf' = file.frames \o p
  BY PartialFlushFacts
<1>2. /\ w \in Seq(Chunks) /\ p \in Seq(Chunks) /\ buf' \in Seq(Chunks) /\ file \in Segments
      /\ file' \in Segments /\ file.frames \in Seq(Chunks) /\ file'.frames \in Seq(Chunks)
  BY WholeIds DEF TypeOK, Segments, Chunks
<1>3. PICK line : line = file.frames \o p
  OBVIOUS
<1>4. Len(line) \in Nat
  <2>1. line \in Seq(Chunks)
    BY <1>2, <1>3, ConcatProperties
  <2>2. QED
    BY <2>1, LenProperties
<1>5. Continues(Recoverable(file'), line)
  <2>1. Continues(Recoverable(file'), file'.frames) /\ Len(Recoverable(file')) \in Nat
    BY <1>2, RecoverableType
  <2>2. Continues(file'.frames, file'.frames \o buf')
    BY <1>2, ExtendFacts
  <2>3. Continues(file'.frames, line) /\ Len(file'.frames) \in Nat
    BY <1>1, <1>2, <1>3, <2>2, LenProperties
  <2>4. QED
    BY <1>4, <2>1, <2>3 DEF Continues
<1>6. QED
  BY <1>1, <1>2, <1>3, <1>4, <1>5, Leaks

LEMMA DrainGrows ==
  ASSUME TypeOK, TypeOK', WalInv, proc = "up", NEW w, w \in {buf, buf \o <<Torn>>},
         file' = Extend(file, w)
  PROVE  Log!Grows(<<>>)
<1>1. w \in Seq(Chunks) /\ (sound => Recoverable(file') = Line)
  BY DrainFacts
<1>2. PICK line : line = Recoverable(file')
  OBVIOUS
<1>3. Len(line) \in Nat
  BY <1>2, RecoverableType DEF TypeOK
<1>4. sound => /\ Continues(Recoverable(file'), line)
               /\ Continuable(line, Len(file.frames), acked, next_seq)
  BY <1>1, <1>2, <1>3, SoundLine DEF Continues
<1>5. QED
  BY <1>1, <1>3, <1>4, Leaks

\* A failed or interrupted append, and a force to disk.
LEMMA WritesSeen ==
  ASSUME TypeOK, TypeOK', WalInv, AppendFails \/ CrashInAppend \/ SyncData \/ Crash \/ RotateFails
  PROVE  Log!Next \/ UNCHANGED Log!vars
<1>1. buf \in Seq(Frames) /\ buf \in Seq(Chunks) /\ buf \o <<>> = buf /\ file \in Segments
      /\ file.frames \in Seq(Chunks) /\ sound \in BOOLEAN
  BY WholeIds, ConcatEmptySeq DEF TypeOK, Segments, Chunks
<1>2. ASSUME Log!Grows(<<>>), ~sound => ~sound', UNCHANGED <<disk, acked>>
      PROVE  Log!Next
  <2>1. RecIds(disk)' = RecIds(disk)
    BY <1>2
  <2>2. Log!AppendFails
    BY <1>2, <2>1 DEF Log!AppendFails
  <2>3. QED
    BY <2>2 DEF Log!Next
<1>3. CASE AppendFails
  <2>1. proc = "up" /\ UNCHANGED <<disk, acked>> /\ budget.appends > 0
    BY <1>3, Charges DEF AppendFails
  <2>2. CASE PartialFlush(Append(buf, NewFrame)) /\ UNCHANGED sound
    <3>1. PICK p : p = Append(buf, NewFrame)
      OBVIOUS
    <3>2. /\ p \in Seq(Frames) /\ PartialFlush(p)
          /\ sound => Continuable(file.frames \o p, Len(file.frames), acked, next_seq)
      BY <2>1, <2>2, <3>1, NewFrameFacts, SoundAppend
    <3>3. Log!Grows(<<>>)
      BY <2>1, <3>2, FlushGrows
    <3>4. QED
      BY <1>2, <2>1, <2>2, <3>3
  <2>3. CASE PartialFlush(buf) /\ UNCHANGED sound
    <3>1. sound => Continuable(file.frames \o buf, Len(file.frames), acked, next_seq)
      BY <2>1, SoundLine DEF Line
    <3>2. PICK p : p = buf
      OBVIOUS
    <3>3. Log!Grows(<<>>)
      BY <1>1, <2>1, <2>3, <3>1, <3>2, FlushGrows
    <3>4. QED
      BY <1>2, <2>1, <2>3, <3>3
  <2>4. ASSUME NEW written \in {<<>>, <<Torn>>},
               file' = Extend(file, buf \o written), sound' = (sound /\ written = <<>>)
        PROVE  Log!Next
    <3>1. PICK w : w = buf \o written
      OBVIOUS
    <3>2. w \in {buf, buf \o <<Torn>>} /\ file' = Extend(file, w)
      BY <1>1, <2>4, <3>1
    <3>3. Log!Grows(<<>>)
      BY <2>1, <3>2, DrainGrows
    <3>4. ~sound => ~sound'
      BY <2>4
    <3>5. QED
      BY <1>2, <2>1, <3>3, <3>4
  <2>5. QED
    BY <1>3, <2>2, <2>3, <2>4 DEF AppendFails
<1>4. CASE CrashInAppend
  <2>1. proc = "up" /\ UNCHANGED <<disk, acked, sound>> /\ budget.appends > 0
    BY <1>4, Charges DEF CrashInAppend, observed
  <2>2. CASE file' = Extend(file, Append(buf, Torn))
    <3>1. Torn \in Chunks
      BY DEF Chunks
    <3>2. Append(buf, Torn) = buf \o <<Torn>>
      BY <1>1, <3>1, AppendIsConcat
    <3>3. PICK w : w = buf \o <<Torn>>
      OBVIOUS
    <3>4. file' = Extend(file, w) /\ w \in {buf, buf \o <<Torn>>}
      BY <2>2, <3>2, <3>3
    <3>5. Log!Grows(<<>>)
      BY <2>1, <3>4, DrainGrows
    <3>6. QED
      BY <1>2, <2>1, <3>5
  <2>3. CASE file' = Extend(file, Append(buf, NewFrame))
    <3>1. PICK w : w = Append(buf, NewFrame)
      OBVIOUS
    <3>2. w \in Seq(Frames)
      BY <2>1, <3>1, NewFrameFacts
    <3>3. w \in Seq(Chunks) /\ file' = Extend(file, w) /\ file' \in Segments
      BY <2>3, <3>1, <3>2, WholeIds DEF TypeOK
    <3>4. file'.frames = file.frames \o w
      BY <1>1, <3>3, ExtendRecoverable
    <3>5. PICK line : line = file'.frames
      OBVIOUS
    <3>6. Len(line) \in Nat
      BY <3>3, <3>5, LenProperties DEF Segments
    <3>7. sound => /\ Continues(Recoverable(file'), line)
                   /\ Continuable(line, Len(file.frames), acked, next_seq)
      BY <2>1, <3>1, <3>3, <3>4, <3>5, RecoverableType, SoundAppend
    <3>8. Log!Grows(<<>>)
      BY <2>1, <3>3, <3>6, <3>7, Leaks
    <3>9. QED
      BY <1>2, <2>1, <3>8
  <2>4. QED
    BY <1>4, <2>2, <2>3 DEF CrashInAppend
<1>5. CASE SyncData
  <2>1. /\ proc = "up" /\ file' = Extend(file, buf) /\ disk' = file' /\ acked' = acked /\ sound' = sound
    BY <1>5 DEF SyncData, observed
  <2>2. PICK w : w = buf
    OBVIOUS
  <2>3. Log!Grows(<<>>)
    BY <2>1, <2>2, DrainGrows
  <2>4. RecIds(disk)' = RecIds(file)'
    BY <2>1
  <2>5. Log!Force
    BY <2>1, <2>3, <2>4 DEF Log!Force
  <2>6. QED
    BY <2>5 DEF Log!Next
<1>6. CASE Crash
  <2>1. /\ file' = Extend(file, Partial) /\ UNCHANGED <<disk, acked, sound>>
    BY <1>6 DEF Crash
  <2>2. PICK w : w = Partial
    OBVIOUS
  <2>3. w \in Seq(Chunks) /\ w \in {<<>>, <<Torn>>}
    BY <2>2, EmptyFacts, TornFacts DEF Partial
  <2>4. file' = Extend(file, w) /\ file' \in Segments
    BY <2>1, <2>2 DEF TypeOK
  <2>5. /\ file'.base = file.base /\ file'.frames = file.frames \o w
        /\ Damaged(file) => Recoverable(file') = Recoverable(file)
    BY <1>1, <2>3, <2>4, ExtendRecoverable, Zenon
  <2>6. Recoverable(file') = Recoverable(file)
    <3>1. CASE w = <<>>
      <4>1. file'.frames = file.frames
        BY <1>1, <2>5, <3>1, ConcatEmptySeq
      <4>2. QED
        BY <2>5, <4>1 DEF Recoverable
    <3>2. CASE w = <<Torn>> /\ w # <<>>
      <4>1. buf # <<>>
        BY <2>2, <3>2 DEF Partial, TypeOK
      <4>2. proc = "up"
        BY <2>1, <4>1 DEF WalInv, Flushed
      <4>3. CASE sound
        <5>1. file.base \in Nat /\ file.frames \in Seq(Frames)
          BY <4>2, <4>3, SoundLine
        <5>2. ParseFrames(file'.frames) = file.frames
          BY <2>5, <3>2, <5>1, ParseTorn
        <5>3. file'.base # NoHeader
          BY <2>5, <5>1, MarkersAssumption DEF MarkersAssumption
        <5>4. Recoverable(file') = file.frames
          BY <5>2, <5>3 DEF Recoverable
        <5>5. Recoverable(file) = file.frames
          BY <5>1, RecoverableWhole
        <5>6. QED
          BY <5>4, <5>5
      <4>4. CASE ~sound
        BY <2>5, <4>2, <4>4 DEF WalInv, LineBad
      <4>5. QED
        BY <4>3, <4>4
    <3>3. QED
      BY <2>3, <3>1, <3>2
  <2>7. RecIds(file)' = RecIds(file) /\ RecIds(disk)' = RecIds(disk)
    BY <2>1, <2>6 DEF RecIds
  <2>8. QED
    BY <2>1, <2>7 DEF Log!vars
<1>7. CASE RotateFails
  <2>1. UNCHANGED <<disk, acked>>
    BY <1>7 DEF RotateFails
  <2>2. RecIds(disk)' = RecIds(disk)
    BY <2>1
  <2>3. CASE proc = "truncated" /\ file' \in {EmptyFile, TornHeader} /\ ~sound'
    <3>1. Recoverable(file) = <<>> /\ Recoverable(file') = <<>>
      BY <2>3, EmptyFacts, TornFacts DEF WalInv, Rotating, Recoverable
    <3>2. RecIds(file) = <<>> /\ RecIds(file)' = RecIds(file)
      <4>1. file' \in Segments
        BY DEF TypeOK
      <4>2. RecIds(file) = <<>> /\ RecIds(file') = <<>>
        BY <1>1, <3>1, <4>1, RecIdsFacts
      <4>3. QED
        BY <4>2
    <3>3. ~sound'
      BY <2>3
    <3>4. Log!DropFails
      BY <2>1, <2>2, <3>2, <3>3 DEF Log!DropFails
    <3>5. QED
      BY <3>4 DEF Log!Next
  <2>4. CASE proc = "headed" /\ UNCHANGED file /\ sound'
    <3>1. RecIds(file)' = RecIds(file) /\ sound'
      BY <2>4
    <3>2. Log!Mend
      BY <2>1, <2>2, <3>1 DEF Log!Mend
    <3>3. QED
      BY <3>2 DEF Log!Next
  <2>5. CASE proc = "up" /\ PartialFlush(buf) /\ UNCHANGED sound
    <3>1. sound => Continuable(file.frames \o buf, Len(file.frames), acked, next_seq)
      BY <2>5, SoundLine DEF Line
    <3>2. PICK p : p = buf
      OBVIOUS
    <3>3. Log!Grows(<<>>)
      BY <1>1, <2>5, <3>1, <3>2, FlushGrows
    <3>4. QED
      BY <1>2, <2>1, <2>5, <3>3
  <2>6. QED
    BY <1>7, <2>3, <2>4, <2>5 DEF RotateFails
<1>8. QED
  BY <1>3, <1>4, <1>5, <1>6, <1>7

\* Opening and rotating.
LEMMA OpensSeen ==
  ASSUME TypeOK, TypeOK', WalInv,
         \/ OpenNew \/ OpenSync \/ OpenFails \/ OpenStray \/ CrashInHeader
         \/ OpenExisting \/ OpenRefused
         \/ RotateTruncate \/ RotateHeader \/ RotateSync
  PROVE  Log!Next \/ UNCHANGED Log!vars
<1>1. file \in Segments /\ file' \in Segments /\ file.frames \in Seq(Chunks)
      /\ file.base \in Nat \cup {NoHeader} /\ next_seq \in Nat
  BY DEF TypeOK, Segments, Chunks
<1>2. CASE OpenNew \/ OpenFails \/ CrashInHeader
  <2>1. /\ file' = file \/ (file.base = NoHeader /\ file' \in {FreshSegment(0), TornHeader})
        /\ UNCHANGED <<disk, acked, sound>>
    BY <1>2, EmptyFacts DEF OpenNew, OpenFails, CrashInHeader, observed, WalInv, Rotating
  <2>2. Recoverable(file') = Recoverable(file)
    <3>1. CASE file.base = NoHeader /\ file' \in {FreshSegment(0), TornHeader}
      <4>1. Recoverable(file) = <<>>
        BY <3>1 DEF Recoverable
      <4>2. QED
        BY <3>1, <4>1, EmptyFacts, TornFacts
    <3>2. QED
      BY <2>1, <3>1
  <2>3. RecIds(file') = RecIds(file)
    BY <2>2 DEF RecIds
  <2>4. QED
    BY <2>1, <2>3 DEF Log!vars
<1>9. CASE OpenStray
  <2>1. PICK b \in StrayBases : file' = FreshSegment(b)
    BY <1>9 DEF OpenStray
  <2>2. /\ b \in Nat /\ file.base = NoHeader /\ disk' = file' /\ acked' = acked /\ sound'
    BY <1>9, BoundsAssumption DEF BoundsAssumption, OpenStray
  <2>3. Recoverable(file) = <<>> /\ Recoverable(file') = <<>>
    BY <2>1, <2>2, EmptyFacts DEF Recoverable
  <2>4. RecIds(file) = <<>> /\ RecIds(file') = <<>>
    BY <1>1, <2>3, RecIdsFacts
  <2>5. RecIds(file)' = RecIds(file) /\ RecIds(disk)' = RecIds(file)
    BY <2>2, <2>4
  <2>6. Log!Mend
    BY <2>2, <2>5 DEF Log!Mend
  <2>7. QED
    BY <2>6 DEF Log!Next
<1>3. CASE OpenExisting
  <2>1. PICK r : r = ParseFrames(file.frames)
    OBVIOUS
  <2>2. PICK k : Cut(file.frames, k)
    BY <1>1, CutExists
  <2>3. r \in Seq(Frames)
    BY <1>1, <2>1, <2>2, ParseCut
  <2>4. /\ file' = [file EXCEPT !.frames = r] /\ file.base # NoHeader
        /\ disk' \in {file', disk} /\ acked' = acked /\ sound'
    BY <1>3, <2>1 DEF OpenExisting, TruncateTo
  <2>5. /\ file'.frames = r /\ file'.base = file.base /\ file.base \in Nat
    BY <1>1, <2>4 DEF Segments
  <2>6. Recoverable(file') = Recoverable(file)
    <3>1. Recoverable(file) = r
      BY <2>1, <2>4 DEF Recoverable
    <3>2. Recoverable(file') = r
      BY <2>3, <2>5, RecoverableWhole
    <3>3. QED
      BY <3>1, <3>2
  <2>7. RecIds(file') = RecIds(file)
    BY <2>6 DEF RecIds
  <2>8. RecIds(file)' = RecIds(file) /\ RecIds(disk)' \in {RecIds(disk), RecIds(file)}
    BY <2>4, <2>7
  <2>9. Log!Mend
    BY <2>4, <2>8 DEF Log!Mend
  <2>10. QED
    BY <2>9 DEF Log!Next
<1>4. CASE OpenRefused
  BY <1>4 DEF OpenRefused, observed, Log!vars
<1>5. CASE RotateTruncate
  <2>1. file' = EmptyFile /\ disk' = disk /\ acked' = {} /\ sound' = sound
    BY <1>5 DEF RotateTruncate
  <2>2. RecIds(file') = <<>>
    BY <1>1, <2>1, EmptyFacts, RecIdsFacts
  <2>3. RecIds(file)' = <<>> /\ RecIds(disk)' = RecIds(disk)
    BY <2>1, <2>2
  <2>4. Log!Drop
    BY <2>1, <2>3 DEF Log!Drop
  <2>5. QED
    BY <2>4 DEF Log!Next
<1>6. CASE RotateHeader
  <2>1. /\ proc = "truncated" /\ file' = FreshSegment(next_seq)
        /\ UNCHANGED <<disk, acked, sound>>
    BY <1>6 DEF RotateHeader, observed
  <2>2. Recoverable(file) = <<>> /\ Recoverable(file') = <<>>
    <3>1. Recoverable(file) = <<>>
      BY <2>1 DEF WalInv, Rotating, Recoverable
    <3>2. QED
      BY <1>1, <2>1, <3>1, EmptyFacts
  <2>3. RecIds(file') = RecIds(file)
    BY <2>2 DEF RecIds
  <2>4. QED
    BY <2>1, <2>3 DEF Log!vars
<1>7. CASE OpenSync \/ RotateSync
  <2>1. disk' = file /\ file' = file /\ acked' = acked /\ sound'
    BY <1>7 DEF RotateSync, OpenSync
  <2>2. RecIds(file)' = RecIds(file) /\ RecIds(disk)' = RecIds(file)
    BY <2>1
  <2>3. Log!Mend
    BY <2>1, <2>2 DEF Log!Mend
  <2>4. QED
    BY <2>3 DEF Log!Next
<1>8. QED
  BY <1>2, <1>3, <1>4, <1>5, <1>6, <1>7, <1>9

\* A loss of power takes back no more than AppendLog allows.
LEMMA OutageSeen ==
  ASSUME TypeOK, TypeOK', WalInv, PowerLoss
  PROVE  Log!Next
<1>1. /\ file \in Segments /\ disk \in Segments /\ file' \in Segments
      /\ disk.frames \in Seq(Chunks) /\ file.frames \in Seq(Chunks) /\ file'.frames \in Seq(Chunks)
      /\ disk' = file' /\ acked' = acked /\ sound' = sound
  BY DEF TypeOK, PowerLoss, Segments, Chunks
<1>2. PICK l, m, d : l = RecIds(file) /\ m = RecIds(file') /\ d = RecIds(disk)
  OBVIOUS
<1>3. RecIds(file) = l /\ RecIds(disk) = d /\ RecIds(file)' = m /\ RecIds(disk)' = m
  BY <1>1, <1>2
<1>4. l \in Seq(Attempts) /\ m \in Seq(Attempts) /\ d \in Seq(Attempts)
  BY <1>1, <1>2, RecIdsFacts
<1>5. file' \in CutShort(file) => m \in Prefixes(l)
  BY <1>1, <1>2, CutShortFacts, RecIdsGrow
<1>6. CASE ~loose
  <2>1. file' \in CutShort(file) /\ IsPrefix(disk.frames, file'.frames)
    BY <1>6 DEF PowerLoss, Images
  <2>2. disk.base = file'.base /\ Continues(disk.frames, file'.frames)
    <3>1. file.base = disk.base
      BY <1>6 DEF WalInv, OnDisk
    <3>2. QED
      BY <1>1, <2>1, <3>1, CutShortFacts, PrefixContinues
  <2>3. IsPrefix(d, m)
    BY <1>1, <1>2, <2>2, RecoverableGrows, RecIdsGrow
  <2>4. Log!PowerLoss
    BY <1>1, <1>3, <1>5, <2>1, <2>3, SamePrefix, Zenon DEF Log!PowerLoss
  <2>5. QED
    BY <2>4 DEF Log!Next
<1>7. CASE loose
  <2>1. AllIds(disk.frames) \cap AllIds(file.frames) = {}
    BY <1>7 DEF WalInv, OnDisk
  <2>2. IsPrefix(d, l) => d = <<>>
    <3>1. SUFFICES ASSUME IsPrefix(d, l), d # <<>> PROVE FALSE
      OBVIOUS
    <3>2. Continues(d, l) /\ Len(d) \in Nat \ {0} /\ Len(l) \in Nat
      BY <1>4, <3>1, PrefixContinues, EmptySeq, LenProperties
    <3>3. 1 \in 1..Len(d) /\ 1 \in 1..Len(l) /\ l[1] = d[1]
      BY <3>2 DEF Continues
    <3>4. /\ Len(d) = Len(Recoverable(disk)) /\ Len(l) = Len(Recoverable(file))
          /\ \A i \in 1..Len(Recoverable(disk)) : d[i] = Recoverable(disk)[i].id
          /\ \A i \in 1..Len(Recoverable(file)) : l[i] = Recoverable(file)[i].id
      BY <1>1, <1>2, RecIdsFacts
    <3>5. /\ \A i \in 1..Len(Recoverable(disk)) : Recoverable(disk)[i].id \in AllIds(disk.frames)
          /\ \A i \in 1..Len(Recoverable(file)) : Recoverable(file)[i].id \in AllIds(file.frames)
      BY <1>1, RecoverableType
    <3>6. d[1] \in AllIds(disk.frames) /\ l[1] \in AllIds(file.frames)
      BY <3>3, <3>4, <3>5
    <3>7. QED
      BY <2>1, <3>3, <3>6
  <2>3. \A f \in Seq(Attempts) : IsPrefix(<<>>, f) /\ <<>> \in Prefixes(f)
    <3>1. SUFFICES ASSUME NEW f \in Seq(Attempts) PROVE IsPrefix(<<>>, f) /\ <<>> \in Prefixes(f)
      OBVIOUS
    <3>2. /\ Len(f) \in Nat /\ <<>> \in Seq(Attempts) /\ Len(<<>>) = 0
      BY LenProperties, EmptySeq
    <3>3. SubSeq(<<>>, 1, 0) = <<>> /\ SubSeq(f, 1, 0) = <<>> /\ 0 <= Len(f)
      BY <3>2, SubSeqEmpty
    <3>4. IsPrefix(<<>>, f)
      BY <3>2, <3>3, Zenon DEF IsPrefix
    <3>5. QED
      BY <3>2, <3>3, <3>4 DEF Prefixes
  <2>4. IsPrefix(d, l) => \A f \in Seq(Attempts) : IsPrefix(d, f)
    BY <2>2, <2>3
  <2>5. \/ m \in Prefixes(l) /\ (IsPrefix(d, l) => IsPrefix(d, m))
        \/ ~IsPrefix(d, l) /\ m \in {d, <<>>}
    <3>1. CASE file' \in CutShort(file)
      BY <1>4, <1>5, <2>4, <3>1
    <3>2. CASE file' = disk
      <4>1. m = d
        BY <1>2, <3>2
      <4>2. CASE IsPrefix(d, l)
        BY <1>4, <2>2, <2>3, <4>1, <4>2
      <4>3. QED
        BY <4>1, <4>2
    <3>3. CASE file' \in {EmptyFile, TornHeader}
      <4>1. m = <<>>
        BY <1>1, <1>2, <3>3, EmptyFacts, TornFacts, RecIdsFacts
      <4>2. CASE IsPrefix(d, l)
        BY <1>4, <2>2, <2>3, <4>1, <4>2
      <4>3. QED
        BY <4>1, <4>2
    <3>4. QED
      BY <3>1, <3>2, <3>3 DEF PowerLoss, Images
  <2>6. Log!PowerLoss
    BY <1>1, <1>3, <2>5, SamePrefix, Zenon DEF Log!PowerLoss
  <2>7. QED
    BY <2>6 DEF Log!Next
<1>8. QED
  BY <1>6, <1>7

\* The log does what AppendLog promises the node: a crash at any system call
\* of an append or a rotation, a failed call or a loss of power is, seen from
\* the records, one of the few steps AppendLog allows.
THEOREM LogServesNode == Spec => ImplementsAppendLog
<1>1. Init => Log!Init
  <2>1. SUFFICES ASSUME Init PROVE Log!Init
    OBVIOUS
  <2>2. RecIds(EmptyFile) = <<>>
    BY EmptyFacts, RecIdsFacts
  <2>3. RecIds(file) = <<>> /\ RecIds(disk) = <<>> /\ acked = {} /\ sound = TRUE
    BY <2>1, <2>2, Zenon DEF Init
  <2>4. QED
    BY <2>3, Zenon DEF Log!Init
<1>2. TypeOK /\ TypeOK' /\ WalInv /\ [Next]_vars => [Log!Next]_(Log!vars)
  <2>1. SUFFICES ASSUME TypeOK, TypeOK', WalInv, [Next]_vars
                 PROVE  Log!Next \/ UNCHANGED Log!vars
    OBVIOUS
  <2>2. CASE AppendFrame
    BY <2>1, <2>2, AppendsRecord DEF Log!Next
  <2>3. CASE AppendFails \/ CrashInAppend \/ SyncData \/ Crash \/ RotateFails
    BY <2>1, <2>3, WritesSeen
  <2>4. CASE \/ OpenNew \/ OpenSync \/ OpenFails \/ OpenStray \/ CrashInHeader
             \/ OpenExisting \/ OpenRefused
             \/ RotateTruncate \/ RotateHeader \/ RotateSync
    BY <2>1, <2>4, OpensSeen
  <2>5. CASE PowerLoss
    BY <2>1, <2>5, OutageSeen
  <2>6. CASE UNCHANGED vars
    BY <2>6 DEF vars, Log!vars
  <2>7. QED
    BY <2>1, <2>2, <2>3, <2>4, <2>5, <2>6 DEF Next
<1>3. QED
  BY <1>1, <1>2, WalInvariant, PTL DEF Spec, ImplementsAppendLog, Log!Spec
=============================================================================
