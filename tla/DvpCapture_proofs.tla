-------------------------- MODULE DvpCapture_proofs --------------------------
(* Proofs about the capture of frames, for every number of chunks, blocks and  *)
(* frames: whatever events an interrupt finds merged, lost or late, and        *)
(* wherever a recovery or a file transaction falls,                            *)
(*   - the source and the pipeline agree on the open frame, and the source     *)
(*     never breaks the protocol of the pipeline's calls (ConsistentCapture);  *)
(*   - a frame that gets its end mark is whole (WholeFrames).                  *)
(*                                                                             *)
(* The agreement is not inductive by itself.  A chunk is committed when enough *)
(* rows were counted, and the pipeline accepts it when its own offset says the *)
(* same; FrameInv ties the two counts together while a frame is open.  What    *)
(* wholeness needs besides is under "Order".                                   *)
EXTENDS DvpCapture, TLAPS

Copies == [from : -1 .. Frames - 1, n : 0 .. B + 1]
Worlds == [s : Source, p : Pipe, copied : Copies,
           published : {"none", "whole", "broken"}]

\* The rows of an open frame are those of its committed chunks and of the one
\* being filled, which is full only at the end of the frame.
RowsInv(s, p) ==
  /\ s.rows = p.offset * ChunkBlocks + s.crows
  /\ s.crows = ChunkBlocks => s.rows = B
  /\ s.final => s.rows = B /\ s.crows = ChunkBlocks

FrameInv(w) ==
  /\ w.p.errors = 0
  /\ w.s.open <=> w.p.active
  /\ w.p.leased => w.p.active
  /\ w.s.open => /\ w.s.chunk /\ w.p.leased /\ w.s.active
                 /\ RowsInv(w.s, w.p)

IInv == TypeOK /\ FrameInv(World) /\ (held => ~src.open /\ ~irq)

\* A row was counted and copied, or the frame was given up.
RowAdded(w, v) ==
  /\ v.published = w.published
  /\ v.s.open => /\ w.s.open /\ v.s.rows = w.s.rows + 1 /\ v.s.rows <= B
                 /\ v.copied = Recorded(w.copied, bank[completed_sink(w)])

\* The pipeline has no frame open.
Shut(w) == w.p.errors = 0 /\ ~w.p.active /\ ~w.p.leased
-----------------------------------------------------------------------------
(* Sizes.                                                                      *)

LEMMA Sizes ==
  /\ ChunkBlocks \in Nat \ {0} /\ B \in Nat \ {0} /\ B > 1
  /\ F \in Nat \ {0} /\ B = F * ChunkBlocks
<1>1. ChunkBlocks \in Nat \ {0} BY DvpAssumption DEF ChunkBlocks
<1>2. F \in Nat \ {0} BY DvpAssumption
<1>3. \A a, b \in Nat \ {0} : a * b \in Nat \ {0} OBVIOUS
<1>4. \A a \in Nat \ {0, 1}, b \in Nat \ {0} : a * b > 1 OBVIOUS
<1>5. F \in Nat \ {0, 1} BY DvpAssumption
<1> QED BY <1>1, <1>2, <1>3, <1>4, <1>5 DEF B

\* The chunk after which all rows of a frame are there is the last one.
LEMMA LastChunk ==
  ASSUME NEW o \in 0 .. F - 1
  PROVE  o * ChunkBlocks + ChunkBlocks = B <=> o = F - 1
<1> DEFINE c == ChunkBlocks
<1>1. c \in Nat \ {0} /\ F \in Nat \ {0} /\ B = F * c BY Sizes
<1> HIDE DEF c
<1>2. o * c + c = (o + 1) * c BY <1>1
<1>3. ASSUME o + 1 < F PROVE (o + 1) * c # F * c
  <2>1. PICK d \in Nat \ {0} : F = (o + 1) + d
    <3>1. F - (o + 1) \in Nat \ {0} /\ F = (o + 1) + (F - (o + 1)) BY <1>1, <1>3
    <3> QED BY <3>1
  <2>2. F * c = (o + 1) * c + d * c BY <1>1, <2>1
  <2>3. d * c \in Nat \ {0} BY <1>1, <2>1
  <2>4. (o + 1) * c \in Nat BY <1>1
  <2> QED BY <2>2, <2>3, <2>4
<1>4. o + 1 < F \/ o + 1 = F BY <1>1
<1> QED BY <1>1, <1>2, <1>3, <1>4 DEF c

LEMMA RowsFit ==
  ASSUME NEW o \in 0 .. F - 1
  PROVE  o * ChunkBlocks + ChunkBlocks <= F * ChunkBlocks
<1> DEFINE c == ChunkBlocks
<1>1. c \in Nat \ {0} /\ F \in Nat \ {0} BY Sizes
<1> HIDE DEF c
<1>2. PICK d \in Nat : F = (o + 1) + d
  <2>1. F - (o + 1) \in Nat /\ F = (o + 1) + (F - (o + 1)) BY <1>1
  <2> QED BY <2>1
<1>3. F * c = o * c + c + d * c BY <1>1, <1>2
<1>4. d * c \in Nat /\ o * c \in Nat BY <1>1, <1>2
<1> QED BY <1>1, <1>3, <1>4 DEF c

-----------------------------------------------------------------------------
(* The calls of the pipeline.                                                  *)

LEMMA WithSource ==
  ASSUME NEW w \in Worlds, NEW s \in Source
  PROVE  LET v == [w EXCEPT !.s = s]
         IN  /\ v \in Worlds /\ v.s = s /\ v.p = w.p
             /\ v.copied = w.copied /\ v.published = w.published
BY DEF Worlds

LEMMA BadSource ==
  ASSUME NEW w \in Worlds
  PROVE  LET v == [w EXCEPT !.s.bad = TRUE]
         IN  /\ v \in Worlds /\ v.p = w.p /\ v.s = [w.s EXCEPT !.bad = TRUE]
             /\ v.s.open = w.s.open /\ v.published = w.published
<1>1. w.s \in Source BY DEF Worlds
<1>2. [w.s EXCEPT !.bad = TRUE] \in Source /\ [w.s EXCEPT !.bad = TRUE].open = w.s.open
  BY <1>1 DEF Source
<1>3. [w EXCEPT !.s.bad = TRUE] = [w EXCEPT !.s = [w.s EXCEPT !.bad = TRUE]] OBVIOUS
<1> QED BY <1>2, <1>3, WithSource

LEMMA Aborted ==
  ASSUME NEW w \in Worlds
  PROVE  /\ abort_frame(w) \in Worlds /\ abort_frame(w).s = w.s
         /\ abort_frame(w).published = w.published
         /\ w.p.errors = 0 /\ (w.p.leased => w.p.active) => Shut(abort_frame(w))
<1>1. NoFrame \in Copies BY Sizes, DvpAssumption DEF NoFrame, Copies
<1>2. 0 \in 0 .. F - 1 BY Sizes
<1> QED BY <1>1, <1>2 DEF abort_frame, Worlds, Pipe, Shut

LEMMA GivenUp ==
  ASSUME NEW w \in Worlds, w.p.errors = 0, w.p.leased => w.p.active
  PROVE  /\ GiveUp(w) \in Worlds /\ FrameInv(GiveUp(w)) /\ ~GiveUp(w).s.open
         /\ GiveUp(w).published = w.published
<1> DEFINE a == abort_frame(w)
<1>1. a \in Worlds /\ a.s = w.s /\ Shut(a) /\ a.published = w.published BY Aborted
<1>2. GiveUp(w) = [a EXCEPT !.s = [@ EXCEPT !.bad = TRUE, !.open = FALSE,
                                                !.chunk = FALSE]]
  BY DEF GiveUp
<1> DEFINE t == [a.s EXCEPT !.bad = TRUE, !.open = FALSE, !.chunk = FALSE]
<1> HIDE DEF a
<1>3. a.s \in Source BY <1>1 DEF Worlds
<1>4. t \in Source /\ ~t.open BY <1>3 DEF Source
<1>5. GiveUp(w) = [a EXCEPT !.s = t] BY <1>2
<1> HIDE DEF t
<1>6. /\ GiveUp(w) \in Worlds /\ GiveUp(w).s = t /\ GiveUp(w).p = a.p
      /\ GiveUp(w).published = w.published
  BY <1>1, <1>4, <1>5, WithSource
<1> QED BY <1>1, <1>4, <1>6 DEF FrameInv, Shut

-----------------------------------------------------------------------------
(* The parts of the interrupt.                                                 *)

LEMMA Starts ==
  ASSUME NEW w \in Worlds, FrameInv(w), NEW begun \in BOOLEAN, NEW granted \in BOOLEAN
  PROVE  LET v == FrameStarted(w, begun, granted)
         IN  /\ v \in Worlds /\ FrameInv(v)
             /\ v.published \in {w.published, "none"}
             /\ v.s.open => v.s.rows = 0 /\ v.s.toggle = 0 /\ v.copied.n = 0
<1> DEFINE sup == Superseded(w)
           fresh == [sup EXCEPT !.s = [@ EXCEPT !.active = TRUE,
                  !.open = FALSE, !.rows = 0, !.crows = 0, !.bad = FALSE,
                  !.final = FALSE, !.toggle = 0]]
           b == IF ready THEN begin_frame(fresh, begun) ELSE fresh
           a == IF ready /\ begun /\ b.p.active THEN acquire_write(b, granted) ELSE b
           result == IF a.p.leased THEN [a EXCEPT !.s = [@ EXCEPT !.open = TRUE, !.chunk = TRUE]]
                     ELSE [abort_frame(a) EXCEPT !.s.bad = TRUE]
           Ready(v) == /\ v \in Worlds /\ v.p.errors = 0
                       /\ v.p.leased => v.p.active
                       /\ v.p.active => v.p.offset = 0 /\ v.copied.n = 0
                       /\ v.s.active /\ ~v.s.open /\ ~v.s.final
                       /\ v.s.rows = 0 /\ v.s.crows = 0 /\ v.s.toggle = 0
                       /\ v.published \in {w.published, "none"}
<1>0. FrameStarted(w, begun, granted) = result BY DEF FrameStarted
<1>1. sup \in Worlds /\ Shut(sup) /\ sup.published = w.published
  BY Aborted DEF Superseded, FrameInv, Shut
<1> HIDE DEF sup
<1>2. fresh \in Worlds /\ Shut(fresh) /\ Ready(fresh)
  <2> DEFINE t == [sup.s EXCEPT !.active = TRUE, !.open = FALSE, !.rows = 0,
                     !.crows = 0, !.bad = FALSE, !.final = FALSE, !.toggle = 0]
  <2>1. sup.s \in Source /\ 0 \in 0 .. ChunkBlocks BY <1>1, Sizes DEF Worlds
  <2>2. /\ t \in Source /\ t.active /\ ~t.open /\ ~t.final
        /\ t.rows = 0 /\ t.crows = 0 /\ t.toggle = 0
    BY <2>1 DEF Source
  <2>3. fresh = [sup EXCEPT !.s = t] OBVIOUS
  <2> HIDE DEF t, fresh
  <2>4. /\ fresh \in Worlds /\ fresh.s = t /\ fresh.p = sup.p
        /\ fresh.published = sup.published
    BY <1>1, <2>2, <2>3, WithSource
  <2> QED BY <1>1, <2>2, <2>4 DEF Shut
<1> HIDE DEF fresh
<1>3. Ready(b) /\ ~b.p.leased
  <2>1. NoFrame \in Copies BY Sizes, DvpAssumption DEF NoFrame, Copies
  <2>2. 0 \in 0 .. F - 1 BY Sizes
  <2>3. NoFrame.n = 0 BY DEF NoFrame
  <2> QED BY <1>2, <2>1, <2>2, <2>3 DEF begin_frame, CanBegin, Shut, Worlds, Pipe
<1> HIDE DEF b
<1>4. Ready(a)
  BY <1>3 DEF acquire_write, CanAcquire, Worlds, Pipe
<1> HIDE DEF a
<1>5. CASE a.p.leased
  <2> DEFINE t == [a.s EXCEPT !.open = TRUE, !.chunk = TRUE]
  <2>1. result = [a EXCEPT !.s = t] BY <1>5
  <2>a. a.s \in Source BY <1>4 DEF Worlds
  <2>b. /\ t \in Source /\ t.open /\ t.chunk /\ t.active /\ ~t.final
        /\ t.rows = 0 /\ t.crows = 0 /\ t.toggle = 0
    BY <1>4, <2>a DEF Source
  <2> HIDE DEF t, result
  <2>2. /\ result \in Worlds /\ result.p = a.p /\ result.s = t
        /\ result.copied = a.copied /\ result.published = a.published
    BY <1>4, <2>1, <2>b, WithSource
  <2>3. /\ result.s.open /\ result.s.chunk /\ result.s.active /\ ~result.s.final
        /\ result.s.rows = 0 /\ result.s.crows = 0 /\ result.s.toggle = 0
    BY <2>b, <2>2
  <2>4. 0 = 0 * ChunkBlocks + 0 BY Sizes
  <2>5. /\ a.p.active /\ a.p.offset = 0 /\ a.p.errors = 0
        /\ a.copied.n = 0 /\ a.published \in {w.published, "none"}
    BY <1>4, <1>5
  <2>6. RowsInv(result.s, result.p) BY <2>2, <2>3, <2>4, <2>5, Sizes DEF RowsInv
  <2> QED BY <1>0, <1>5, <2>2, <2>3, <2>5, <2>6 DEF FrameInv
<1>6. CASE ~a.p.leased
  <2> DEFINE d == abort_frame(a)
  <2>1. d \in Worlds /\ d.s = a.s /\ Shut(d) /\ d.published = a.published
    BY <1>4, Aborted
  <2> HIDE DEF d
  <2>2. result = [d EXCEPT !.s.bad = TRUE] BY <1>6 DEF d
  <2>3. /\ result \in Worlds /\ result.p = d.p /\ ~result.s.open
        /\ result.published = d.published
    <3> HIDE DEF result
    <3> QED BY <1>4, <2>1, <2>2, BadSource
  <2> QED BY <1>0, <1>4, <2>1, <2>3 DEF FrameInv, Shut
<1> QED BY <1>5, <1>6

LEMMA Overflows ==
  ASSUME NEW w \in Worlds, FrameInv(w)
  PROVE  /\ Overflowed(w) \in Worlds /\ FrameInv(Overflowed(w))
         /\ ~Overflowed(w).s.open /\ Overflowed(w).published = w.published
<1>1. CASE w.s.open BY <1>1, GivenUp DEF Overflowed, FrameInv
<1>2. CASE ~w.s.open
  <2>1. Overflowed(w) = [w EXCEPT !.s.bad = TRUE] BY <1>2 DEF Overflowed
  <2>2. /\ Overflowed(w) \in Worlds /\ Overflowed(w).p = w.p
        /\ ~Overflowed(w).s.open /\ Overflowed(w).published = w.published
    BY <1>2, <2>1, BadSource
  <2> QED BY <1>2, <2>2 DEF FrameInv
<1> QED BY <1>1, <1>2

\* A closed frame needs no more than that the pipeline has none open.
LEMMA ClosedFrame ==
  ASSUME NEW w \in Worlds, ~w.s.open, ~w.p.active, ~w.p.leased, w.p.errors = 0
  PROVE  FrameInv(w)
BY DEF FrameInv

Counted(c) ==
  /\ c \in Worlds /\ c.p.errors = 0
  /\ c.s.open <=> c.p.active
  /\ c.p.leased => c.p.active
  /\ c.s.open => /\ c.s.chunk /\ c.p.leased /\ c.s.active /\ ~c.s.final
                 /\ c.s.rows = c.p.offset * ChunkBlocks + c.s.crows

LEMMA RecordedType ==
  ASSUME NEW c \in Copies, NEW b \in Blocks
  PROVE  Recorded(c, b) \in Copies
<1>1. b.block \in 0 .. B /\ b.frame \in -1 .. Frames - 1
  BY Sizes, DvpAssumption DEF Blocks, Torn
<1>2. [from |-> -1, n |-> B + 1] \in Copies BY Sizes, DvpAssumption DEF Copies
<1>3. [from |-> b.frame, n |-> 1] \in Copies BY <1>1, Sizes DEF Copies
<1>4. b.block = c.n + 1 => [c EXCEPT !.n = @ + 1] \in Copies
  BY <1>1, Sizes DEF Copies
<1> QED BY <1>2, <1>3, <1>4 DEF Recorded

LEMMA RowCounts ==
  ASSUME TypeOK, NEW w \in Worlds, FrameInv(w)
  PROVE  LET c == RowCopied(w)
         IN  /\ Counted(c) /\ RowAdded(w, c)
             /\ c.s.open => c.s.toggle = w.s.toggle
<1> DEFINE t == [w.s EXCEPT !.rows = @ + 1]
           counted == [w EXCEPT !.s = t]
           w2 == IF counted.s.rows > B THEN Overflowed(counted) ELSE counted
           u == [w2.s EXCEPT !.crows = @ + 1]
           copy == Recorded(w2.copied, bank[completed_sink(w)])
           result == IF w2.s.open /\ w2.s.chunk
                       THEN [w2 EXCEPT !.copied = copy, !.s = u]
                       ELSE w2
<1>1. RowCopied(w) = result BY DEF RowCopied
<1>2. w.s \in Source BY DEF Worlds
<1>3. /\ t \in Source /\ t.rows = w.s.rows + 1 /\ t.crows = w.s.crows
      /\ t.open = w.s.open /\ t.chunk = w.s.chunk /\ t.active = w.s.active
      /\ t.final = w.s.final /\ t.toggle = w.s.toggle
  BY <1>2 DEF Source
<1> HIDE DEF t
<1>4. /\ counted \in Worlds /\ counted.s = t /\ counted.p = w.p
      /\ counted.copied = w.copied /\ counted.published = w.published
  BY <1>3, WithSource
<1> HIDE DEF counted
<1>5. CASE counted.s.rows > B
  <2>1. w2 = Overflowed(counted) BY <1>5
  <2>2. w2 \in Worlds /\ FrameInv(w2) /\ ~w2.s.open /\ w2.published = w.published
    <3>1. CASE w.s.open
      <4>1. w2 = GiveUp(counted) BY <1>3, <1>4, <2>1, <3>1 DEF Overflowed
      <4>2. counted.p.errors = 0 /\ (counted.p.leased => counted.p.active)
        BY <1>4 DEF FrameInv
      <4> HIDE DEF w2
      <4> QED BY <1>4, <4>1, <4>2, GivenUp
    <3>2. CASE ~w.s.open
      <4>1. w2 = [counted EXCEPT !.s.bad = TRUE]
        BY <1>3, <1>4, <2>1, <3>2 DEF Overflowed
      <4> HIDE DEF w2
      <4>2. w2 \in Worlds /\ w2.p = w.p /\ ~w2.s.open /\ w2.published = w.published
        BY <1>3, <1>4, <3>2, <4>1, BadSource
      <4> QED BY <3>2, <4>2 DEF FrameInv
    <3> QED BY <3>1, <3>2
  <2>3. result = w2 BY <2>2
  <2> HIDE DEF w2, result
  <2> QED BY <1>1, <2>2, <2>3 DEF FrameInv, Counted, RowAdded
<1>6. CASE ~(counted.s.rows > B) /\ ~w.s.open
  <2>1. w2 = counted /\ result = counted BY <1>3, <1>4, <1>6
  <2> HIDE DEF w2, result
  <2> QED BY <1>1, <1>3, <1>4, <1>6, <2>1 DEF FrameInv, Counted, RowAdded
<1>7. CASE ~(counted.s.rows > B) /\ w.s.open
  <2>1. w2 = counted BY <1>7
  <2>2. RowsInv(w.s, w.p) /\ w.s.chunk /\ w.p.leased /\ w.s.active
    BY <1>7 DEF FrameInv
  <2>3. result = [w2 EXCEPT !.copied = copy, !.s = u] BY <1>3, <1>4, <1>7, <2>1, <2>2
  <2>4. /\ w.s.crows \in 0 .. ChunkBlocks /\ w.s.rows \in Nat
        /\ w.p.offset \in 0 .. F - 1
    BY <1>2 DEF Source, Worlds, Pipe
  <2>5. w.s.rows # B /\ ~w.s.final /\ w.s.crows # ChunkBlocks
    BY <1>3, <1>4, <1>7, <2>2, <2>4, Sizes DEF RowsInv
  <2>6. w.s.crows + 1 \in 0 .. ChunkBlocks BY <2>4, <2>5, Sizes
  <2>7. /\ u \in Source /\ u.crows = w.s.crows + 1 /\ u.rows = w.s.rows + 1
        /\ u.open /\ u.chunk /\ u.active /\ ~u.final /\ u.toggle = w.s.toggle
    BY <1>3, <1>4, <1>7, <2>1, <2>2, <2>5, <2>6 DEF Source
  <2>8. bank[completed_sink(w)] \in Blocks
    <3>1. completed_sink(w) \in {0, 1}
      BY <1>2 DEF completed_sink, TypeOK, Source
    <3> QED BY <3>1 DEF TypeOK
  <2>a. copy = Recorded(w.copied, bank[completed_sink(w)]) BY <1>4, <2>1
  <2>b. u.rows <= B BY <1>3, <1>4, <1>7, <2>4, <2>7, Sizes
  <2>9. copy \in Copies
    BY <1>4, <2>1, <2>8, RecordedType DEF Worlds
  <2> HIDE DEF u, copy
  <2>10. /\ result \in Worlds /\ result.s = u /\ result.p = w.p
         /\ result.copied = copy /\ result.published = w.published
    BY <1>4, <2>1, <2>3, <2>7, <2>9 DEF Worlds
  <2> HIDE DEF result
  <2>11. w.p.offset * ChunkBlocks \in Nat BY <2>4, Sizes
  <2>12. u.rows = w.p.offset * ChunkBlocks + u.crows
    BY <2>2, <2>4, <2>7, <2>11 DEF RowsInv
  <2> QED BY <1>1, <1>7, <2>2, <2>7, <2>10, <2>12, <2>a, <2>b
    DEF FrameInv, Counted, RowAdded
<1> QED BY <1>5, <1>6, <1>7

LEMMA Toggled ==
  ASSUME NEW w \in Worlds, FrameInv(w)
  PROVE  LET v == [w EXCEPT !.s.toggle = 1 - @]
         IN  /\ v \in Worlds /\ FrameInv(v) /\ v.s.toggle = 1 - w.s.toggle
             /\ v.s.open = w.s.open /\ v.s.rows = w.s.rows
             /\ v.copied = w.copied /\ v.published = w.published
<1> DEFINE t == [w.s EXCEPT !.toggle = 1 - @]
           v == [w EXCEPT !.s = t]
<1>1. w.s \in Source BY DEF Worlds
<1>2. /\ t \in Source /\ t.open = w.s.open /\ t.chunk = w.s.chunk
      /\ t.active = w.s.active /\ t.final = w.s.final
      /\ t.rows = w.s.rows /\ t.crows = w.s.crows /\ t.toggle = 1 - w.s.toggle
  BY <1>1 DEF Source
<1>a. v = [w EXCEPT !.s.toggle = 1 - @] OBVIOUS
<1> HIDE DEF t
<1>3. /\ v \in Worlds /\ v.s = t /\ v.p = w.p
      /\ v.copied = w.copied /\ v.published = w.published
  BY <1>2, WithSource
<1> HIDE DEF v
<1>4. FrameInv(v) BY <1>2, <1>3 DEF FrameInv, RowsInv
<1> QED BY <1>a, <1>2, <1>3, <1>4

\* The chunk that is full before the end of the frame is committed, and the
\* next one begins where it ended.
LEMMA ChunkCommitted ==
  ASSUME NEW c \in Worlds, Counted(c), NEW granted \in BOOLEAN,
         c.s.open, c.s.rows # B, c.s.crows = ChunkBlocks
  PROVE  LET next == acquire_write(NextChunk(commit_write(c, FALSE)), granted)
         IN  /\ CanCommit(c, FALSE)
             /\ next.p.leased =>
                  /\ next \in Worlds /\ FrameInv(next)
                  /\ next.s.rows = c.s.rows /\ next.s.toggle = c.s.toggle
                  /\ next.copied = c.copied /\ next.published = c.published
             /\ ~next.p.leased =>
                  /\ GiveUp(next) \in Worlds /\ FrameInv(GiveUp(next))
                  /\ ~GiveUp(next).s.open /\ GiveUp(next).published = c.published
<1> DEFINE q == [c.p EXCEPT !.leased = FALSE, !.offset = @ + 1]
           commit == commit_write(c, FALSE)
           t == [commit.s EXCEPT !.crows = 0]
           fresh == NextChunk(commit)
           next == acquire_write(fresh, granted)
<1>1. /\ c.s \in Source /\ c.p \in Pipe /\ c.p.offset \in 0 .. F - 1
      /\ c.s.rows \in Nat
  BY DEF Worlds, Pipe, Source
<1>2. c.p.offset # F - 1 BY <1>1, LastChunk DEF Counted
<1>3. CanCommit(c, FALSE) BY <1>2 DEF CanCommit, Counted
<1>4. c.p.offset + 1 \in 0 .. F - 1 BY <1>1, <1>2, Sizes
<1>5. /\ q \in Pipe /\ q.active /\ ~q.leased /\ q.offset = c.p.offset + 1
      /\ q.errors = 0
  BY <1>1, <1>4 DEF Pipe, Counted
<1>6. commit = [c EXCEPT !.p = q] BY <1>3 DEF commit_write
<1> HIDE DEF q, commit
<1>7. /\ commit \in Worlds /\ commit.s = c.s /\ commit.p = q
      /\ commit.copied = c.copied /\ commit.published = c.published
  BY <1>5, <1>6 DEF Worlds
<1>8. /\ t \in Source /\ t.crows = 0 /\ t.rows = c.s.rows /\ t.open /\ t.chunk
      /\ t.active /\ ~t.final /\ t.toggle = c.s.toggle
  BY <1>1, <1>7, Sizes DEF Source, Counted
<1>9. fresh = [commit EXCEPT !.s = t] BY DEF NextChunk
<1> HIDE DEF t, fresh
<1>10. /\ fresh \in Worlds /\ fresh.s = t /\ fresh.p = q
       /\ fresh.copied = c.copied /\ fresh.published = c.published
  BY <1>7, <1>8, <1>9, WithSource
<1>11. CanAcquire(fresh) BY <1>5, <1>10 DEF CanAcquire
<1>12. CASE granted
  <2> DEFINE r == [q EXCEPT !.leased = TRUE]
  <2>1. next = [fresh EXCEPT !.p = r] BY <1>10, <1>11, <1>12 DEF acquire_write
  <2>2. /\ r \in Pipe /\ r.active /\ r.leased /\ r.offset = c.p.offset + 1
        /\ r.errors = 0
    BY <1>5 DEF Pipe
  <2> HIDE DEF r, next
  <2>3. /\ next \in Worlds /\ next.s = t /\ next.p = r
        /\ next.copied = c.copied /\ next.published = c.published
    BY <1>10, <2>1, <2>2 DEF Worlds
  <2>4. t.rows = (c.p.offset + 1) * ChunkBlocks + 0
    BY <1>1, <1>8, Sizes DEF Counted
  <2>5. RowsInv(t, r) BY <1>8, <2>2, <2>4, Sizes DEF RowsInv
  <2> QED BY <1>3, <1>8, <2>2, <2>3, <2>5 DEF next, fresh, commit, FrameInv
<1>13. CASE ~granted
  <2>1. next = fresh BY <1>11, <1>13 DEF acquire_write
  <2> HIDE DEF next
  <2>2. /\ GiveUp(next) \in Worlds /\ FrameInv(GiveUp(next)) /\ ~next.p.leased
        /\ ~GiveUp(next).s.open /\ GiveUp(next).published = c.published
    BY <1>5, <1>10, <2>1, GivenUp
  <2> QED BY <1>3, <2>2 DEF next, fresh, commit
<1> QED BY <1>12, <1>13

LEMMA RowsDone ==
  ASSUME TypeOK, NEW w \in Worlds, FrameInv(w), NEW granted \in BOOLEAN
  PROVE  LET v == RowDone(w, granted)
         IN  /\ v \in Worlds /\ FrameInv(v) /\ RowAdded(w, v)
             /\ v.s.open => v.s.toggle = 1 - w.s.toggle
<1> DEFINE c == IF w.s.active THEN RowCopied(w) ELSE w
           chunk_end == c.s.crows = ChunkBlocks
           commit == commit_write(c, FALSE)
           next == acquire_write(NextChunk(commit), granted)
           done ==
             IF ~(c.s.active /\ c.s.open) THEN c
             ELSE IF FrameEnd(c)
               THEN IF chunk_end THEN [c EXCEPT !.s.final = TRUE] ELSE [c EXCEPT !.s.bad = TRUE]
             ELSE IF ~chunk_end THEN c
             ELSE IF ~CanCommit(c, FALSE) THEN GiveUp(commit)
             ELSE IF next.p.leased THEN next
             ELSE GiveUp(next)
<1>0. RowDone(w, granted) = [done EXCEPT !.s.toggle = 1 - @] BY DEF RowDone
<1> DEFINE Same(v) == /\ v.published = c.published
                      /\ v.s.open => /\ c.s.open /\ v.s.rows = c.s.rows
                                     /\ v.copied = c.copied /\ v.s.toggle = c.s.toggle
<1>1. /\ Counted(c) /\ c \in Worlds /\ RowAdded(w, c)
      /\ c.s.open => c.s.toggle = w.s.toggle
  <2>1. CASE w.s.active BY <2>1, RowCounts DEF Counted
  <2>2. CASE ~w.s.active BY <2>2 DEF Counted, FrameInv, RowAdded
  <2> QED BY <2>1, <2>2
<1> HIDE DEF c
<1>2. c.s \in Source /\ c.s.rows \in Nat /\ c.s.crows \in 0 .. ChunkBlocks
  BY <1>1 DEF Worlds, Source
<1>3. done \in Worlds /\ FrameInv(done) /\ Same(done)
  <2>1. CASE ~c.s.open
    <3>1. done = c BY <2>1
    <3> HIDE DEF done
    <3> QED BY <1>1, <2>1, <3>1, ClosedFrame DEF Counted
  <2>2. CASE c.s.open /\ FrameEnd(c) /\ chunk_end
    <3> DEFINE t == [c.s EXCEPT !.final = TRUE]
    <3>1. done = [c EXCEPT !.s = t] BY <1>1, <2>2 DEF Counted
    <3>2. /\ t \in Source /\ t.rows = c.s.rows /\ t.crows = c.s.crows
          /\ t.open = c.s.open /\ t.chunk = c.s.chunk /\ t.active = c.s.active
          /\ t.toggle = c.s.toggle
      BY <1>2 DEF Source
    <3> HIDE DEF t, done
    <3>3. /\ done \in Worlds /\ done.s = t /\ done.p = c.p
          /\ done.copied = c.copied /\ done.published = c.published
      BY <1>1, <3>1, <3>2, WithSource
    <3>4. RowsInv(t, c.p) BY <1>1, <2>2, <3>2 DEF RowsInv, FrameEnd, Counted
    <3> QED BY <1>1, <3>2, <3>3, <3>4 DEF FrameInv, Counted
  <2>3. CASE c.s.open /\ FrameEnd(c) /\ ~chunk_end
    <3> DEFINE t == [c.s EXCEPT !.bad = TRUE]
    <3>1. done = [c EXCEPT !.s = t] BY <1>1, <2>3 DEF Counted
    <3>2. /\ t \in Source /\ t.rows = c.s.rows /\ t.crows = c.s.crows
          /\ t.open = c.s.open /\ t.chunk = c.s.chunk /\ t.active = c.s.active
          /\ t.final = c.s.final /\ t.toggle = c.s.toggle
      BY <1>2 DEF Source
    <3> HIDE DEF t, done
    <3>3. /\ done \in Worlds /\ done.s = t /\ done.p = c.p
          /\ done.copied = c.copied /\ done.published = c.published
      BY <1>1, <3>1, <3>2, WithSource
    <3>4. RowsInv(t, c.p) BY <1>1, <2>3, <3>2 DEF RowsInv, FrameEnd, Counted
    <3> QED BY <1>1, <3>2, <3>3, <3>4 DEF FrameInv, Counted
  <2>4. CASE c.s.open /\ ~FrameEnd(c) /\ ~chunk_end
    <3>1. done = c BY <1>1, <2>4 DEF Counted
    <3> HIDE DEF done
    <3>2. RowsInv(c.s, c.p) BY <1>1, <2>4 DEF RowsInv, Counted
    <3> QED BY <1>1, <3>1, <3>2 DEF FrameInv, Counted
  <2>5. CASE c.s.open /\ ~FrameEnd(c) /\ chunk_end
    <3>1. c.s.active BY <1>1, <2>5 DEF Counted
    <3>2. /\ CanCommit(c, FALSE)
          /\ next.p.leased => next \in Worlds /\ FrameInv(next) /\ Same(next)
          /\ ~next.p.leased =>
               GiveUp(next) \in Worlds /\ FrameInv(GiveUp(next)) /\ Same(GiveUp(next))
      BY <1>1, <2>5, ChunkCommitted DEF FrameEnd
    <3> HIDE DEF next
    <3>3. done = IF next.p.leased THEN next ELSE GiveUp(next) BY <2>5, <3>1, <3>2
    <3> QED BY <3>2, <3>3
  <2> QED BY <2>1, <2>2, <2>3, <2>4, <2>5
<1> HIDE DEF done
<1>4. LET v == [done EXCEPT !.s.toggle = 1 - @]
      IN  /\ v \in Worlds /\ FrameInv(v) /\ RowAdded(w, v)
          /\ v.s.open => v.s.toggle = 1 - w.s.toggle
  BY <1>1, <1>3, Toggled DEF RowAdded
<1> QED BY <1>0, <1>4

LEMMA Finishes ==
  ASSUME NEW w \in Worlds, FrameInv(w)
  PROVE  LET v == finish_frame_isr(w)
         IN  /\ v \in Worlds /\ FrameInv(v) /\ ~v.s.open
             /\ v.published = w.published \/ (FrameGood(w) /\
                  v.published = IF Whole(w) THEN "whole" ELSE "broken")
<1> DEFINE Outcome(x) == x.published = w.published \/ (FrameGood(w) /\
                  x.published = IF Whole(w) THEN "whole" ELSE "broken")
<1> DEFINE m == commit_write(w, TRUE)
           c == IF w.s.final /\ FrameGood(w)
                  THEN [m EXCEPT !.s.open = ~CanCommit(w, TRUE)]
                  ELSE w
           d == IF c.s.open THEN abort_frame(c) ELSE c
           t == [d.s EXCEPT !.active = FALSE, !.rows = 0, !.bad = FALSE,
                            !.crows = 0, !.open = FALSE, !.final = FALSE,
                            !.chunk = FALSE]
           v == [d EXCEPT !.s = t]
<1>1. finish_frame_isr(w) = v BY DEF finish_frame_isr
<1>2. /\ w.s \in Source /\ w.p \in Pipe /\ w.p.offset \in 0 .. F - 1
      /\ w.s.rows \in Nat
  BY DEF Worlds, Pipe, Source
<1>3. d \in Worlds /\ Shut(d) /\ Outcome(d)
  <2>1. CASE w.s.final /\ FrameGood(w)
    <3>1. /\ w.p.active /\ w.p.leased /\ w.p.errors = 0
          /\ w.p.offset * ChunkBlocks + ChunkBlocks = B
      BY <2>1 DEF FrameInv, RowsInv, FrameGood
    <3>2. CanCommit(w, TRUE) BY <1>2, <3>1, LastChunk DEF CanCommit
    <3>3. NoFrame \in Copies BY Sizes, DvpAssumption DEF NoFrame, Copies
    <3>4. 0 \in 0 .. F - 1 BY Sizes
    <3>5. /\ m \in Worlds /\ m.s = w.s /\ Shut(m)
          /\ m.published = IF Whole(w) THEN "whole" ELSE "broken"
      BY <1>2, <3>1, <3>2, <3>3, <3>4 DEF commit_write, Worlds, Pipe, Shut
    <3> HIDE DEF m
    <3> DEFINE u == [m.s EXCEPT !.open = FALSE]
    <3>6. u \in Source /\ ~u.open BY <1>2, <3>5 DEF Source
    <3>7. c = [m EXCEPT !.s = u] BY <2>1, <3>2
    <3> HIDE DEF u, c
    <3>8. c \in Worlds /\ c.s = u /\ c.p = m.p /\ c.published = m.published
      BY <3>5, <3>6, <3>7, WithSource
    <3> QED BY <2>1, <3>5, <3>6, <3>8 DEF Shut
  <2>2. CASE ~(w.s.final /\ FrameGood(w))
    <3>1. c = w BY <2>2
    <3> HIDE DEF c
    <3> QED BY <3>1, Aborted DEF FrameInv, Shut
  <2> QED BY <2>1, <2>2
<1> HIDE DEF c, d
<1>4. d.s \in Source /\ 0 \in 0 .. ChunkBlocks BY <1>3, Sizes DEF Worlds
<1>5. t \in Source /\ ~t.open BY <1>4 DEF Source
<1> HIDE DEF t
<1>6. v \in Worlds /\ v.s = t /\ v.p = d.p /\ v.published = d.published
  BY <1>3, <1>5, WithSource
<1> HIDE DEF v
<1> QED BY <1>1, <1>3, <1>5, <1>6, ClosedFrame DEF Shut

LEMMA InterruptServed ==
  ASSUME IInv, NEW begun \in BOOLEAN, NEW granted \in BOOLEAN
  PROVE  LET v == Handled(begun, granted) IN v \in Worlds /\ FrameInv(v)
<1> DEFINE w1 == IF "STR_FRM" \in flags THEN FrameStarted(World, begun, granted) ELSE World
           w2 == IF "FIFO_OV" \in flags THEN Overflowed(w1) ELSE w1
           w3 == IF "ROW_DONE" \in flags THEN RowDone(w2, granted) ELSE w2
           v == IF flags \cap EndFlags # {} /\ w3.s.active
                  THEN finish_frame_isr(w3) ELSE w3
<1>0. Handled(begun, granted) = v BY DEF Handled
<1>1. World \in Worlds /\ FrameInv(World) /\ TypeOK
  BY DEF IInv, World, Worlds, TypeOK, Copies
<1>2. w1 \in Worlds /\ FrameInv(w1) BY <1>1, Starts
<1> HIDE DEF w1
<1>3. w2 \in Worlds /\ FrameInv(w2) BY <1>2, Overflows
<1> HIDE DEF w2
<1>4. w3 \in Worlds /\ FrameInv(w3) BY <1>1, <1>3, RowsDone
<1> HIDE DEF w3
<1>5. v \in Worlds /\ FrameInv(v) BY <1>4, Finishes
<1> HIDE DEF v
<1> QED BY <1>0, <1>5

-----------------------------------------------------------------------------
(* The parts of the main loop.                                                 *)

LEMMA Recovers ==
  ASSUME NEW w \in Worlds, FrameInv(w)
  PROVE  LET v == Abandoned(w)
         IN  /\ v \in Worlds /\ FrameInv(v) /\ ~v.s.open
             /\ v.published = w.published
<1> DEFINE bad == [w EXCEPT !.s.bad = TRUE]
           w2 == IF w.s.active THEN finish_frame_isr(bad)
                 ELSE IF w.s.open THEN [abort_frame(w) EXCEPT !.s.open = FALSE] ELSE w
           t == [w2.s EXCEPT !.chunk = FALSE, !.rows = 0, !.crows = 0,
                             !.toggle = 0, !.final = FALSE]
           v == [w2 EXCEPT !.s = t]
<1>1. Abandoned(w) = v BY DEF Abandoned
<1>2. w2 \in Worlds /\ FrameInv(w2) /\ ~w2.s.open /\ w2.published = w.published
  <2>1. CASE w.s.active
    <3>1. /\ bad \in Worlds /\ bad.p = w.p /\ bad.s = [w.s EXCEPT !.bad = TRUE]
          /\ bad.published = w.published
      BY BadSource
    <3>2. w.s \in Source BY DEF Worlds
    <3>3. /\ bad.s.open = w.s.open /\ bad.s.chunk = w.s.chunk
          /\ bad.s.active = w.s.active /\ bad.s.rows = w.s.rows
          /\ bad.s.crows = w.s.crows /\ bad.s.final = w.s.final /\ bad.s.bad
      BY <3>1, <3>2 DEF Source
    <3> HIDE DEF bad
    <3>4. FrameInv(bad) BY <3>1, <3>3 DEF FrameInv, RowsInv
    <3>5. ~FrameGood(bad) BY <3>3 DEF FrameGood
    <3> QED BY <2>1, <3>1, <3>4, <3>5, Finishes
  <2>2. CASE ~w.s.active
    <3>1. w2 = w /\ ~w.s.open BY <2>2 DEF FrameInv
    <3> HIDE DEF w2
    <3> QED BY <3>1
  <2> QED BY <2>1, <2>2
<1> HIDE DEF w2
<1>3. w2.s \in Source /\ 0 \in 0 .. ChunkBlocks BY <1>2, Sizes DEF Worlds
<1>4. t \in Source /\ t.open = w2.s.open BY <1>3 DEF Source
<1> HIDE DEF t
<1>5. v \in Worlds /\ v.s = t /\ v.p = w2.p /\ v.published = w2.published
  BY <1>2, <1>4, WithSource
<1> HIDE DEF v
<1> QED BY <1>1, <1>2, <1>4, <1>5, ClosedFrame DEF FrameInv

LEMMA Pauses ==
  ASSUME NEW w \in Worlds, FrameInv(w)
  PROVE  LET v == Paused(w)
         IN  /\ v \in Worlds /\ FrameInv(v) /\ ~v.s.open
             /\ v.published = w.published
<1> DEFINE a == IF w.s.open THEN abort_frame(w) ELSE w
           t == [a.s EXCEPT !.open = FALSE, !.final = FALSE, !.chunk = FALSE,
                            !.active = FALSE]
           v == [a EXCEPT !.s = t]
<1>1. Paused(w) = v BY DEF Paused
<1>2. a \in Worlds /\ Shut(a) /\ a.published = w.published
  BY Aborted DEF FrameInv, Shut
<1> HIDE DEF a
<1>3. a.s \in Source BY <1>2 DEF Worlds
<1>4. t \in Source /\ ~t.open BY <1>3 DEF Source
<1> HIDE DEF t
<1>5. v \in Worlds /\ v.s = t /\ v.p = a.p /\ v.published = a.published
  BY <1>2, <1>4, WithSource
<1> HIDE DEF v
<1> QED BY <1>1, <1>2, <1>4, <1>5, ClosedFrame DEF Shut

LEMMA Resumes ==
  ASSUME NEW w \in Worlds, FrameInv(w), ~w.s.open
  PROVE  LET v == Resumed(w)
         IN  /\ v \in Worlds /\ FrameInv(v) /\ ~v.s.open
             /\ v.published = w.published
<1> DEFINE t == [w.s EXCEPT !.rows = 0, !.crows = 0, !.toggle = 0, !.bad = TRUE]
           v == [w EXCEPT !.s = t]
<1>1. Resumed(w) = v BY DEF Resumed
<1>2. w.s \in Source /\ 0 \in 0 .. ChunkBlocks BY Sizes DEF Worlds
<1>3. t \in Source /\ ~t.open BY <1>2 DEF Source
<1> HIDE DEF t
<1>4. v \in Worlds /\ v.s = t /\ v.p = w.p /\ v.published = w.published
  BY <1>3, WithSource
<1> HIDE DEF v
<1> QED BY <1>1, <1>3, <1>4, ClosedFrame DEF FrameInv

-----------------------------------------------------------------------------
(* The invariant.                                                              *)

\* A build is chosen once.
LEMMA SameBuild ==
  ASSUME UNCHANGED chosen
  PROVE  /\ ChunkBlocks' = ChunkBlocks /\ B' = B
         /\ Source' = Source /\ Blocks' = Blocks
BY DEF chosen, ChunkBlocks, RowMode, B, Source, Blocks

\* The types of the words a handler does not work on.
OtherTypes ==
  /\ profile \in Profiles /\ calm \in Calm /\ module \in {"off", "applying", "on"}
  /\ sensor \in [frame : 0 .. Frames - 1, next : 0 .. B + 2]
  /\ flags \subseteq Events /\ bank \in [{0, 1} -> Blocks] /\ tog \in {0, 1}
  /\ over \in BOOLEAN
  /\ {wedged, enabled, irq, held, ready, rearm, quiet} \subseteq BOOLEAN
  /\ faults \in 0 .. MaxFaults

LEMMA HandlerStep ==
  ASSUME NEW w \in Worlds, FrameInv(w), Become(w), UNCHANGED chosen,
         OtherTypes', (held' => ~w.s.open /\ ~irq')
  PROVE  IInv'
<1>1. /\ src' = w.s /\ pipe' = w.p /\ copied' = w.copied
      /\ published' = w.published
  BY DEF Become
<1>2. /\ w.s \in Source /\ w.p \in Pipe /\ w.copied \in Copies
      /\ w.published \in {"none", "whole", "broken"}
  BY DEF Worlds
<1>3. TypeOK' BY <1>1, <1>2, SameBuild DEF TypeOK, OtherTypes, Pipe, Copies
<1>4. FrameInv(World)' BY <1>1, SameBuild DEF FrameInv, RowsInv, World
<1> QED BY <1>1, <1>3, <1>4 DEF IInv

\* A step of the module, the receiver or the clock.
LEMMA OutsideStep ==
  ASSUME IInv, UNCHANGED chosen, UNCHANGED <<src, pipe, copied, published, held, irq>>,
         OtherTypes'
  PROVE  IInv'
<1>1. TypeOK' BY SameBuild DEF TypeOK, OtherTypes, Pipe, IInv
<1>2. FrameInv(World)' BY SameBuild DEF FrameInv, RowsInv, World, IInv
<1> QED BY <1>1, <1>2 DEF IInv

LEMMA InitInductive == Init => IInv
<1> SUFFICES ASSUME Init PROVE IInv OBVIOUS
<1>1. 0 \in 0 .. ChunkBlocks /\ 0 \in 0 .. F - 1 /\ 0 \in 0 .. B + 2
  BY Sizes
<1>2. src \in Source /\ pipe \in Pipe BY <1>1 DEF Init, Source, Pipe
<1>3. /\ sensor \in [frame : 0 .. Frames - 1, next : 0 .. B + 2]
      /\ copied \in [from : -1 .. Frames - 1, n : 0 .. B + 1]
      /\ faults \in 0 .. MaxFaults
  BY <1>1, Sizes, DvpAssumption DEF Init, NoFrame
<1>4. bank \in [{0, 1} -> Blocks]
  <2>1. Torn \in Blocks BY DEF Blocks
  <2> QED BY <2>1 DEF Init
<1>5. /\ {wedged, enabled, irq, held, ready, rearm, quiet} \subseteq BOOLEAN
      /\ profile \in Profiles /\ calm \in Calm /\ over \in BOOLEAN
      /\ module \in {"off", "applying", "on"} /\ flags \subseteq Events
      /\ tog \in {0, 1} /\ published \in {"none", "whole", "broken"}
  BY DEF Init
<1>6. TypeOK BY <1>2, <1>3, <1>4, <1>5 DEF TypeOK
<1> QED BY <1>6 DEF IInv, Init, FrameInv, World

LEMMA NextInductive == IInv /\ [Next]_vars => IInv'
<1> SUFFICES ASSUME IInv, [Next]_vars PROVE IInv' OBVIOUS
<1>1. /\ World \in Worlds /\ FrameInv(World) /\ OtherTypes
      /\ held => ~src.open /\ ~irq
  BY DEF IInv, World, Worlds, TypeOK, Copies, OtherTypes
<1>2. CASE DVP_IRQHandler
  <2>1. PICK begun, granted \in Grants : Become(Handled(begun, granted))
    BY <1>2 DEF DVP_IRQHandler
  <2>2. begun \in BOOLEAN /\ granted \in BOOLEAN BY <2>1 DEF Grants
  <2>3. Handled(begun, granted) \in Worlds /\ FrameInv(Handled(begun, granted))
    BY <2>2, InterruptServed
  <2>4. UNCHANGED chosen /\ OtherTypes' /\ ~held'
    BY <1>1, <1>2, SameBuild DEF DVP_IRQHandler, OtherTypes, chosen
  <2> QED BY <2>1, <2>3, <2>4, HandlerStep
<1>3. CASE recover \/ \E answered, passed, lost \in BOOLEAN :
                        recover_and_probe(answered, passed, lost)
  <2>1. Recover BY <1>3 DEF recover, recover_and_probe
  <2>2. LET w == Abandoned(World) IN w \in Worlds /\ FrameInv(w) /\ ~w.s.open
    BY <1>1, Recovers
  <2>3. UNCHANGED chosen /\ ~held' /\ Become(Abandoned(World))
    BY <2>1 DEF Recover
  <2>4. ready' \in BOOLEAN /\ rearm' \in BOOLEAN /\ module' \in {"off", "applying", "on"}
    BY <1>1, <1>3 DEF recover, recover_and_probe, probe_and_rearm, Settled, OtherTypes
  <2>5. flags' = {} /\ wedged' = FALSE /\ enabled' = ready' /\ irq' = ready'
    BY <1>3 DEF recover, recover_and_probe, dvp_start
  <2>6. OtherTypes'
    BY <1>1, <2>1, <2>4, <2>5, SameBuild DEF Recover, OtherTypes, chosen
  <2> QED BY <2>2, <2>3, <2>6, HandlerStep
<1>4. CASE resume
  <2>1. LET w == Resumed(World) IN w \in Worlds /\ FrameInv(w)
    <3>1. ~World.s.open BY <1>1, <1>4 DEF resume, World
    <3> QED BY <1>1, <3>1, Resumes
  <2>2. UNCHANGED chosen /\ ~held' /\ Become(Resumed(World)) /\ OtherTypes'
    BY <1>1, <1>4, SameBuild DEF resume, OtherTypes, chosen, dvp_start
  <2> QED BY <2>1, <2>2, HandlerStep
<1>5. CASE \E acquired \in BOOLEAN : pause(acquired)
  <2>1. PICK acquired \in BOOLEAN : pause(acquired) BY <1>5
  <2>2. LET w == Paused(World) IN w \in Worlds /\ FrameInv(w) /\ ~w.s.open
    BY <1>1, Pauses
  <2>3. /\ UNCHANGED chosen /\ Become(Paused(World))
        /\ held' = acquired /\ irq' = ~acquired
    BY <2>1 DEF pause, dvp_start
  <2>4. faults' \in 0 .. MaxFaults
    BY <1>1, <2>1, DvpAssumption DEF pause, OtherTypes
  <2>5. OtherTypes'
    BY <1>1, <2>1, <2>4, SameBuild DEF pause, OtherTypes, chosen, dvp_start
  <2> QED BY <2>2, <2>3, <2>5, HandlerStep
<1>6. CASE Video
  <2>1. /\ UNCHANGED <<chosen, module, wedged, enabled, irq, software>>
        /\ sensor.next \in 0 .. B + 2 /\ sensor.frame \in 0 .. Frames - 1
    BY <1>1, <1>6 DEF Video, OtherTypes
  <2>2. NextFrame \in [frame : 0 .. Frames - 1, next : 0 .. B + 2]
    BY <2>1, Sizes, DvpAssumption DEF NextFrame
  <2>3. /\ sensor' \in [frame : 0 .. Frames - 1, next : 0 .. B + 2]
        /\ flags' \subseteq Events /\ bank' \in [{0, 1} -> Blocks]
        /\ tog' \in {0, 1} /\ over' \in BOOLEAN /\ faults' \in 0 .. MaxFaults
    <3>1. CASE start_of_frame
      BY <1>1, <2>1, <3>1, Sizes DEF start_of_frame, Raise, Events, OtherTypes
    <3>2. CASE frame_done
      BY <1>1, <2>1, <3>2, Sizes DEF frame_done, Raise, Events, OtherTypes, Receiving
    <3>3. CASE end_of_frame
      BY <1>1, <2>1, <2>2, <3>3 DEF end_of_frame, Raise, Events, OtherTypes, Receiving
    <3>4. CASE short_frame
      BY <1>1, <2>1, <2>2, <3>4, DvpAssumption
      DEF short_frame, Raise, Events, OtherTypes, Receiving, Fault
    <3>5. CASE \E torn, done \in BOOLEAN : block(torn, done)
      <4>1. PICK torn, done \in BOOLEAN : block(torn, done) BY <3>5
      <4>2. sensor' \in [frame : 0 .. Frames - 1, next : 0 .. B + 2] /\ over' \in BOOLEAN
        BY <1>1, <2>1, <4>1, Sizes DEF block, OtherTypes
      <4>3. flags' \subseteq Events /\ faults' \in 0 .. MaxFaults
        BY <1>1, <4>1, DvpAssumption DEF block, Raise, Events, Fault, OtherTypes
      <4>4. bank' \in [{0, 1} -> Blocks] /\ tog' \in {0, 1}
        <5>1. Torn \in Blocks BY DEF Blocks
        <5>2. [frame |-> sensor.frame, block |-> sensor.next] \in Blocks
          BY <2>1, <4>1 DEF Blocks, block
        <5> QED BY <1>1, <4>1, <5>1, <5>2 DEF block, OtherTypes
      <4> QED BY <4>2, <4>3, <4>4
    <3> QED BY <1>6, <3>1, <3>2, <3>3, <3>4, <3>5 DEF Video
  <2>4. OtherTypes'
    BY <1>1, <2>1, <2>3, SameBuild DEF OtherTypes, chosen, software
  <2> QED BY <2>1, <2>4, OutsideStep DEF software
<1>7. CASE apply
  <2>1. OtherTypes' BY <1>1, <1>7, SameBuild DEF apply, OtherTypes, chosen, software
  <2> QED BY <1>7, <2>1, OutsideStep DEF apply, software
<1>8. CASE Break
  <2>1. sensor.next \in 0 .. B + 2 /\ sensor.frame \in 0 .. Frames - 1
    BY <1>1 DEF OtherTypes
  <2>2. NextFrame \in [frame : 0 .. Frames - 1, next : 0 .. B + 2]
    BY <2>1, Sizes, DvpAssumption DEF NextFrame
  <2>3. /\ UNCHANGED <<chosen, enabled, irq, flags, bank, tog, over, software>>
        /\ wedged' \in BOOLEAN /\ module' \in {"off", "applying", "on"}
        /\ sensor' = sensor \/ sensor' = NextFrame
    BY <1>1, <1>8 DEF Break, OtherTypes
  <2>4. faults' \in 0 .. MaxFaults
    BY <1>1, <1>8, DvpAssumption DEF Break, Fault, OtherTypes
  <2>5. sensor' \in [frame : 0 .. Frames - 1, next : 0 .. B + 2]
    BY <1>1, <2>2, <2>3 DEF OtherTypes
  <2>6. OtherTypes'
    BY <1>1, <2>3, <2>4, <2>5, SameBuild DEF OtherTypes, chosen, software
  <2> QED BY <1>8, <2>6, OutsideStep DEF Break, software
<1>9. CASE idle
  <2>1. OtherTypes' BY <1>1, <1>9, SameBuild DEF idle, OtherTypes, chosen, hardware
  <2> QED BY <1>9, <2>1, OutsideStep DEF idle, hardware
<1>10. CASE UNCHANGED vars
  <2>1. OtherTypes'
    BY <1>1, <1>10, SameBuild DEF vars, OtherTypes, chosen, hardware, software
  <2> QED BY <1>10, <2>1, OutsideStep DEF vars, hardware, software
<1> QED BY <1>2, <1>3, <1>4, <1>5, <1>6, <1>7, <1>8, <1>9, <1>10 DEF Next, MainLoop

\* The source and the pipeline agree on the open frame in every state, for any
\* number of chunks, blocks and frames and any disturbance: the interrupt finds
\* a slot to copy to whenever it believes a frame open, and no call of the
\* pipeline is ever refused.
THEOREM ConsistentCapture == Spec => []Consistent
<1>1. IInv => Consistent
  BY DEF IInv, Consistent, SourceMatchesPipeline, FrameInv, World
<1> QED BY <1>1, InitInductive, NextInductive, PTL DEF Spec

-----------------------------------------------------------------------------
(* Order.  Why a frame that gets its end mark is whole, however late the       *)
(* interrupt is: a row it misses is a row it can never count again, so that    *)
(* the frame ends too short.  OrderInv says that as long as no row is missed   *)
(* (rows counted and pending are the blocks sent) the copy has all of them in  *)
(* order, and that once one is missed the count stays behind.                  *)

\* Blocks of the sensor's frame sent so far, and rows signalled, not counted.
Sent == IF sensor.next > B THEN B ELSE sensor.next - 1
Pending == IF "ROW_DONE" \in flags THEN 1 ELSE 0

\* The receiver hears the frame the sensor is sending.
Heard == Receiving /\ module = "on" /\ "STP_FRM" \notin flags

\* The block the next row would be copied from.
Latest(t) == bank[IF RowMode THEN t ELSE 1 - tog]

\* The rows counted were copied without a gap, the pending one is next; and
\* they are those of the frame the sensor is sending.
Gapless ==
  /\ copied.n = src.rows
  /\ Pending = 1 => /\ Latest(src.toggle).block = src.rows + 1
                    /\ src.rows > 0 => Latest(src.toggle).frame = copied.from
Current ==
  /\ copied.n = src.rows
  /\ src.rows > 0 => copied.from = sensor.frame
  /\ Pending = 1 => Latest(src.toggle) = [frame |-> sensor.frame, block |-> src.rows + 1]
  /\ RowMode => tog = IF Pending = 1 THEN 1 - src.toggle ELSE src.toggle

OrderInv ==
  src.open /\ flags \cap {"STR_FRM", "FIFO_OV"} = {} =>
    IF Heard THEN /\ sensor.next # 0
                  /\ src.rows + Pending <= Sent
                  /\ src.rows + Pending = Sent => Current
    ELSE src.rows + Pending < B \/ Gapless

\* The same for a frame whose start the interrupt has yet to see.
StartInv ==
  "STR_FRM" \in flags /\ flags \cap ({"FIFO_OV"} \cup EndFlags) = {} /\ Heard =>
    /\ sensor.next # 0
    /\ Pending <= Sent
    /\ Pending = Sent => /\ Pending = 1 => Latest(0) = [frame |-> sensor.frame, block |-> 1]
                         /\ RowMode => tog = Pending

EndInv == "STR_FRM" \notin flags /\ EndFlags \cap flags # {} => over

\* Between two frames there is nothing to miss.
BetweenInv ==
  Receiving /\ module = "on" =>
    /\ "STP_FRM" \in flags /\ "STR_FRM" \notin flags => sensor.next = 0
    /\ sensor.next = 0 /\ "STP_FRM" \notin flags => flags = {}
ApplyInv == module = "applying" => flags = {} /\ ~src.open

OrderIInv ==
  IInv /\ PublishedIsWhole /\ OrderInv /\ StartInv /\ EndInv /\ BetweenInv /\ ApplyInv

\* OrderInv of a world with no row pending.
InOrder(w) ==
  IF Heard THEN /\ sensor.next # 0
                /\ w.s.rows <= Sent
                /\ w.s.rows = Sent =>
                     /\ w.copied.n = w.s.rows
                     /\ w.s.rows > 0 => w.copied.from = sensor.frame
                     /\ RowMode => tog = w.s.toggle
  ELSE w.s.rows < B \/ w.copied.n = w.s.rows

LEMMA OrderTypes ==
  ASSUME TypeOK
  PROVE  /\ sensor.next \in 0 .. B + 2 /\ sensor.frame \in 0 .. Frames - 1
         /\ sensor.next # 0 => Sent \in 0 .. B
         /\ Pending \in {0, 1} /\ tog \in {0, 1} /\ src.toggle \in {0, 1}
         /\ src.rows \in Nat /\ copied \in Copies
         /\ \A t \in {0, 1} : Latest(t) \in Blocks
         /\ \A b \in Blocks : b.block \in 0 .. B /\ b.frame \in -1 .. Frames - 1
<1>1. sensor.next \in 0 .. B + 2 /\ sensor.frame \in 0 .. Frames - 1 BY DEF TypeOK
<1>2. sensor.next # 0 => Sent \in 0 .. B BY <1>1, Sizes DEF Sent
<1>3. /\ Pending \in {0, 1} /\ tog \in {0, 1} /\ src.toggle \in {0, 1}
      /\ src.rows \in Nat /\ copied \in Copies
  BY DEF TypeOK, Pending, Source, Copies
<1>4. \A t \in {0, 1} : Latest(t) \in Blocks BY <1>3 DEF TypeOK, Latest
<1>5. \A b \in Blocks : b.block \in 0 .. B /\ b.frame \in -1 .. Frames - 1
  BY Sizes, DvpAssumption DEF Blocks, Torn
<1> QED BY <1>1, <1>2, <1>3, <1>4, <1>5

LEMMA NextRecorded ==
  ASSUME NEW c \in Copies, NEW b \in Blocks, b.block = c.n + 1,
         c.n > 0 => b.frame = c.from
  PROVE  Recorded(c, b).n = c.n + 1 /\ Recorded(c, b).from = b.frame
<1>1. c.n \in Nat BY Sizes DEF Copies
<1>2. CASE c.n = 0
  <2>1. b.block = 1 BY <1>1, <1>2
  <2> QED BY <1>2, <2>1 DEF Recorded
<1>3. CASE c.n # 0
  <2>1. c.n > 0 /\ ~(c.n = 0) /\ b.frame = c.from BY <1>1, <1>3
  <2>2. Recorded(c, b) = [c EXCEPT !.n = @ + 1] BY <2>1 DEF Recorded
  <2> QED BY <2>1, <2>2 DEF Copies
<1> QED BY <1>2, <1>3

\* A frame that is no longer heard is either behind, or complete as it is.
LEMMA Unheard ==
  ASSUME TypeOK, OrderInv, src.open, flags \cap {"STR_FRM", "FIFO_OV"} = {}
  PROVE  src.rows + Pending < B \/ Gapless
<1>1. CASE ~Heard BY <1>1 DEF OrderInv
<1>2. CASE Heard
  <2>1. /\ sensor.next # 0 /\ src.rows + Pending <= Sent
        /\ src.rows + Pending = Sent => Current
    BY <1>2 DEF OrderInv
  <2>2. Sent \in 0 .. B /\ src.rows + Pending \in Nat BY <2>1, OrderTypes
  <2>3. CASE src.rows + Pending < Sent BY <2>2, <2>3, Sizes
  <2>4. CASE src.rows + Pending = Sent
    <3>1. Current BY <2>1, <2>4
    <3>2. Gapless BY <3>1 DEF Current, Gapless
    <3> QED BY <3>2
  <2> QED BY <2>1, <2>2, <2>3, <2>4
<1> QED BY <1>1, <1>2

\* What the interrupt makes of a row, before it looks at the end of the frame.
LEMMA OrderedRow ==
  ASSUME OrderIInv, NEW w \in Worlds, FrameInv(w), NEW granted \in BOOLEAN,
         w.published # "broken",
         w.s.open => /\ "FIFO_OV" \notin flags
                     /\ IF "STR_FRM" \in flags
                          THEN w.s.rows = 0 /\ w.s.toggle = 0 /\ w.copied.n = 0
                          ELSE src.open /\ w.s = src /\ w.copied = copied
  PROVE  LET v == IF "ROW_DONE" \in flags THEN RowDone(w, granted) ELSE w
         IN  /\ v \in Worlds /\ FrameInv(v) /\ v.published # "broken"
             /\ v.s.open =>
                  /\ "STR_FRM" \in flags => v.s.rows <= 1
                  /\ "STR_FRM" \notin flags \/ EndFlags \cap flags = {} => InOrder(v)
<1> DEFINE v == IF "ROW_DONE" \in flags THEN RowDone(w, granted) ELSE w
<1>1. TypeOK BY DEF OrderIInv, IInv
<1>2. /\ v \in Worlds /\ FrameInv(v) /\ v.published = w.published
      /\ "ROW_DONE" \in flags => RowAdded(w, v) /\ (v.s.open => v.s.toggle = 1 - w.s.toggle)
      /\ "ROW_DONE" \notin flags => v = w
  BY <1>1, RowsDone DEF RowAdded
<1> HIDE DEF v
<1>3. ASSUME v.s.open
      PROVE  /\ w.s.open /\ v.s.rows = w.s.rows + Pending /\ v.s.rows <= B
             /\ v.s.toggle = IF Pending = 1 THEN 1 - w.s.toggle ELSE w.s.toggle
             /\ v.copied = IF Pending = 1 THEN Recorded(w.copied, Latest(w.s.toggle))
                                          ELSE w.copied
  <2>1. w.s \in Source /\ w.s.rows \in Nat BY DEF Worlds, Source
  <2>2. CASE "ROW_DONE" \in flags
    BY <1>2, <1>3, <2>1, <2>2 DEF RowAdded, Pending, Latest, completed_sink
  <2>3. CASE "ROW_DONE" \notin flags
    <3>1. v = w /\ Pending = 0 BY <1>2, <2>3 DEF Pending
    <3>2. w.s.open => w.s.rows <= B
      <4>1. w.p.offset \in 0 .. F - 1 /\ w.s.crows \in 0 .. ChunkBlocks
        BY DEF Worlds, Pipe, Source
      <4>2. w.s.open => w.s.rows = w.p.offset * ChunkBlocks + w.s.crows
        BY DEF FrameInv, RowsInv
      <4>3. w.p.offset * ChunkBlocks + ChunkBlocks <= F * ChunkBlocks
        BY <4>1, Sizes, RowsFit
      <4>4. w.p.offset * ChunkBlocks \in Nat BY <4>1, Sizes
      <4> QED BY <4>1, <4>2, <4>3, <4>4, Sizes
    <3> QED BY <1>3, <2>1, <3>1, <3>2
  <2> QED BY <2>2, <2>3
<1>4. ASSUME v.s.open, "STR_FRM" \in flags
      PROVE  v.s.rows <= 1 /\ (EndFlags \cap flags = {} => InOrder(v))
  <2>1. /\ "FIFO_OV" \notin flags /\ w.s.rows = 0 /\ w.s.toggle = 0 /\ w.copied.n = 0
        /\ v.s.rows = Pending /\ Pending \in {0, 1} /\ v.s.toggle = Pending
    BY <1>1, <1>3, <1>4, OrderTypes
  <2>2. ASSUME EndFlags \cap flags = {}, Heard
        PROVE  InOrder(v)
    <3>1. /\ sensor.next # 0 /\ Pending <= Sent
          /\ Pending = Sent =>
               /\ Pending = 1 => Latest(0) = [frame |-> sensor.frame, block |-> 1]
               /\ RowMode => tog = Pending
      BY <1>4, <2>1, <2>2 DEF OrderIInv, StartInv
    <3>2. ASSUME Pending = Sent
          PROVE  /\ v.copied.n = v.s.rows
                 /\ v.s.rows > 0 => v.copied.from = sensor.frame
      <4>1. CASE Pending = 0 BY <1>3, <1>4, <2>1, <4>1
      <4>2. CASE Pending = 1
        <5>1. /\ Latest(0) \in Blocks /\ Latest(0).block = 1
              /\ Latest(0).frame = sensor.frame
          BY <1>1, <3>1, <3>2, <4>2, OrderTypes
        <5>2. w.copied \in Copies BY DEF Worlds
        <5>3. /\ Recorded(w.copied, Latest(0)).n = 1
              /\ Recorded(w.copied, Latest(0)).from = sensor.frame
          BY <2>1, <5>1, <5>2, NextRecorded
        <5> QED BY <1>3, <1>4, <2>1, <4>2, <5>3
      <4> QED BY <2>1, <4>1, <4>2
    <3> QED BY <2>1, <2>2, <3>1, <3>2 DEF InOrder
  <2>3. ~Heard => InOrder(v) BY <2>1, Sizes DEF InOrder
  <2> QED BY <2>1, <2>2, <2>3
<1>5. ASSUME v.s.open, "STR_FRM" \notin flags
      PROVE  InOrder(v)
  <2>1. /\ "FIFO_OV" \notin flags /\ src.open /\ w.s = src /\ w.copied = copied
        /\ v.s.rows = src.rows + Pending
        /\ v.s.toggle = IF Pending = 1 THEN 1 - src.toggle ELSE src.toggle
        /\ v.copied = IF Pending = 1 THEN Recorded(copied, Latest(src.toggle)) ELSE copied
    BY <1>3, <1>5
  <2>2. /\ flags \cap {"STR_FRM", "FIFO_OV"} = {} /\ Pending \in {0, 1}
        /\ src.rows \in Nat /\ Latest(src.toggle) \in Blocks /\ copied \in Copies
    BY <1>1, <1>5, <2>1, OrderTypes
  <2>3. ASSUME Gapless
        PROVE  /\ v.copied.n = v.s.rows
               /\ Pending = 1 => v.copied.from = Latest(src.toggle).frame
    <3>1. CASE Pending = 0 BY <2>1, <2>2, <2>3, <3>1 DEF Gapless
    <3>2. CASE Pending = 1
      BY <2>1, <2>2, <2>3, <3>2, NextRecorded DEF Gapless
    <3> QED BY <2>2, <3>1, <3>2
  <2>4. CASE ~Heard
    BY <2>1, <2>2, <2>3, <2>4 DEF OrderIInv, OrderInv, InOrder
  <2>5. CASE Heard
    <3>1. /\ sensor.next # 0 /\ src.rows + Pending <= Sent
          /\ src.rows + Pending = Sent => Current
      BY <2>1, <2>2, <2>5 DEF OrderIInv, OrderInv
    <3>2. ASSUME Current
          PROVE  /\ v.copied.n = v.s.rows
                 /\ v.s.rows > 0 => v.copied.from = sensor.frame
                 /\ RowMode => tog = v.s.toggle
      <4>1. Gapless BY <3>2 DEF Current, Gapless
      <4>2. CASE Pending = 0 BY <2>1, <2>2, <3>2, <4>2 DEF Current
      <4>3. CASE Pending = 1
        BY <2>1, <2>2, <2>3, <3>2, <4>1, <4>3 DEF Current
      <4> QED BY <2>2, <4>2, <4>3
    <3> QED BY <2>1, <2>5, <3>1, <3>2 DEF InOrder
  <2> QED BY <2>4, <2>5
<1> QED BY <1>2, <1>4, <1>5 DEF v

\* An interrupt publishes no broken frame, and leaves an open one in order.
LEMMA OrderedInterrupt ==
  ASSUME OrderIInv, NEW begun \in BOOLEAN, NEW granted \in BOOLEAN
  PROVE  LET v == Handled(begun, granted)
         IN  /\ v.published # "broken"
             /\ v.s.open => InOrder(v) /\ EndFlags \cap flags = {}
<1> DEFINE w1 == IF "STR_FRM" \in flags THEN FrameStarted(World, begun, granted) ELSE World
           w2 == IF "FIFO_OV" \in flags THEN Overflowed(w1) ELSE w1
           w3 == IF "ROW_DONE" \in flags THEN RowDone(w2, granted) ELSE w2
           v == IF flags \cap EndFlags # {} /\ w3.s.active
                  THEN finish_frame_isr(w3) ELSE w3
<1>0. Handled(begun, granted) = v BY DEF Handled
<1>1. /\ World \in Worlds /\ FrameInv(World) /\ TypeOK
      /\ World.published # "broken"
  BY DEF OrderIInv, PublishedIsWhole, IInv, World, Worlds, TypeOK, Copies
<1>2. /\ w1 \in Worlds /\ FrameInv(w1) /\ w1.published # "broken"
      /\ w1.s.open =>
           IF "STR_FRM" \in flags
             THEN w1.s.rows = 0 /\ w1.s.toggle = 0 /\ w1.copied.n = 0
             ELSE src.open /\ w1.s = src /\ w1.copied = copied
  <2>1. CASE "STR_FRM" \in flags BY <1>1, <2>1, Starts
  <2>2. CASE "STR_FRM" \notin flags BY <1>1, <2>2 DEF World
  <2> QED BY <2>1, <2>2
<1> HIDE DEF w1
<1>3. /\ w2 \in Worlds /\ FrameInv(w2) /\ w2.published # "broken"
      /\ w2.s.open => /\ "FIFO_OV" \notin flags
                      /\ IF "STR_FRM" \in flags
                           THEN w2.s.rows = 0 /\ w2.s.toggle = 0 /\ w2.copied.n = 0
                           ELSE src.open /\ w2.s = src /\ w2.copied = copied
  <2>1. CASE "FIFO_OV" \in flags BY <1>2, <2>1, Overflows
  <2>2. CASE "FIFO_OV" \notin flags BY <1>2, <2>2
  <2> QED BY <2>1, <2>2
<1> HIDE DEF w2
<1>4. /\ w3 \in Worlds /\ FrameInv(w3) /\ w3.published # "broken"
      /\ w3.s.open =>
           /\ "STR_FRM" \in flags => w3.s.rows <= 1
           /\ "STR_FRM" \notin flags \/ EndFlags \cap flags = {} => InOrder(w3)
  BY <1>3, OrderedRow
<1> HIDE DEF w3
<1>5. CASE flags \cap EndFlags # {} /\ w3.s.active
  <2>1. v = finish_frame_isr(w3) BY <1>5
  <2>2. ASSUME FrameGood(w3)
        PROVE  Whole(w3)
    <3>1. w3.s.open /\ w3.s.rows = B BY <2>2 DEF FrameGood
    <3>2. "STR_FRM" \notin flags BY <1>4, <3>1, Sizes
    <3>3. over BY <1>5, <3>2 DEF OrderIInv, EndInv
    <3>4. InOrder(w3) BY <1>4, <3>1, <3>2
    <3>5. w3.copied.n = B
      <4>1. CASE Heard
        <5>1. Sent \in 0 .. B /\ B <= Sent
          BY <1>1, <3>1, <3>4, <4>1, OrderTypes DEF InOrder
        <5> QED BY <3>1, <3>4, <4>1, <5>1, Sizes DEF InOrder
      <4>2. CASE ~Heard BY <3>1, <3>4, <4>2, Sizes DEF InOrder
      <4> QED BY <4>1, <4>2
    <3> QED BY <3>3, <3>5 DEF Whole
  <2> HIDE DEF v
  <2>3. ~v.s.open /\ v.published # "broken" BY <1>4, <2>1, <2>2, Finishes
  <2> QED BY <1>0, <2>3
<1>6. CASE ~(flags \cap EndFlags # {} /\ w3.s.active)
  <2>1. v = w3 BY <1>6
  <2> HIDE DEF v
  <2>2. w3.s.open => EndFlags \cap flags = {} BY <1>4, <1>6 DEF FrameInv
  <2> QED BY <1>0, <1>4, <2>1, <2>2
<1> QED BY <1>5, <1>6

OrderParts == OrderInv /\ StartInv /\ EndInv /\ BetweenInv /\ ApplyInv

\* With no flag and no open frame there is nothing to keep in order.
LEMMA NothingOpen ==
  ASSUME flags' = {}, ~src'.open
  PROVE  OrderParts'
BY DEF OrderParts, OrderInv, StartInv, EndInv, BetweenInv, ApplyInv

\* A step after which the frame is no longer heard, or that leaves all alone.
LEMMA UnheardStep ==
  ASSUME OrderIInv, UNCHANGED <<chosen, src, copied, bank, tog>>, ~Heard',
         \A e \in {"STR_FRM", "FIFO_OV", "ROW_DONE"} : e \in flags' <=> e \in flags
  PROVE  OrderInv'
<1>1. ASSUME src.open, flags \cap {"STR_FRM", "FIFO_OV"} = {}
      PROVE  src.rows + Pending < B \/ Gapless
  BY <1>1, Unheard DEF OrderIInv, IInv
<1>2. Pending' = Pending /\ B' = B BY SameBuild DEF Pending
<1>3. Gapless' = Gapless
  BY <1>2 DEF Gapless, Latest, RowMode, chosen
<1> QED BY <1>1, <1>2, <1>3 DEF OrderInv

LEMMA InterruptOrder ==
  ASSUME OrderIInv, DVP_IRQHandler
  PROVE  PublishedIsWhole' /\ OrderParts'
<1>1. PICK begun, granted \in Grants : Become(Handled(begun, granted))
  BY DEF DVP_IRQHandler
<1>2. begun \in BOOLEAN /\ granted \in BOOLEAN BY <1>1 DEF Grants
<1> DEFINE v == Handled(begun, granted)
<1>3. /\ v.published # "broken"
      /\ v.s.open => InOrder(v) /\ EndFlags \cap flags = {}
  BY <1>2, OrderedInterrupt
<1>4. src' = v.s /\ copied' = v.copied /\ published' = v.published
  BY <1>1 DEF Become
<1> HIDE DEF v
<1>5. flags # {} /\ flags' = {} /\ UNCHANGED <<chosen, module, sensor, wedged, enabled, tog>>
  BY DEF DVP_IRQHandler
<1>6. B' = B /\ RowMode' = RowMode /\ Pending' = 0 /\ Sent' = Sent
  BY <1>5, SameBuild DEF Pending, Sent, RowMode, chosen
<1>7. OrderInv'
  <2> SUFFICES ASSUME src'.open
               PROVE  IF Heard' THEN /\ sensor'.next # 0
                                     /\ src'.rows + 0 <= Sent'
                                     /\ src'.rows + 0 = Sent' => Current'
                      ELSE src'.rows + 0 < B' \/ Gapless'
    BY <1>6 DEF OrderInv
  <2>1. InOrder(v) /\ "STP_FRM" \notin flags BY <1>3, <1>4 DEF EndFlags
  <2>2. Heard' = Heard BY <1>5, <2>1 DEF Heard, Receiving
  <2>3. src'.rows \in Nat
    <3>1. IInv' BY NextInductive DEF OrderIInv, Next
    <3> QED BY <3>1 DEF IInv, TypeOK, Source
  <2>4. src'.rows + 0 = v.s.rows BY <1>4, <2>3
  <2>5. CASE Heard
    <3>1. /\ sensor.next # 0 /\ v.s.rows <= Sent
          /\ v.s.rows = Sent => /\ v.copied.n = v.s.rows
                                /\ v.s.rows > 0 => v.copied.from = sensor.frame
                                /\ RowMode => tog = v.s.toggle
      BY <2>1, <2>5 DEF InOrder
    <3>2. v.s.rows = Sent => Current' BY <1>4, <1>5, <1>6, <3>1 DEF Current
    <3> QED BY <1>5, <1>6, <2>2, <2>4, <2>5, <3>1, <3>2
  <2>6. CASE ~Heard
    <3>1. v.s.rows < B \/ v.copied.n = v.s.rows BY <2>1, <2>6 DEF InOrder
    <3>2. v.copied.n = v.s.rows => Gapless' BY <1>4, <1>6 DEF Gapless
    <3> QED BY <1>6, <2>2, <2>4, <2>6, <3>1, <3>2
  <2> QED BY <2>5, <2>6
<1>8. ApplyInv' BY <1>5 DEF ApplyInv, OrderIInv
<1>9. StartInv' /\ EndInv' /\ BetweenInv' BY <1>5 DEF StartInv, EndInv, BetweenInv
<1> QED BY <1>3, <1>4, <1>7, <1>8, <1>9 DEF PublishedIsWhole, OrderParts

\* What every event of the video leaves alone.
VideoStep ==
  /\ module = "on" /\ OrderIInv
  /\ UNCHANGED <<chosen, module, wedged, enabled, irq, software>>

LEMMA VideoFacts ==
  ASSUME VideoStep
  PROVE  /\ UNCHANGED <<chosen, module, src, copied>> /\ module = "on"
         /\ B' = B /\ RowMode' = RowMode /\ Receiving' = Receiving
         /\ EndFlags' = EndFlags /\ ApplyInv' /\ TypeOK
         /\ OrderInv /\ StartInv /\ EndInv /\ BetweenInv
BY SameBuild
DEF VideoStep, software, chosen, RowMode, Receiving, EndFlags, ApplyInv, OrderIInv, IInv

\* A receiver that is off or wedged changes no word but the sensor's.
LEMMA DeafOrder ==
  ASSUME VideoStep, ~Receiving, UNCHANGED <<flags, bank, tog, over>>
  PROVE  OrderParts'
<1>1. ~Heard' /\ ~Receiving' BY VideoFacts DEF Heard
<1>2. OrderInv' BY <1>1, VideoFacts, UnheardStep DEF VideoStep
<1>3. EndInv' BY VideoFacts DEF EndInv
<1>4. StartInv' /\ BetweenInv' BY <1>1 DEF StartInv, BetweenInv
<1> QED BY <1>2, <1>3, <1>4, VideoFacts DEF OrderParts

LEMMA StartOrder ==
  ASSUME VideoStep, Receiving, start_of_frame
  PROVE  OrderParts'
<1>1. /\ sensor.next = 0 /\ sensor' = [sensor EXCEPT !.next = 1]
      /\ flags' = flags \cup {"STR_FRM"} /\ (RowMode => tog' = 0)
  BY DEF start_of_frame, Raise
<1>2. sensor'.next = 1 BY <1>1, VideoFacts DEF TypeOK
<1>3. StartInv'
  <2> SUFFICES ASSUME Heard'
               PROVE  /\ sensor'.next # 0 /\ Pending' <= Sent'
                      /\ Pending' = Sent' =>
                           /\ Pending' = 1 => Latest(0)' = [frame |-> sensor'.frame, block |-> 1]
                           /\ RowMode' => tog' = Pending'
    BY DEF StartInv
  <2>1. flags = {} BY <1>1, VideoFacts DEF Heard, BetweenInv
  <2>2. Pending' = 0 BY <1>1, <2>1 DEF Pending
  <2>3. Sent' = 0 BY <1>2, VideoFacts, Sizes DEF Sent
  <2> QED BY <1>1, <1>2, <2>2, <2>3, VideoFacts
<1>4. OrderInv' /\ EndInv' /\ BetweenInv'
  BY <1>1, <1>2 DEF OrderInv, EndInv, BetweenInv
<1> QED BY <1>3, <1>4, VideoFacts DEF OrderParts

LEMMA BlockOrder ==
  ASSUME VideoStep, Receiving, NEW torn \in BOOLEAN, NEW done \in BOOLEAN,
         block(torn, done)
  PROVE  OrderParts'
<1>1. /\ sensor.next \in 1 .. B /\ sensor' = [sensor EXCEPT !.next = @ + 1]
      /\ done => ~RowMode
      /\ flags' = flags \cup {"ROW_DONE"} \cup (IF torn THEN {"FIFO_OV"} ELSE {})
                        \cup (IF done THEN {"FRM_DONE"} ELSE {})
      /\ bank' = [bank EXCEPT ![tog] =
                    IF torn THEN Torn
                    ELSE [frame |-> sensor.frame, block |-> sensor.next]]
      /\ tog' = 1 - tog /\ over' = over
  BY DEF block, Raise
<1>2. /\ sensor'.next = sensor.next + 1 /\ sensor'.frame = sensor.frame
      /\ tog \in {0, 1} /\ bank \in [{0, 1} -> Blocks] /\ sensor.next \in Nat
  BY <1>1, VideoFacts, Sizes DEF TypeOK
<1>3. Sent = sensor.next - 1 /\ Sent' = sensor.next /\ Pending' = 1
  <2>1. Pending' = 1 BY <1>1 DEF Pending
  <2> QED BY <1>1, <1>2, <2>1, VideoFacts, Sizes DEF Sent
<1>4. ASSUME "FIFO_OV" \notin flags'
      PROVE  \A t \in {0, 1} : (RowMode => t = tog) =>
               Latest(t)' = [frame |-> sensor'.frame, block |-> sensor.next]
  <2>1. bank'[tog] = [frame |-> sensor.frame, block |-> sensor.next]
    BY <1>1, <1>2, <1>4
  <2>2. 1 - tog' = tog BY <1>1, <1>2
  <2> QED BY <1>2, <2>1, <2>2, VideoFacts DEF Latest
<1>5. ~("STP_FRM" \in flags /\ "STR_FRM" \notin flags)
  BY <1>1, VideoFacts, Sizes DEF BetweenInv
<1>6. OrderInv'
  <2> SUFFICES ASSUME src.open, flags' \cap {"STR_FRM", "FIFO_OV"} = {}
               PROVE  /\ Heard' /\ sensor'.next # 0
                      /\ src.rows + Pending' <= Sent'
                      /\ src.rows + Pending' = Sent' => Current'
    BY VideoFacts DEF OrderInv
  <2>1. flags \cap {"STR_FRM", "FIFO_OV"} = {} /\ "STP_FRM" \notin flags
    BY <1>1, <1>5
  <2>2. Heard /\ Heard' BY <1>1, <2>1, VideoFacts DEF Heard
  <2>3. src.rows + Pending <= Sent /\ (src.rows + Pending = Sent => Current)
    BY <2>1, <2>2, VideoFacts DEF OrderInv
  <2>4. src.rows \in Nat /\ Pending \in {0, 1} /\ src.toggle \in {0, 1}
    BY VideoFacts, OrderTypes
  <2>5. ASSUME src.rows + 1 = sensor.next
        PROVE  Current'
    <3>1. Pending = 0 /\ src.rows + Pending = Sent BY <1>2, <1>3, <2>3, <2>4, <2>5
    <3>2. /\ copied.n = src.rows /\ (src.rows > 0 => copied.from = sensor.frame)
          /\ RowMode => tog = src.toggle
      BY <2>3, <3>1 DEF Current
    <3>3. Latest(src.toggle)' = [frame |-> sensor'.frame, block |-> src.rows + 1]
      <4>1. \A t \in {0, 1} : (RowMode => t = tog) =>
               Latest(t)' = [frame |-> sensor'.frame, block |-> sensor.next]
        BY <1>4
      <4>2. ASSUME NEW t \in {0, 1}, src.toggle = t
            PROVE  Latest(src.toggle)' = Latest(t)'
        BY <4>2, VideoFacts DEF Latest
      <4> QED BY <2>4, <2>5, <3>2, <4>1, <4>2
    <3> QED BY <1>1, <1>2, <1>3, <3>2, <3>3, VideoFacts DEF Current
  <2> QED BY <1>2, <1>3, <2>2, <2>3, <2>4, <2>5
<1>7. StartInv'
  <2> SUFFICES ASSUME "STR_FRM" \in flags', Heard',
                      flags' \cap ({"FIFO_OV"} \cup EndFlags) = {}
               PROVE  /\ sensor'.next # 0 /\ Pending' <= Sent'
                      /\ Pending' = Sent' =>
                           /\ Pending' = 1 => Latest(0)' = [frame |-> sensor'.frame, block |-> 1]
                           /\ RowMode' => tog' = Pending'
    BY VideoFacts DEF StartInv
  <2>1. "STR_FRM" \in flags /\ flags \cap ({"FIFO_OV"} \cup EndFlags) = {} BY <1>1
  <2>2. Heard BY <1>1, VideoFacts DEF Heard
  <2>3. Pending <= Sent /\ (Pending = Sent => (RowMode => tog = Pending))
    BY <2>1, <2>2, VideoFacts DEF StartInv
  <2>4. ASSUME sensor.next = 1
        PROVE  Latest(0)' = [frame |-> sensor'.frame, block |-> 1] /\ (RowMode => tog' = 1)
    <3>1. Pending = 0 /\ Pending = Sent BY <1>3, <2>3, <2>4 DEF Pending
    <3>2. RowMode => tog = 0 BY <2>3, <3>1
    <3>3. "FIFO_OV" \notin flags' OBVIOUS
    <3> QED BY <1>1, <1>4, <2>4, <3>2, <3>3
  <2> QED BY <1>1, <1>2, <1>3, <2>4, VideoFacts
<1>8. EndInv'
  <2>1. EndFlags \cap flags' # {} => EndFlags \cap flags # {} BY <1>1 DEF EndFlags
  <2> QED BY <1>1, <2>1, VideoFacts DEF EndInv
<1>9. BetweenInv' BY <1>1, <1>2, <1>5 DEF BetweenInv
<1> QED BY <1>6, <1>7, <1>8, <1>9, VideoFacts DEF OrderParts

LEMMA DoneOrder ==
  ASSUME VideoStep, Receiving, frame_done
  PROVE  OrderParts'
<1>1. /\ sensor.next = B + 1 /\ sensor' = [sensor EXCEPT !.next = @ + 1]
      /\ flags' = flags \cup (IF RowMode THEN {"FRM_DONE"} ELSE {})
      /\ over' = (over \/ RowMode) /\ UNCHANGED <<bank, tog>>
  BY DEF frame_done, Raise
<1>2. /\ sensor'.next = B + 2 /\ sensor'.frame = sensor.frame
      /\ Sent' = Sent /\ Pending' = Pending
  <2>1. sensor'.next = B + 2 /\ sensor'.frame = sensor.frame
    BY <1>1, VideoFacts, Sizes DEF TypeOK
  <2>2. Pending' = Pending BY <1>1 DEF Pending
  <2> QED BY <1>1, <2>1, <2>2, VideoFacts, Sizes DEF Sent
<1>3. "STP_FRM" \in flags' => "STP_FRM" \in flags BY <1>1
<1>4. "STP_FRM" \in flags => "STR_FRM" \in flags
  BY <1>1, VideoFacts, Sizes DEF BetweenInv
<1>5. OrderInv'
  <2> SUFFICES ASSUME src.open, flags' \cap {"STR_FRM", "FIFO_OV"} = {}
               PROVE  Heard' /\ /\ sensor'.next # 0
                                /\ src.rows + Pending' <= Sent'
                                /\ src.rows + Pending' = Sent' => Current'
    BY VideoFacts DEF OrderInv
  <2>1. flags \cap {"STR_FRM", "FIFO_OV"} = {} /\ "STP_FRM" \notin flags'
    BY <1>1, <1>3, <1>4
  <2>2. Heard /\ Heard' BY <1>1, <2>1, VideoFacts DEF Heard
  <2>3. Current => Current'
    BY <1>1, <1>2, VideoFacts DEF Current, Latest
  <2> QED BY <1>2, <2>1, <2>2, <2>3, VideoFacts, Sizes DEF OrderInv
<1>6. StartInv'
  <2>1. CASE RowMode BY <1>1, <2>1, VideoFacts DEF StartInv, EndFlags
  <2>2. CASE ~RowMode
    <3>1. flags' = flags BY <1>1, <2>2
    <3>2. sensor'.next # 0 BY <1>2, Sizes
    <3>3. Latest(0)' = Latest(0) BY <1>1, VideoFacts DEF Latest
    <3>4. Heard' => Heard BY <3>1, VideoFacts DEF Heard
    <3> QED BY <1>1, <1>2, <2>2, <3>1, <3>2, <3>3, <3>4, VideoFacts DEF StartInv
  <2> QED BY <2>1, <2>2
<1>7. EndInv' BY <1>1, VideoFacts DEF EndInv, EndFlags
<1>8. BetweenInv' BY <1>1, <1>2, <1>4, Sizes DEF BetweenInv
<1> QED BY <1>5, <1>6, <1>7, <1>8, VideoFacts DEF OrderParts

\* The end of a frame, in time or not.
LEMMA StopOrder ==
  ASSUME VideoStep, Receiving, end_of_frame \/ short_frame
  PROVE  OrderParts'
<1>1. /\ sensor' = NextFrame /\ flags' = flags \cup {"STP_FRM"}
      /\ over' = TRUE /\ UNCHANGED <<bank, tog>>
  BY VideoFacts DEF end_of_frame, short_frame, Raise, TypeOK
<1>2. sensor'.next = 0 BY <1>1 DEF NextFrame
<1>3. ~Heard' BY <1>1 DEF Heard
<1>4. OrderInv'
  <2>1. \A e \in {"STR_FRM", "FIFO_OV", "ROW_DONE"} : e \in flags' <=> e \in flags
    BY <1>1
  <2> QED BY <1>1, <1>3, <2>1, VideoFacts, UnheardStep DEF VideoStep
<1>5. StartInv' /\ EndInv' BY <1>1, <1>3 DEF StartInv, EndInv
<1>6. BetweenInv' BY <1>1, <1>2 DEF BetweenInv
<1> QED BY <1>4, <1>5, <1>6, VideoFacts DEF OrderParts

LEMMA VideoOrder ==
  ASSUME OrderIInv, Video
  PROVE  OrderParts'
<1>1. VideoStep BY DEF VideoStep, Video
<1>2. CASE Receiving
  BY <1>1, <1>2, StartOrder, BlockOrder, DoneOrder, StopOrder DEF Video
<1>3. CASE ~Receiving
  <2>1. over \in BOOLEAN BY <1>1, VideoFacts DEF TypeOK
  <2>2. UNCHANGED <<flags, bank, tog, over>>
    BY <1>3, <2>1
    DEF Video, start_of_frame, block, frame_done, end_of_frame, short_frame, Raise
  <2> QED BY <1>1, <1>3, <2>2, DeafOrder
<1> QED BY <1>2, <1>3

LEMMA InitOrdered == Init => OrderIInv
<1> SUFFICES ASSUME Init PROVE OrderIInv OBVIOUS
<1>1. /\ src.open = FALSE /\ flags = {} /\ module = "on" /\ published = "none"
  BY DEF Init
<1> QED BY <1>1, InitInductive
  DEF OrderIInv, PublishedIsWhole, OrderInv, StartInv, EndInv, BetweenInv, ApplyInv

LEMMA NextOrdered == OrderIInv /\ [Next]_vars => OrderIInv'
<1> SUFFICES ASSUME OrderIInv, [Next]_vars PROVE PublishedIsWhole' /\ OrderParts'
  BY NextInductive DEF OrderIInv, OrderParts
<1>1. /\ World \in Worlds /\ FrameInv(World) /\ World.published # "broken"
      /\ OrderParts
  BY DEF OrderIInv, OrderParts, PublishedIsWhole, IInv, World, Worlds, TypeOK, Copies
<1>2. CASE DVP_IRQHandler BY <1>2, InterruptOrder
<1>3. CASE MainLoop
  <2>1. flags' = {} BY <1>3 DEF MainLoop, recover, recover_and_probe, pause, resume, dvp_start
  <2>2. ~src'.open /\ published' # "broken"
    <3>1. CASE recover \/ \E answered, passed, lost \in BOOLEAN :
                            recover_and_probe(answered, passed, lost)
      <4>1. Become(Abandoned(World)) BY <3>1 DEF recover, recover_and_probe, Recover
      <4> QED BY <1>1, <4>1, Recovers DEF Become
    <3>2. CASE resume
      <4>1. Become(Resumed(World)) /\ ~World.s.open
        BY <3>2 DEF resume, World, OrderIInv, IInv
      <4> QED BY <1>1, <4>1, Resumes DEF Become
    <3>3. CASE \E acquired \in BOOLEAN : pause(acquired)
      <4>1. Become(Paused(World)) BY <3>3 DEF pause
      <4> QED BY <1>1, <4>1, Pauses DEF Become
    <3> QED BY <1>3, <3>1, <3>2, <3>3 DEF MainLoop
  <2> QED BY <2>1, <2>2, NothingOpen DEF PublishedIsWhole
<1>4. CASE Video
  <2>1. published' = published BY <1>4 DEF Video, software
  <2> QED BY <1>1, <1>4, <2>1, VideoOrder DEF PublishedIsWhole, World
<1>5. CASE apply
  <2>1. flags' = {} /\ ~src'.open /\ published' = published
    BY <1>1, <1>5 DEF apply, OrderParts, ApplyInv, software
  <2> QED BY <1>1, <2>1, NothingOpen DEF PublishedIsWhole, World
<1>6. CASE Break
  <2>1. /\ UNCHANGED <<chosen, enabled, irq, flags, bank, tog, over, src, copied, published>>
        /\ ~(Receiving' /\ module' = "on")
        /\ module' # "applying" \/ module' = module
    BY <1>6 DEF Break, software, Receiving
  <2>2. OrderInv' BY <2>1, UnheardStep DEF Heard
  <2>3. EndFlags' = EndFlags BY <2>1 DEF EndFlags, RowMode, chosen
  <2>4. EndInv' /\ ApplyInv' BY <1>1, <2>1, <2>3 DEF OrderParts, EndInv, ApplyInv
  <2>5. StartInv' /\ BetweenInv' BY <2>1 DEF StartInv, BetweenInv, Heard
  <2> QED BY <1>1, <2>1, <2>2, <2>4, <2>5 DEF OrderParts, PublishedIsWhole, World
<1>7. CASE idle \/ UNCHANGED vars
  <2>1. UNCHANGED <<chosen, hardware, src, copied, published>>
    BY <1>7 DEF idle, vars, software
  <2>2. OrderParts'
    BY <1>1, <2>1, SameBuild
    DEF OrderParts, OrderInv, StartInv, EndInv, BetweenInv, ApplyInv, hardware, chosen,
        Heard, Receiving, Sent, Pending, Current, Gapless, Latest, RowMode, EndFlags
  <2> QED BY <1>1, <2>1, <2>2 DEF PublishedIsWhole, World
<1> QED BY <1>2, <1>3, <1>4, <1>5, <1>6, <1>7 DEF Next

\* A frame that gets its end mark is all the blocks of one physical frame, in
\* order, whatever the interrupt found merged, lost or late, and wherever a
\* recovery, a hanging receiver or a file transaction falls.
THEOREM WholeFrames == Spec => []PublishedIsWhole
<1>1. OrderIInv => PublishedIsWhole BY DEF OrderIInv
<1> QED BY <1>1, InitOrdered, NextOrdered, PTL DEF Spec
=============================================================================
