--------------------------- MODULE BlockRing_proofs ---------------------------
(***************************************************************************)
(* Proofs about the block ring, for every number of slots, frame length    *)
(* and counter width.                                                      *)
(*                                                                         *)
(* None of the safety invariants is inductive alone: that a consumer's     *)
(* slot is not overwritten needs the counters to agree with the cursors,   *)
(* which needs the lease to have one owner, which needs every holder of    *)
(* the lease to be accounted for at every program point.  IInv adds what   *)
(* holds at those program points.  OrderInv adds the order of the chunks,  *)
(* which makes the slots a queue, and the ring an implementation of        *)
(* ChunkQueue.                                                             *)
(***************************************************************************)
EXTENDS BlockRingQueue, SequenceTheorems, TLAPS

Queued == Minus(committed, released)

\* An actor past its look at the queue still has the chunk it saw, and the
\* lease's slot and view are those of the oldest chunk.
ReaderAt(c) ==
  /\ pc[c] \in {"peek_scratch", "lease", "release_count"} => Queued >= 1
  /\ pc[c] = "lease" => read_slot = consumer_next /\ view[c] = meta[read_slot]

ReaderInv == \A c \in Actors : ReaderAt(c)

\* A write lease is a free slot at the producer's cursor, in an open frame.
WriterInv ==
  /\ write_leased => active /\ Queued < N /\ write_slot = producer_next
  /\ pc["source"] = "publish" =>
       /\ write_leased
       /\ data[write_slot] = [seq |-> frame_sequence, off |-> frame_offset]
       /\ meta[write_slot] = ChunkOf(data[write_slot])

\* No frame is open while one is being admitted or the capture is paused.
ClosedInv ==
  pc["source"] \notin {"idle", "publish"} => ~active /\ ~write_leased

\* Between the look at an empty queue and what follows from it, it is empty.
EmptyInv ==
  /\ pc["source"] \in {"begin", "empty_lease", "scratch_cas", "scratch_set",
                    "scratch_drop", "held"} => Queued = 0
  /\ scratch_leased <=> pc["source"] \in {"scratch_drop", "held"}

\* The drain loop has not run out while it peeks.
DrainInv ==
  pc["source"] \in {"peek", "peek_cas", "peek_queue", "peek_scratch", "peek_drop",
                "lease", "release_count", "release_lease"} => drained < N

IInv ==
  /\ TypeOK
  /\ DrainInv
  /\ LeaseHasOneOwner
  /\ CountersMatchCursors
  /\ ReaderInv
  /\ WriterInv
  /\ ClosedInv
  /\ EmptyInv
  /\ QueueHoldsWhatWasCommitted

-----------------------------------------------------------------------------
(* Arithmetic of the words and of the cursors.                              *)

\* Minus(a, b) is the number of increments from b to a.
LEMMA MinusRange ==
  ASSUME NEW a \in Words, NEW b \in Words
  PROVE  /\ Minus(a, b) \in Words
         /\ Minus(a, b) = 0 <=> a = b
BY RingAssumption DEF Minus, Words

\* A commit adds one to it, short of the width of the word.
LEMMA MinusIncr ==
  ASSUME NEW a \in Words, NEW b \in Words, Minus(a, b) < W - 1
  PROVE  /\ Incr(a) \in Words
         /\ Minus(Incr(a), b) = Minus(a, b) + 1
BY RingAssumption DEF Minus, Words, Incr

\* A release takes one from it.
LEMMA MinusDecr ==
  ASSUME NEW a \in Words, NEW b \in Words, Minus(a, b) >= 1
  PROVE  /\ Incr(b) \in Words
         /\ Minus(a, Incr(b)) = Minus(a, b) - 1
BY RingAssumption DEF Minus, Words, Incr

THEOREM InitInductive == Init => IInv
<1> SUFFICES ASSUME Init PROVE IInv
  OBVIOUS
<1>1. TypeOK
  <2>1. 0 \in Slots /\ 0 \in Offsets /\ 0 \in Words /\ 0 \in 0 .. N
    BY RingAssumption DEF Slots, Offsets, Words
  <2>2. pc \in [Actors -> ConsumerLabels \cup SourceLabels]
    BY DEF Init, ConsumerLabels
  <2> QED
    BY <2>1, <2>2 DEF Init, TypeOK, Actors, ConsumerLabels
<1>2. LeaseHasOneOwner
  BY DEF Init, LeaseHasOneOwner, Leasing, Actors
<1>3. Unread = 0
  <2>1. ~Gap
    BY DEF Init, Gap, Actors
  <2>2. Minus(committed, released) = 0
    BY DEF Init, Minus
  <2> QED
    BY <2>1, <2>2 DEF Unread
<1>4. CountersMatchCursors /\ QueueHoldsWhatWasCommitted
  BY <1>3, RingAssumption
  DEF Init, CountersMatchCursors, QueueHoldsWhatWasCommitted, At, Minus
<1>5. DrainInv /\ ReaderInv /\ WriterInv /\ ClosedInv /\ EmptyInv
  BY DEF Init, DrainInv, ReaderInv, ReaderAt, WriterInv, ClosedInv,
     EmptyInv, Queued, Minus, Actors
<1> QED
  BY <1>1, <1>2, <1>4, <1>5 DEF IInv

-----------------------------------------------------------------------------
(* Each part of IInv, one lemma.                                            *)

LEMMA NextSlotInSlots == \A s \in Slots : next_slot(s) \in Slots
BY RingAssumption DEF Slots, next_slot

LEMMA LeaseStep == TypeOK /\ LeaseHasOneOwner /\ [Next]_vars => LeaseHasOneOwner'
<1> SUFFICES ASSUME TypeOK, LeaseHasOneOwner, [Next]_vars
             PROVE  LeaseHasOneOwner'
  OBVIOUS
<1> USE DEF TypeOK, LeaseHasOneOwner, Leasing, Actors, Goto, producerVars,
            consumerVars
<1>1. CASE Producer
  BY <1>1 DEF Producer, abort_frame, begin_frame, begin_admit, acquire_write,
     copy_dma_block, commit_refused, commit_write, commit_publish, protocol_error
<1>2. CASE Pause
  BY <1>2 DEF Pause, pause, empty_queue, empty_lease, scratch_cas, scratch_set,
     scratch_drop, scratch_write, resume
<1>3. ASSUME NEW c \in Actors, Consumer(c) PROVE LeaseHasOneOwner'
  BY <1>3 DEF Consumer, peek_enter, peek_cas, peek_queue, peek_scratch,
     peek_drop, release_cursor, release_count, release_lease, AfterMiss,
     AfterRelease
<1>4. CASE UNCHANGED vars
  BY <1>4 DEF vars
<1> QED
  BY <1>1, <1>2, <1>3, <1>4 DEF Next

LEMMA TypeStep == TypeOK /\ DrainInv /\ [Next]_vars => TypeOK' /\ DrainInv'
<1> SUFFICES ASSUME TypeOK, DrainInv, [Next]_vars
             PROVE  TypeOK' /\ DrainInv'
  OBVIOUS
<1> USE NextSlotInSlots, RingAssumption
    DEF TypeOK, DrainInv, Actors, Goto, producerVars, consumerVars, ConsumerLabels,
        SourceLabels, AbortEffect
<1>a. 0 \in Offsets /\ 0 \in 0 .. N /\ 0 < N
  BY DEF Offsets
<1>b. \A w \in Words : Incr(w) \in Words
  BY DEF Words, Incr
<1>1. CASE Producer
  <2>1. CASE abort_frame \/ acquire_write
    BY <1>a, <2>1 DEF abort_frame, acquire_write, protocol_error
  <2>2. ASSUME NEW badMode \in BOOLEAN, begin_frame(badMode)
        PROVE  TypeOK' /\ DrainInv'
    BY <1>a, <2>2 DEF begin_frame, protocol_error
  <2>3. ASSUME NEW seq \in Sequences, begin_admit(seq)
        PROVE  TypeOK' /\ DrainInv'
    BY <1>a, <2>3 DEF begin_admit
  <2>4. CASE copy_dma_block
    BY <2>4 DEF copy_dma_block, Blocks, Offsets
  <2>5. ASSUME NEW badLength \in BOOLEAN, NEW end \in BOOLEAN,
               commit_refused(badLength, end)
        PROVE  TypeOK' /\ DrainInv'
    BY <1>a, <2>5 DEF commit_refused, protocol_error
  <2>6. ASSUME NEW end \in BOOLEAN, commit_write(end)
        PROVE  TypeOK' /\ DrainInv'
    BY <2>6 DEF commit_write, Chunks, Offsets
  <2>7. CASE commit_publish
    <3>1. frame_offset' \in Offsets
      BY <2>7 DEF commit_publish, Offsets
    <3> QED
      BY <1>b, <2>7, <3>1 DEF commit_publish
  <2> QED
    BY <1>1, <2>1, <2>2, <2>3, <2>4, <2>5, <2>6, <2>7 DEF Producer
<1>2. CASE Pause
  <2>1. CASE pause
    BY <2>1, <1>a DEF pause
  <2>2a. CASE empty_queue
    BY <2>2a DEF empty_queue
  <2>2b. CASE empty_lease
    BY <2>2b DEF empty_lease
  <2>2c. CASE scratch_cas
    BY <2>2c DEF scratch_cas
  <2>2d. CASE scratch_set \/ scratch_drop \/ resume
    BY ZenonT(60), <2>2d DEF scratch_set, scratch_drop, resume
  <2>3. ASSUME NEW s \in Slots, scratch_write(s)
        PROVE  TypeOK' /\ DrainInv'
    BY <2>3 DEF scratch_write
  <2> QED
    BY <1>2, <2>1, <2>2a, <2>2b, <2>2c, <2>2d, <2>3 DEF Pause
<1>3. ASSUME NEW c \in Actors, Consumer(c)
      PROVE  TypeOK' /\ DrainInv'
  <2>a. CASE peek_enter(c)
    BY <2>a DEF peek_enter, AfterMiss
  <2>b. CASE peek_cas(c)
    BY <2>b DEF peek_cas, AfterMiss
  <2>c. CASE peek_queue(c)
    BY <2>c DEF peek_queue
  <2>d. CASE peek_drop(c)
    BY <2>d DEF peek_drop, AfterMiss
  <2>2. CASE peek_scratch(c)
    BY <2>2 DEF peek_scratch
  <2>3. CASE release_cursor(c)
    BY <2>3 DEF release_cursor
  <2>4. CASE release_count(c)
    BY <2>4, <1>b DEF release_count
  <2>5. CASE release_lease(c)
    <3>1. drained' \in 0 .. N
      BY <2>5 DEF release_lease
    <3>2. TypeOK'
      BY <2>5, <3>1 DEF release_lease, AfterRelease
    <3>3. CASE c = "http"
      BY <2>5, <3>2, <3>3 DEF release_lease, AfterRelease
    <3>4. CASE c = "source"
      <4>1. drained' < N \/ pc'["source"] = "empty_queue"
        BY <2>5, <3>4 DEF release_lease, AfterRelease
      <4> QED
        BY <3>2, <4>1
    <3> QED
      BY <3>2, <3>3, <3>4
  <2> QED
    BY <1>3, <2>a, <2>b, <2>c, <2>d, <2>2, <2>3, <2>4, <2>5 DEF Consumer
<1>4. CASE UNCHANGED vars
  BY <1>4 DEF vars
<1> QED
  BY <1>1, <1>2, <1>3, <1>4 DEF Next

\* The clamp never acts: the operation's count is the number of chunks.
LEMMA QueuedChunks ==
  ASSUME TypeOK, CountersMatchCursors
  PROVE  queued_chunks = Queued /\ Queued \in 0 .. N
BY MinusRange, RingAssumption
DEF TypeOK, CountersMatchCursors, queued_chunks, Queued, Words

\* Steps that move neither a counter nor a cursor.
LEMMA CursorsKept ==
  ASSUME TypeOK, CountersMatchCursors,
         UNCHANGED <<committed, released, producer_next, consumer_next>>,
         Gap' <=> Gap
  PROVE  CountersMatchCursors' /\ Queued' = Queued /\ Unread' = Unread
BY DEF CountersMatchCursors, Queued, Unread, At, Minus

LEMMA CursorStep ==
  TypeOK /\ LeaseHasOneOwner /\ CountersMatchCursors /\ ReaderInv /\ WriterInv
    /\ [Next]_vars => CountersMatchCursors'
<1> SUFFICES ASSUME TypeOK, LeaseHasOneOwner, CountersMatchCursors, ReaderInv,
                    WriterInv, [Next]_vars
             PROVE  CountersMatchCursors'
  OBVIOUS
<1> USE DEF Actors
<1>a. Queued \in 0 .. N /\ N \in Nat
  BY QueuedChunks, RingAssumption
<1>b. /\ Unread = IF Gap THEN Queued - 1 ELSE Queued
      /\ Unread' = IF Gap' THEN Queued' - 1 ELSE Queued'
  BY DEF Unread, Queued
<1>c. /\ producer_next \in Slots /\ consumer_next \in Slots
      /\ producer_next = At(Unread)
  BY DEF TypeOK, CountersMatchCursors
<1>d. ASSUME Queued' <= N, producer_next' = At(Unread)'
      PROVE  CountersMatchCursors'
  BY <1>d DEF CountersMatchCursors, Queued
<1>1. CASE commit_publish
  <2>1. Queued' = Queued + 1 /\ Queued < N
    BY <1>1, MinusIncr, QueuedChunks, RingAssumption
    DEF commit_publish, WriterInv, TypeOK, Queued, consumerVars
  <2>2. Gap' <=> Gap
    BY <1>1 DEF commit_publish, Gap, Goto, TypeOK
  <2>3. Unread' = Unread + 1 /\ Unread \in -1 .. N - 1
    BY <1>a, <1>b, <2>1, <2>2
  <2>4. producer_next' = next_slot(producer_next) /\ consumer_next' = consumer_next
    BY <1>1 DEF commit_publish, consumerVars
  <2>5. Unread >= 0
    <3>1. Gap => Queued >= 1
      BY DEF Gap, ReaderInv, ReaderAt
    <3> QED
      BY <1>a, <1>b, <3>1
  <2>6. producer_next' = At(Unread)'
    BY <1>a, <1>c, <2>3, <2>4, <2>5 DEF At, next_slot, Slots
  <2> QED
    BY <1>a, <1>d, <2>1, <2>6
<1>2. ASSUME NEW c \in Actors, release_cursor(c) PROVE CountersMatchCursors'
  <2>1. ~Gap /\ Gap'
    BY <1>2 DEF release_cursor, Gap, Goto, TypeOK, LeaseHasOneOwner, Leasing
  <2>2. Queued' = Queued /\ Queued >= 1
    BY <1>2 DEF release_cursor, producerVars, Queued, ReaderInv, ReaderAt, Minus
  <2>3. Unread = Queued /\ Unread' = Queued - 1
    BY <1>b, <2>1, <2>2
  <2>4. producer_next' = producer_next /\ consumer_next' = next_slot(consumer_next)
    BY <1>2 DEF release_cursor, producerVars
  <2>5. producer_next' = At(Unread)'
    BY <1>a, <1>c, <2>2, <2>3, <2>4 DEF At, next_slot, Slots
  <2> QED
    BY <1>a, <1>d, <2>2, <2>5
<1>3. ASSUME NEW c \in Actors, release_count(c) PROVE CountersMatchCursors'
  <2>1. Gap /\ ~Gap'
    BY <1>3 DEF release_count, Gap, Goto, TypeOK, LeaseHasOneOwner, Leasing
  <2>2. Queued' = Queued - 1 /\ Queued >= 1
    BY <1>3, MinusDecr DEF release_count, producerVars, Queued, ReaderInv, ReaderAt, TypeOK
  <2>3. Unread' = Unread
    BY <1>a, <1>b, <2>1, <2>2
  <2>4. UNCHANGED <<producer_next, consumer_next>>
    BY <1>3 DEF release_count, producerVars
  <2>5. producer_next' = At(Unread)'
    BY <1>c, <2>3, <2>4 DEF At
  <2> QED
    BY <1>a, <1>d, <2>2, <2>5
<1>4. CASE Pause \/ UNCHANGED vars
  BY <1>4, CursorsKept
  DEF Pause, pause, empty_queue, empty_lease, scratch_cas, scratch_set,
      scratch_drop, scratch_write, resume, AbortEffect, producerVars,
      consumerVars, Goto, vars, Gap, TypeOK
<1>5. ASSUME NEW c \in Actors,
             \/ peek_enter(c) \/ peek_cas(c) \/ peek_queue(c) \/ peek_scratch(c)
             \/ peek_drop(c) \/ release_lease(c)
      PROVE  CountersMatchCursors'
  BY <1>5, CursorsKept
  DEF peek_enter, peek_cas, peek_queue, peek_scratch, peek_drop, release_lease,
      AfterMiss, AfterRelease, producerVars, consumerVars, Goto, Gap, TypeOK
<1>6. CASE Producer /\ ~commit_publish
  BY <1>6, CursorsKept
  DEF Producer, abort_frame, begin_frame, begin_admit, acquire_write,
      copy_dma_block, commit_refused, commit_write, protocol_error,
      AbortEffect, producerVars, consumerVars, Goto, Gap, TypeOK
<1> QED
  BY <1>1, <1>2, <1>3, <1>4, <1>5, <1>6 DEF Next, Consumer

\* A slot being written is not queued and not being read.
LEMMA WriteSlotFree ==
  ASSUME TypeOK, LeaseHasOneOwner, CountersMatchCursors, ReaderInv, WriterInv
  PROVE  WriteLeaseIsFresh
<1> SUFFICES ASSUME write_leased PROVE WriteLeaseIsFresh
  BY DEF WriteLeaseIsFresh
<1>1. Queued \in 0 .. N /\ N \in Nat /\ Queued < N
  BY QueuedChunks, RingAssumption DEF WriterInv
<1>2. Unread = IF Gap THEN Queued - 1 ELSE Queued
  BY DEF Unread, Queued
<1>3. Unread \in 0 .. N - 1
  <2>1. Gap => Queued >= 1
    BY DEF Gap, ReaderInv, ReaderAt
  <2> QED
    BY <1>1, <1>2, <2>1
<1>4. write_slot = At(Unread) /\ consumer_next \in Slots
  BY DEF WriterInv, CountersMatchCursors, TypeOK
<1>5. \A k \in 0 .. Unread - 1 : write_slot # At(k)
  BY <1>1, <1>3, <1>4 DEF At, Slots
<1>6. ASSUME NEW c \in Actors, Viewing(c) PROVE write_slot # read_slot
  <2>1. ~Gap
    BY <1>6 DEF Viewing, Gap, LeaseHasOneOwner, Leasing
  <2>2. Unread >= 1 /\ read_slot = consumer_next
    BY <1>1, <1>2, <1>6, <2>1 DEF Viewing, ReaderInv, ReaderAt
  <2> QED
    BY <1>1, <1>3, <1>4, <2>2 DEF At, Slots
<1> QED
  BY <1>1, <1>5, <1>6 DEF WriteLeaseIsFresh, Queued

LEMMA ReaderStep == IInv /\ [Next]_vars => ReaderInv'
<1> SUFFICES ASSUME IInv, [Next]_vars, NEW c \in Actors
             PROVE  ReaderAt(c)'
  BY DEF ReaderInv
<1> USE DEF Actors, ReaderAt
<1>a. Queued \in 0 .. N /\ N \in Nat /\ queued_chunks = Queued
  BY QueuedChunks, RingAssumption DEF IInv
<1>b. TypeOK /\ LeaseHasOneOwner /\ ReaderInv
  BY DEF IInv
<1>1. CASE commit_publish
  <2>1. Queued' = Queued + 1
    BY <1>1, <1>a, MinusIncr, RingAssumption
    DEF commit_publish, IInv, WriterInv, TypeOK, Queued, consumerVars
  <2> QED
    BY <1>1, <1>a, <1>b, <2>1 DEF commit_publish, consumerVars, ReaderInv, Goto, TypeOK
<1>2. ASSUME NEW end \in BOOLEAN, commit_write(end)
      PROVE  ReaderAt(c)'
  <2>1. Viewing(c) => write_slot # read_slot
    BY <1>2, WriteSlotFree DEF commit_write, WriteLeaseIsFresh, IInv
  <2>2. Queued' = Queued
    BY <1>2 DEF commit_write, Queued, Minus, producerVars, consumerVars
  <2> QED
    BY <1>2, <1>b, <2>1, <2>2
    DEF commit_write, producerVars, consumerVars, Viewing, ReaderInv, Goto, TypeOK, Slots
<1>3. ASSUME NEW d \in Actors, release_count(d)
      PROVE  ReaderAt(c)'
  BY <1>3, <1>b DEF release_count, LeaseHasOneOwner, Leasing, Goto, TypeOK
<1>4. ASSUME NEW d \in Actors, release_cursor(d)
      PROVE  ReaderAt(c)'
  <2>1. Queued' = Queued
    BY <1>4 DEF release_cursor, Queued, Minus, producerVars
  <2> QED
    BY <1>4, <1>b, <2>1
    DEF release_cursor, ReaderInv, LeaseHasOneOwner, Leasing, Goto, TypeOK
<1>5. ASSUME NEW d \in Actors, peek_scratch(d)
      PROVE  ReaderAt(c)'
  <2>1. Queued' = Queued
    BY <1>5 DEF peek_scratch, Queued, Minus, producerVars
  <2> QED
    BY <1>5, <1>b, <2>1
    DEF peek_scratch, ReaderInv, LeaseHasOneOwner, Leasing, Goto, TypeOK
<1>6. ASSUME NEW d \in Actors,
             \/ peek_enter(d) \/ peek_cas(d) \/ peek_queue(d)
             \/ peek_drop(d) \/ release_lease(d)
      PROVE  ReaderAt(c)'
  <2>1. UNCHANGED <<producerVars, consumerVars, meta>>
    BY <1>6 DEF peek_enter, peek_cas, peek_queue, peek_drop, release_lease
  <2>2. Queued' = Queued
    BY <2>1 DEF Queued, Minus, producerVars, consumerVars
  <2> QED
    BY <1>6, <1>a, <1>b, <2>1, <2>2
    DEF peek_enter, peek_cas, peek_queue, peek_drop, release_lease, AfterMiss,
        AfterRelease, consumerVars, ReaderInv, Goto, TypeOK
<1>7. CASE (Producer /\ ~commit_publish /\ ~(\E end \in BOOLEAN : commit_write(end)))
           \/ Pause \/ UNCHANGED vars
  <2>1. UNCHANGED <<consumerVars, committed, meta>>
    BY <1>7
    DEF Producer, abort_frame, begin_frame, begin_admit, acquire_write,
        copy_dma_block, commit_refused, protocol_error, AbortEffect, Pause, pause,
        empty_queue, empty_lease, scratch_cas, scratch_set, scratch_drop,
        scratch_write, resume, producerVars, vars, consumerVars
  <2>2. Queued' = Queued
    BY <2>1 DEF Queued, Minus, consumerVars
  <2>3. pc'[c] \in {"peek_scratch", "lease", "release_count"} => pc'[c] = pc[c]
    BY <1>7, <1>b
    DEF Producer, abort_frame, begin_frame, begin_admit, acquire_write,
        copy_dma_block, commit_refused, protocol_error, Pause, pause,
        empty_queue, empty_lease, scratch_cas, scratch_set, scratch_drop,
        scratch_write, resume, vars, Goto, TypeOK
  <2> QED
    BY <1>b, <2>1, <2>2, <2>3 DEF consumerVars, ReaderInv
<1> QED
  BY <1>1, <1>2, <1>3, <1>4, <1>5, <1>6, <1>7 DEF Next, Producer, Consumer

\* A consumer leaves the producer's words alone, and only takes from the queue.
LEMMA ConsumerKeeps ==
  ASSUME IInv, NEW c \in Actors, Consumer(c)
  PROVE  /\ UNCHANGED <<producerVars, scratch_leased, data, meta>>
         /\ Queued' = Queued \/ (Queued >= 1 /\ Queued' = Queued - 1)
         /\ pc'["source"] = pc["source"] \/ (c = "source" /\ pc["source"] # "idle")
         /\ c = "source" => /\ pc["source"] \in ConsumerLabels \cup {"peek"}
                         /\ pc'["source"] \in (ConsumerLabels \ {"idle"})
                                             \cup {"peek", "empty_queue"}
<1> USE DEF Actors
<1>1. CASE release_count(c)
  <2>1. Queued >= 1 /\ Queued' = Queued - 1
    BY <1>1, MinusDecr
    DEF release_count, producerVars, Queued, IInv, ReaderInv, ReaderAt, TypeOK
  <2> QED
    BY <1>1, <2>1 DEF release_count, Goto, IInv, TypeOK, ConsumerLabels
<1>2. CASE \/ peek_enter(c) \/ peek_cas(c) \/ peek_queue(c) \/ peek_scratch(c)
           \/ peek_drop(c) \/ release_cursor(c) \/ release_lease(c)
  <2>1. UNCHANGED <<producerVars, scratch_leased, data, meta, released>>
    BY <1>2 DEF peek_enter, peek_cas, peek_queue, peek_scratch, peek_drop,
                release_cursor, release_lease, consumerVars
  <2>2. Queued' = Queued
    BY <2>1 DEF Queued, Minus, producerVars
  <2> QED
    BY <1>2, <2>1, <2>2
    DEF peek_enter, peek_cas, peek_queue, peek_scratch, peek_drop,
        release_cursor, release_lease, AfterMiss, AfterRelease, Goto, IInv, TypeOK,
        ConsumerLabels
<1> QED
  BY <1>1, <1>2 DEF Consumer

LEMMA WriterStep == IInv /\ [Next]_vars => WriterInv'
<1> SUFFICES ASSUME IInv, [Next]_vars PROVE WriterInv'
  OBVIOUS
<1>a. Queued \in 0 .. N /\ N \in Nat /\ queued_chunks = Queued
  BY QueuedChunks, RingAssumption DEF IInv
<1>b. TypeOK /\ WriterInv
  BY DEF IInv
<1>c. UNCHANGED <<committed, released>> => Queued' = Queued
  BY DEF Queued, Minus
<1>1. CASE commit_publish
  BY <1>1, <1>b DEF commit_publish, WriterInv, Goto, TypeOK, Actors
<1>2. CASE acquire_write
  BY <1>2, <1>a, <1>b, <1>c
  DEF acquire_write, protocol_error, AbortEffect, producerVars, consumerVars, WriterInv
<1>3. ASSUME NEW end \in BOOLEAN, commit_write(end) PROVE WriterInv'
  <2>1. UNCHANGED producerVars /\ Queued' = Queued /\ data' = data /\ write_leased
    BY <1>3, <1>c DEF commit_write, producerVars, consumerVars
  <2>2. meta'[write_slot] = ChunkOf(data[write_slot])
    BY <1>3, <1>b DEF commit_write, ChunkOf, TypeOK
  <2> QED
    BY <1>3, <1>b, <2>1, <2>2 DEF commit_write, WriterInv, producerVars, ChunkOf
<1>4. CASE abort_frame \/ (\E badMode \in BOOLEAN : begin_frame(badMode))
           \/ (\E seq \in Sequences : begin_admit(seq)) \/ copy_dma_block
           \/ (\E badLength, end \in BOOLEAN : commit_refused(badLength, end))
  BY <1>4, <1>b, <1>c
  DEF abort_frame, begin_frame, begin_admit, copy_dma_block, commit_refused,
      protocol_error, AbortEffect, producerVars, consumerVars, WriterInv, Goto,
      TypeOK, Actors
<1>5. CASE Pause
  BY <1>5, <1>b, <1>c
  DEF Pause, pause, empty_queue, empty_lease, scratch_cas, scratch_set,
      scratch_drop, scratch_write, resume, AbortEffect, producerVars,
      consumerVars, WriterInv, Goto, TypeOK, Actors
<1>6. ASSUME NEW c \in Actors, Consumer(c) PROVE WriterInv'
  <2>1. pc'["source"] = "publish" => pc["source"] = "publish"
    BY <1>6, ConsumerKeeps DEF ConsumerLabels
  <2> QED
    BY <1>a, <1>b, <1>6, <2>1, ConsumerKeeps DEF WriterInv, producerVars, ChunkOf
<1>7. CASE UNCHANGED vars
  BY <1>7, <1>b, <1>c DEF vars, WriterInv, ChunkOf
<1> QED
  BY <1>1, <1>2, <1>3, <1>4, <1>5, <1>6, <1>7 DEF Next, Producer

LEMMA ClosedStep == IInv /\ [Next]_vars => ClosedInv'
<1> SUFFICES ASSUME IInv, [Next]_vars PROVE ClosedInv'
  OBVIOUS
<1>a. TypeOK /\ WriterInv /\ ClosedInv
  BY DEF IInv
<1>1. CASE Producer
  BY <1>1, <1>a
  DEF Producer, abort_frame, begin_frame, begin_admit, acquire_write,
      copy_dma_block, commit_refused, commit_write, commit_publish, protocol_error,
      AbortEffect, producerVars, consumerVars, WriterInv, ClosedInv, Goto, TypeOK,
      Actors
<1>2. CASE Pause
  BY <1>2, <1>a
  DEF Pause, pause, empty_queue, empty_lease, scratch_cas, scratch_set,
      scratch_drop, scratch_write, resume, AbortEffect, producerVars,
      WriterInv, ClosedInv, Goto, TypeOK, Actors
<1>3. ASSUME NEW c \in Actors, Consumer(c) PROVE ClosedInv'
  <2>1. pc["source"] \in {"idle", "publish"} => pc'["source"] = pc["source"]
    BY <1>3, ConsumerKeeps DEF ConsumerLabels
  <2> QED
    BY <1>a, <1>3, <2>1, ConsumerKeeps DEF ClosedInv, producerVars
<1>4. CASE UNCHANGED vars
  BY <1>4, <1>a DEF vars, ClosedInv
<1> QED
  BY <1>1, <1>2, <1>3, <1>4 DEF Next

LEMMA EmptyStep == IInv /\ [Next]_vars => EmptyInv'
<1> SUFFICES ASSUME IInv, [Next]_vars PROVE EmptyInv'
  OBVIOUS
<1>a. Queued \in 0 .. N /\ N \in Nat /\ queued_chunks = Queued
  BY QueuedChunks, RingAssumption DEF IInv
<1>b. TypeOK /\ EmptyInv
  BY DEF IInv
<1>c. UNCHANGED <<committed, released>> => Queued' = Queued
  BY DEF Queued, Minus
<1>1. CASE Producer
  BY <1>1, <1>a, <1>b, <1>c
  DEF Producer, abort_frame, begin_frame, begin_admit, acquire_write,
      copy_dma_block, commit_refused, commit_write, commit_publish, protocol_error,
      AbortEffect, producerVars, consumerVars, EmptyInv, Goto, TypeOK, Actors
<1>2. CASE Pause
  BY <1>2, <1>a, <1>b, <1>c
  DEF Pause, pause, empty_queue, empty_lease, scratch_cas, scratch_set,
      scratch_drop, scratch_write, resume, AbortEffect, producerVars, consumerVars,
      EmptyInv, Goto, TypeOK, Actors
<1>3. ASSUME NEW c \in Actors, Consumer(c) PROVE EmptyInv'
  BY <1>a, <1>b, <1>3, ConsumerKeeps DEF EmptyInv, ConsumerLabels
<1>4. CASE UNCHANGED vars
  BY <1>4, <1>b, <1>c DEF vars, EmptyInv
<1> QED
  BY <1>1, <1>2, <1>3, <1>4 DEF Next

LEMMA QueueStep == IInv /\ [Next]_vars => QueueHoldsWhatWasCommitted'
<1> SUFFICES ASSUME IInv, [Next]_vars PROVE QueueHoldsWhatWasCommitted'
  OBVIOUS
<1> USE DEF Actors
<1>a. Queued \in 0 .. N /\ N \in Nat
  BY QueuedChunks, RingAssumption DEF IInv
<1>b. TypeOK /\ LeaseHasOneOwner /\ QueueHoldsWhatWasCommitted
  BY DEF IInv
<1>c. /\ Unread = IF Gap THEN Queued - 1 ELSE Queued
      /\ Unread' = IF Gap' THEN Queued' - 1 ELSE Queued'
  BY DEF Unread, Queued
<1>d. Unread \in 0 .. N
  <2>1. Gap => Queued >= 1
    BY DEF Gap, IInv, ReaderInv, ReaderAt
  <2> QED
    BY <1>a, <1>c, <2>1
<1>e. consumer_next \in Slots /\ \A k \in 0 .. N - 1 : At(k) \in Slots
  BY <1>a, <1>b DEF At, TypeOK, Slots
<1>f. write_leased => \A k \in 0 .. Unread - 1 : write_slot # At(k)
  BY WriteSlotFree DEF WriteLeaseIsFresh, IInv
<1>1. CASE commit_publish
  <2>1. Queued' = Queued + 1
    BY <1>1, MinusIncr, QueuedChunks, RingAssumption
    DEF commit_publish, IInv, WriterInv, TypeOK, Queued, consumerVars
  <2>2. Gap' <=> Gap
    BY <1>1, <1>b DEF commit_publish, Gap, Goto, TypeOK
  <2>3. Unread' = Unread + 1
    BY <1>a, <1>c, <2>1, <2>2
  <2>4. UNCHANGED <<data, meta, consumer_next>>
    BY <1>1 DEF commit_publish, consumerVars
  <2>5. data[At(Unread)] # None /\ meta[At(Unread)] = ChunkOf(data[At(Unread)])
    <3>1. At(Unread) = write_slot
      BY <1>1 DEF commit_publish, IInv, WriterInv, CountersMatchCursors
    <3>2. data[write_slot] \in Blocks /\ meta[write_slot] = ChunkOf(data[write_slot])
      BY <1>1, <1>b DEF commit_publish, IInv, WriterInv, Blocks, TypeOK
    <3> QED
      BY <3>1, <3>2, RingAssumption DEF Blocks, Offsets
  <2>6. \A k \in 0 .. Unread : data[At(k)] # None /\ meta[At(k)] = ChunkOf(data[At(k)])
    BY <1>b, <1>d, <2>5 DEF QueueHoldsWhatWasCommitted
  <2>7. \A k \in 0 .. Unread : At(k)' = At(k)
    BY <2>4 DEF At
  <2>8. 0 .. (Unread' - 1) = 0 .. Unread
    BY <1>d, <2>3
  <2> QED
    BY ZenonT(60), <2>4, <2>6, <2>7, <2>8 DEF QueueHoldsWhatWasCommitted, ChunkOf
<1>2. ASSUME NEW c \in Actors, release_cursor(c) PROVE QueueHoldsWhatWasCommitted'
  <2>1. ~Gap /\ Gap'
    BY <1>2, <1>b DEF release_cursor, Gap, Goto, TypeOK, LeaseHasOneOwner, Leasing
  <2>2. UNCHANGED <<committed, released, data, meta>>
    BY <1>2 DEF release_cursor, producerVars
  <2>3. Unread' = Unread - 1
    <3>1. Queued' = Queued
      BY <2>2 DEF Queued, Minus
    <3> QED
      BY <1>a, <1>c, <2>1, <3>1
  <2>4. \A k \in 0 .. Unread - 2 : At(k)' = At(k + 1)
    BY <1>2, <1>a, <1>d, <1>e DEF release_cursor, next_slot, At, Slots
  <2>5. \A k \in 0 .. Unread - 2 :
          data[At(k + 1)] # None /\ meta[At(k + 1)] = ChunkOf(data[At(k + 1)])
    BY <1>b, <1>d DEF QueueHoldsWhatWasCommitted
  <2> QED
    BY <1>d, <2>2, <2>3, <2>4, <2>5 DEF QueueHoldsWhatWasCommitted, ChunkOf
<1>3. ASSUME NEW c \in Actors, release_count(c) PROVE QueueHoldsWhatWasCommitted'
  <2>1. Gap /\ ~Gap'
    BY <1>3, <1>b DEF release_count, Gap, Goto, TypeOK, LeaseHasOneOwner, Leasing
  <2>2. Queued' = Queued - 1
    BY <1>3, MinusDecr
    DEF release_count, producerVars, Queued, IInv, ReaderInv, ReaderAt, TypeOK
  <2>3. Unread' = Unread
    BY <1>a, <1>c, <2>1, <2>2
  <2> QED
    BY <1>3, <1>b, <2>3 DEF release_count, QueueHoldsWhatWasCommitted, At, ChunkOf
<1>4. ASSUME UNCHANGED <<committed, released, consumer_next>>, Gap' <=> Gap,
             \A k \in 0 .. Unread - 1 :
               data'[At(k)] = data[At(k)] /\ meta'[At(k)] = meta[At(k)]
      PROVE  QueueHoldsWhatWasCommitted'
  <2>1. Queued' = Queued
    BY <1>4 DEF Queued, Minus
  <2>2. Unread' = Unread
    BY <1>c, <1>4, <2>1
  <2>3. \A k \in 0 .. Unread - 1 : At(k)' = At(k)
    BY <1>4 DEF At
  <2> QED
    BY <1>b, <1>4, <2>2, <2>3 DEF QueueHoldsWhatWasCommitted, ChunkOf
<1>5. CASE copy_dma_block \/ \E end \in BOOLEAN : commit_write(end)
  <2>1. UNCHANGED <<committed, released, consumer_next>> /\ (Gap' <=> Gap)
    BY <1>5, <1>b
    DEF copy_dma_block, commit_write, producerVars, consumerVars, Gap, Goto, TypeOK
  <2>2. \A k \in 0 .. Unread - 1 :
          data'[At(k)] = data[At(k)] /\ meta'[At(k)] = meta[At(k)]
    BY <1>5, <1>a, <1>b, <1>d, <1>e, <1>f DEF copy_dma_block, commit_write, TypeOK
  <2> QED
    BY <1>4, <2>1, <2>2
<1>6. ASSUME NEW s \in Slots, scratch_write(s) PROVE QueueHoldsWhatWasCommitted'
  <2>1. Unread <= 0
    BY <1>a, <1>c, <1>6 DEF scratch_write, IInv, EmptyInv
  <2> QED
    BY <1>4, <1>6, <1>b, <1>d, <2>1
    DEF scratch_write, producerVars, consumerVars, Gap
<1>7. CASE abort_frame \/ (\E badMode \in BOOLEAN : begin_frame(badMode))
           \/ (\E seq \in Sequences : begin_admit(seq)) \/ acquire_write
           \/ (\E badLength, end \in BOOLEAN : commit_refused(badLength, end))
  <2>1. UNCHANGED <<committed, released, consumer_next, data, meta>> /\ (Gap' <=> Gap)
    BY <1>7, <1>b
    DEF abort_frame, begin_frame, begin_admit, acquire_write, commit_refused,
        protocol_error, AbortEffect, producerVars, consumerVars, Gap, Goto, TypeOK
  <2> QED
    BY <1>4, <2>1
<1>8. CASE pause \/ empty_queue \/ empty_lease \/ scratch_cas \/ scratch_set
           \/ scratch_drop \/ resume \/ UNCHANGED vars
  <2>1. UNCHANGED <<committed, released, consumer_next, data, meta>> /\ (Gap' <=> Gap)
    BY <1>8, <1>b
    DEF pause, empty_queue, empty_lease, scratch_cas, scratch_set, scratch_drop,
        resume, AbortEffect, producerVars, consumerVars, Gap, Goto, TypeOK, vars
  <2> QED
    BY <1>4, <2>1
<1>9. ASSUME NEW c \in Actors,
             \/ peek_enter(c) \/ peek_cas(c) \/ peek_queue(c) \/ peek_scratch(c)
             \/ peek_drop(c) \/ release_lease(c)
      PROVE  QueueHoldsWhatWasCommitted'
  <2>1. UNCHANGED <<committed, released, consumer_next, data, meta>> /\ (Gap' <=> Gap)
    BY <1>9, <1>b
    DEF peek_enter, peek_cas, peek_queue, peek_scratch, peek_drop, release_lease,
        AfterMiss, AfterRelease, producerVars, consumerVars, Gap, Goto, TypeOK
  <2> QED
    BY <1>4, <2>1
<1> QED
  BY <1>1, <1>2, <1>3, <1>5, <1>6, <1>7, <1>8, <1>9 DEF Next, Producer, Pause, Consumer

-----------------------------------------------------------------------------
(* The theorems.                                                            *)

THEOREM NextInductive == IInv /\ [Next]_vars => IInv'
<1> SUFFICES ASSUME IInv, [Next]_vars PROVE IInv'
  OBVIOUS
<1>1. TypeOK' /\ DrainInv'
  BY TypeStep DEF IInv
<1>2. LeaseHasOneOwner'
  BY LeaseStep DEF IInv
<1>3. CountersMatchCursors'
  BY CursorStep DEF IInv
<1> QED
  BY <1>1, <1>2, <1>3, ReaderStep, WriterStep, ClosedStep, EmptyStep, QueueStep
  DEF IInv

\* IInv holds in every reachable state, whatever the number of slots, the frame
\* length and the width of the counters.
THEOREM Invariance == Spec => []IInv
BY InitInductive, NextInductive, PTL DEF Spec

\* Every word of the ring keeps its type.
THEOREM TypeSafety == Spec => []TypeOK
<1>1. IInv => TypeOK
  BY DEF IInv
<1> QED
  BY <1>1, Invariance, PTL

\* The read lease shared by the HTTP loop and the pause has one owner at most.
THEOREM LeaseSafety == Spec => []LeaseHasOneOwner
<1>1. IInv => LeaseHasOneOwner
  BY DEF IInv
<1> QED
  BY <1>1, Invariance, PTL

\* The wrapping counters agree with the two cursors at every instant.
THEOREM CounterSafety == Spec => []CountersMatchCursors
<1>1. IInv => CountersMatchCursors
  BY DEF IInv
<1> QED
  BY <1>1, Invariance, PTL

\* The interrupt never fills a slot that is queued or being sent.
THEOREM WriteSafety == Spec => []WriteLeaseIsFresh
<1>1. IInv => WriteLeaseIsFresh
  BY WriteSlotFree DEF IInv
<1> QED
  BY <1>1, Invariance, PTL

\* A published chunk keeps its pixels and metadata until it is released.
THEOREM QueueSafety == Spec => []QueueHoldsWhatWasCommitted
<1>1. IInv => QueueHoldsWhatWasCommitted
  BY DEF IInv
<1> QED
  BY <1>1, Invariance, PTL

\* What a consumer reads is what the producer committed, for as long as it
\* holds the lease.
THEOREM ReadSafety == Spec => []LeasedChunkIntact
<1>1. IInv => LeasedChunkIntact
  <2> SUFFICES ASSUME IInv, NEW c \in Actors, Viewing(c)
               PROVE  /\ view[c] # None
                      /\ meta[read_slot] = view[c]
                      /\ data[read_slot] # None
                      /\ view[c] = ChunkOf(data[read_slot])
    BY DEF LeasedChunkIntact
  <2>1. Queued \in 0 .. N /\ Queued >= 1 /\ ~Gap /\ N \in Nat
    BY QueuedChunks, RingAssumption
    DEF IInv, Viewing, ReaderInv, ReaderAt, Gap, LeaseHasOneOwner, Leasing
  <2>2. 0 \in 0 .. Unread - 1
    BY <2>1 DEF Unread, Queued
  <2>3. read_slot = At(0) /\ view[c] = meta[read_slot] /\ read_slot \in Slots
    BY <2>1 DEF IInv, Viewing, ReaderInv, ReaderAt, At, TypeOK, Slots
  <2>4. data[read_slot] # None /\ meta[read_slot] = ChunkOf(data[read_slot])
    BY <2>2, <2>3 DEF IInv, QueueHoldsWhatWasCommitted
  <2>5. data[read_slot] \in Blocks
    BY <2>3, <2>4 DEF IInv, TypeOK
  <2>6. view[c] # None
    <3>1. ChunkOf(data[read_slot]) \in Chunks
      BY <2>5 DEF ChunkOf, Blocks, Chunks
    <3> QED
      BY <2>3, <2>4, <3>1, RingAssumption DEF Chunks, Offsets
  <2> QED
    BY <2>3, <2>4, <2>6
<1> QED
  BY <1>1, Invariance, PTL

\* While module bytes lie in the payload memory no frame is there.
THEOREM ScratchSafety == Spec => []ScratchExclusive
<1>1. IInv => ScratchExclusive
  <2> SUFFICES ASSUME IInv, scratch_leased PROVE ScratchExclusive
    BY DEF ScratchExclusive
  <2>1. Queued = 0 /\ queued_chunks = Queued /\ ~active /\ ~write_leased
    BY QueuedChunks DEF IInv, EmptyInv, ClosedInv
  <2>2. ASSUME NEW c \in Actors PROVE ~Viewing(c)
    BY <2>1 DEF IInv, ReaderInv, ReaderAt, Viewing
  <2> QED
    BY <2>1, <2>2 DEF ScratchExclusive
<1> QED
  BY <1>1, Invariance, PTL

-----------------------------------------------------------------------------
(* The order of the chunks.                                                 *)

\* The chunk k places after the one released last.
Nth(k) == IF k = 0 THEN last ELSE meta[At(k - 1)]

\* A frame is admitted, and gets its first chunk, with an empty ring.
StartInv ==
  pc["source"] = "begin" \/ (active /\ frame_offset = 0) => Queued = 0

\* The chunk published last is the one before the next of the open frame.
TailInv ==
  active /\ frame_offset > 0 =>
    Nth(Unread) = ChunkOf([seq |-> frame_sequence, off |-> frame_offset - 1])

\* From the chunk released last to the chunk published last there is no gap.
ChainInv == \A k \in 1 .. Unread : Follows(Nth(k - 1), Nth(k))

OrderInv == StartInv /\ TailInv /\ ChainInv

\* A step that neither publishes nor releases a chunk.
Quiet ==
  /\ Unread' = Unread
  /\ UNCHANGED <<consumer_next, last>>
  /\ \A k \in 0 .. Unread - 1 : meta'[At(k)] = meta[At(k)]

LEMMA RingFacts ==
  ASSUME IInv
  PROVE  /\ N \in Nat \ {0} /\ F \in Nat \ {0}
         /\ Queued \in 0 .. N /\ queued_chunks = Queued
         /\ Gap => Queued >= 1
         /\ Unread = (IF Gap THEN Queued - 1 ELSE Queued) /\ Unread \in 0 .. N
         /\ consumer_next \in Slots /\ At(0) = consumer_next
         /\ \A k \in 0 .. N - 1 : At(k) \in Slots
         /\ \A k \in 0 .. Unread - 1 : meta[At(k)] \in Chunks
<1>1. /\ N \in Nat \ {0} /\ F \in Nat \ {0}
      /\ Queued \in 0 .. N /\ queued_chunks = Queued
  BY QueuedChunks, RingAssumption DEF IInv
<1>2. Gap => Queued >= 1
  BY DEF Gap, IInv, ReaderInv, ReaderAt
<1>3. Unread = (IF Gap THEN Queued - 1 ELSE Queued) /\ Unread \in 0 .. N
  <2>1. Unread = IF Gap THEN Queued - 1 ELSE Queued
    BY DEF Unread, Queued
  <2> QED
    BY <1>1, <1>2, <2>1
<1>4. /\ consumer_next \in Slots /\ At(0) = consumer_next
      /\ \A k \in 0 .. N - 1 : At(k) \in Slots
  BY <1>1 DEF IInv, TypeOK, At, Slots
<1>5. ASSUME NEW k \in 0 .. Unread - 1 PROVE meta[At(k)] \in Chunks
  <2>1. At(k) \in Slots
    BY <1>1, <1>3, <1>4
  <2>2. data[At(k)] \in Blocks /\ meta[At(k)] = ChunkOf(data[At(k)])
    BY <2>1 DEF IInv, TypeOK, QueueHoldsWhatWasCommitted
  <2> QED
    BY <2>2 DEF Blocks, Chunks, ChunkOf
<1> QED
  BY <1>1, <1>2, <1>3, <1>4, <1>5

\* ChunkOf builds the chunks of a frame.
LEMMA ChunkFacts ==
  ASSUME NEW s \in Sequences, NEW o \in Offsets
  PROVE  /\ ChunkOf([seq |-> s, off |-> o]) =
              [seq |-> s, off |-> o, start |-> (o = 0), end |-> (o = F - 1)]
         /\ ChunkOf([seq |-> s, off |-> o]) \in Chunks
         /\ ChunkOf([seq |-> s, off |-> o]) # None
<1>1. ChunkOf([seq |-> s, off |-> o]) =
        [seq |-> s, off |-> o, start |-> (o = 0), end |-> (o = F - 1)]
  BY DEF ChunkOf
<1>2. ChunkOf([seq |-> s, off |-> o]) \in Chunks
  <2>1. PICK b \in Blocks : b = [seq |-> s, off |-> o]
    BY DEF Blocks
  <2> QED
    BY <2>1 DEF Blocks, Chunks, ChunkOf
<1> QED
  BY <1>1, <1>2, RingAssumption DEF Chunks, Offsets

\* The published chunk joins the queue at its end.
LEMMA PublishedChunk ==
  ASSUME IInv, commit_publish
  PROVE  /\ Unread' = Unread + 1 /\ Unread < N
         /\ \A k \in 0 .. Unread : Nth(k)' = Nth(k)
         /\ Nth(Unread)' = ChunkOf([seq |-> frame_sequence, off |-> frame_offset])
         /\ active /\ write_leased
<1>1. Queued' = Queued + 1 /\ Queued < N
  BY MinusIncr, QueuedChunks, RingAssumption
  DEF commit_publish, IInv, WriterInv, TypeOK, Queued, consumerVars
<1>2. Gap' <=> Gap
  BY DEF commit_publish, Gap, Goto, IInv, TypeOK, Actors
<1>3. Unread' = IF Gap' THEN Queued' - 1 ELSE Queued'
  BY DEF Unread, Queued
<1>4. Unread' = Unread + 1 /\ Unread < N
  BY <1>1, <1>2, <1>3, RingFacts
<1>5. UNCHANGED <<meta, consumer_next, last>>
  BY DEF commit_publish, consumerVars
<1>6. \A k \in 0 .. Unread : Nth(k)' = Nth(k)
  BY <1>5 DEF Nth, At
<1>7. At(Unread) = write_slot /\ active /\ write_leased
  BY DEF commit_publish, IInv, WriterInv, CountersMatchCursors
<1>8. meta[write_slot] = ChunkOf([seq |-> frame_sequence, off |-> frame_offset])
  BY DEF commit_publish, IInv, WriterInv
<1>9. Nth(Unread)' = meta[At(Unread)]
  <2>1. PICK u \in 0 .. N : u = Unread
    BY RingFacts
  <2>2. Unread' = u + 1 /\ Unread' # 0 /\ Unread' - 1 = u
    BY <1>4, <2>1
  <2>3. Nth(Unread)' = meta'[At(u)']
    BY <2>2 DEF Nth, At
  <2>4. At(u)' = At(u)
    BY <1>5 DEF At
  <2> QED
    BY <1>5, <2>1, <2>3, <2>4
<1> QED
  BY <1>4, <1>6, <1>7, <1>8, <1>9

\* A release takes the first chunk, the one the view shows, from the queue.
LEMMA ReleasedChunk ==
  ASSUME IInv, NEW c \in Actors, release_cursor(c)
  PROVE  /\ Unread >= 1 /\ Unread' = Unread - 1
         /\ \A k \in 0 .. Unread - 1 : Nth(k)' = Nth(k + 1)
         /\ view[c] = Nth(1) /\ view[c] \in Chunks
<1>1. ~Gap /\ Gap'
  BY DEF release_cursor, Gap, Goto, IInv, TypeOK, LeaseHasOneOwner, Leasing, Actors
<1>2. UNCHANGED <<committed, released, data, meta>>
  BY DEF release_cursor, producerVars
<1>3. Queued' = Queued /\ Queued >= 1
  BY <1>2 DEF release_cursor, Queued, Minus, IInv, ReaderInv, ReaderAt
<1>4. Unread >= 1 /\ Unread' = Unread - 1
  <2>1. Unread' = IF Gap' THEN Queued' - 1 ELSE Queued'
    BY DEF Unread, Queued
  <2> QED
    BY <1>1, <1>3, <2>1, RingFacts
<1>5. view[c] = meta[At(0)]
  BY RingFacts DEF release_cursor, IInv, ReaderInv, ReaderAt
<1>6. view[c] = Nth(1) /\ view[c] \in Chunks
  BY <1>4, <1>5, RingFacts DEF Nth
<1>7. ASSUME NEW k \in 0 .. Unread - 1 PROVE Nth(k)' = Nth(k + 1)
  <2>1. CASE k = 0
    BY <1>6, <2>1 DEF Nth, release_cursor
  <2>2. CASE k # 0
    <3>1. consumer_next' = next_slot(consumer_next)
      BY DEF release_cursor
    <3>2. At(k - 1)' = At(k)
      <4>1. /\ k \in 1 .. N - 1 /\ N \in Nat /\ consumer_next \in 0 .. N - 1
            /\ consumer_next' = IF consumer_next + 1 = N THEN 0 ELSE consumer_next + 1
        BY <2>2, <3>1, RingFacts DEF Slots, next_slot
      <4> QED
        BY <4>1 DEF At
    <3>3. Nth(k + 1) = meta[At(k)] /\ Nth(k)' = meta'[At(k - 1)']
      BY <2>2 DEF Nth
    <3> QED
      BY <1>2, <3>2, <3>3
  <2> QED
    BY <2>1, <2>2
<1> QED
  BY <1>4, <1>6, <1>7

\* Every other step leaves the queue alone.
LEMMA QuietSteps ==
  ASSUME IInv, [Next]_vars, ~commit_publish, \A c \in Actors : ~release_cursor(c)
  PROVE  Quiet
<1> USE DEF Actors
<1>a. TypeOK /\ LeaseHasOneOwner
  BY DEF IInv
<1>1. ASSUME UNCHANGED <<committed, released, consumer_next, last>>, Gap' <=> Gap,
             \A k \in 0 .. Unread - 1 : meta'[At(k)] = meta[At(k)]
      PROVE  Quiet
  BY <1>1 DEF Quiet, Unread, Minus
<1>2. CASE \E c \in Actors : release_count(c)
  <2>1. PICK c \in Actors : release_count(c)
    BY <1>2
  <2>2. Gap /\ ~Gap'
    BY <2>1, <1>a DEF release_count, Gap, Goto, TypeOK, LeaseHasOneOwner, Leasing
  <2>3. Queued' = Queued - 1
    BY <2>1, MinusDecr
    DEF release_count, producerVars, Queued, IInv, ReaderInv, ReaderAt, TypeOK
  <2>4. Unread' = IF Gap' THEN Queued' - 1 ELSE Queued'
    BY DEF Unread, Queued
  <2>5. Unread' = Unread
    BY <2>2, <2>3, <2>4, RingFacts
  <2> QED
    BY <2>1, <2>5 DEF Quiet, release_count
<1>3. ASSUME NEW end \in BOOLEAN, commit_write(end) PROVE Quiet
  <2>1. UNCHANGED <<committed, released, consumer_next, last>> /\ (Gap' <=> Gap)
    BY <1>3, <1>a DEF commit_write, producerVars, consumerVars, Gap, Goto, TypeOK
  <2>2. \A k \in 0 .. Unread - 1 : write_slot # At(k)
    BY <1>3, WriteSlotFree DEF commit_write, WriteLeaseIsFresh, IInv
  <2>3. \A k \in 0 .. Unread - 1 : meta'[At(k)] = meta[At(k)]
    BY <1>3, <1>a, <2>2, RingFacts DEF commit_write, TypeOK
  <2> QED
    BY <1>1, <2>1, <2>3
<1>4. CASE abort_frame \/ (\E badMode \in BOOLEAN : begin_frame(badMode))
           \/ (\E seq \in Sequences : begin_admit(seq)) \/ acquire_write
           \/ copy_dma_block
           \/ (\E badLength, end \in BOOLEAN : commit_refused(badLength, end))
  <2>1. UNCHANGED <<committed, released, consumer_next, last, meta>> /\ (Gap' <=> Gap)
    BY <1>4, <1>a
    DEF abort_frame, begin_frame, begin_admit, acquire_write, commit_refused,
        copy_dma_block, protocol_error, AbortEffect, producerVars, consumerVars,
        Gap, Goto, TypeOK
  <2> QED
    BY <1>1, <2>1
<1>5. CASE Pause \/ UNCHANGED vars
  <2>1. UNCHANGED <<committed, released, consumer_next, last, meta>> /\ (Gap' <=> Gap)
    BY <1>5, <1>a
    DEF Pause, pause, empty_queue, empty_lease, scratch_cas, scratch_set,
        scratch_drop, scratch_write, resume, AbortEffect, producerVars,
        consumerVars, Gap, Goto, TypeOK, vars
  <2> QED
    BY <1>1, <2>1
<1>6. ASSUME NEW c \in Actors,
             \/ peek_enter(c) \/ peek_cas(c) \/ peek_queue(c) \/ peek_scratch(c)
             \/ peek_drop(c) \/ release_lease(c)
      PROVE  Quiet
  <2>1. UNCHANGED <<committed, released, consumer_next, last, meta>> /\ (Gap' <=> Gap)
    BY <1>6, <1>a
    DEF peek_enter, peek_cas, peek_queue, peek_scratch, peek_drop, release_lease,
        AfterMiss, AfterRelease, producerVars, consumerVars, Gap, Goto, TypeOK
  <2> QED
    BY <1>1, <2>1
<1> QED
  BY <1>2, <1>3, <1>4, <1>5, <1>6 DEF Next, Producer, Consumer

LEMMA QuietNth ==
  ASSUME IInv, Quiet
  PROVE  \A k \in 0 .. Unread : Nth(k)' = Nth(k)
<1> SUFFICES ASSUME NEW k \in 0 .. Unread PROVE Nth(k)' = Nth(k)
  OBVIOUS
<1>1. \A j \in 0 .. Unread - 1 : At(j)' = At(j)
  BY DEF Quiet, At
<1>2. CASE k = 0
  BY <1>2 DEF Quiet, Nth
<1>3. CASE k # 0
  <2>1. k - 1 \in 0 .. Unread - 1
    BY <1>3, RingFacts
  <2> QED
    BY <1>1, <1>3, <2>1 DEF Quiet, Nth
<1> QED
  BY <1>2, <1>3

\* A step that publishes nothing leaves the open frame where it was, or closes
\* it, or opens one with no chunk yet.
LEMMA FrameKept ==
  ASSUME IInv, [Next]_vars, ~commit_publish
  PROVE  \/ ~active'
         \/ pc["source"] = "begin" /\ frame_offset' = 0
         \/ active /\ UNCHANGED <<frame_sequence, frame_offset>>
<1>1. CASE Producer
  BY <1>1
  DEF Producer, abort_frame, begin_frame, begin_admit, acquire_write,
      copy_dma_block, commit_refused, commit_write, protocol_error, AbortEffect,
      producerVars, IInv, ClosedInv, TypeOK
<1>2. CASE Pause
  BY <1>2
  DEF Pause, pause, empty_queue, empty_lease, scratch_cas, scratch_set,
      scratch_drop, scratch_write, resume, AbortEffect, producerVars, IInv, TypeOK
<1>3. ASSUME NEW c \in Actors, Consumer(c)
      PROVE  UNCHANGED <<active, frame_sequence, frame_offset>>
  BY <1>3, ConsumerKeeps DEF producerVars
<1>4. CASE UNCHANGED vars
  BY <1>4 DEF vars, IInv, TypeOK
<1>5. active \in BOOLEAN /\ active' \in BOOLEAN
  BY NextInductive DEF IInv, TypeOK
<1> QED
  BY <1>1, <1>2, <1>3, <1>4, <1>5 DEF Next

LEMMA StartStep == IInv /\ StartInv /\ [Next]_vars => StartInv'
<1> SUFFICES ASSUME IInv, StartInv, [Next]_vars,
                    pc'["source"] = "begin" \/ (active' /\ frame_offset' = 0)
             PROVE  Queued' = 0
  BY DEF StartInv
<1>1. CASE commit_publish
  <2>1. pc'["source"] = "idle"
    BY <1>1 DEF commit_publish, Goto, IInv, TypeOK, Actors
  <2>2. active' => frame_offset' = frame_offset + 1 /\ frame_offset \in 0 .. F - 1
    BY <1>1 DEF commit_publish, IInv, TypeOK, Offsets
  <2> QED
    BY <2>1, <2>2, RingAssumption
<1>2. CASE ~commit_publish
  <2>1. pc'["source"] = "begin" => Queued' = 0
    BY NextInductive DEF IInv, EmptyInv
  <2>2. pc["source"] = "begin" \/ (active /\ frame_offset = 0) \/ pc'["source"] = "begin"
    BY <1>2, FrameKept
  <2>3. CASE Queued = 0
    <3>1. \A c \in Actors : ~release_count(c)
      BY <2>3 DEF release_count, IInv, ReaderInv, ReaderAt
    <3>2. UNCHANGED <<committed, released>>
      BY <1>2, <3>1
      DEF Next, Producer, abort_frame, begin_frame, begin_admit, acquire_write,
          copy_dma_block, commit_refused, commit_write, protocol_error,
          AbortEffect, Pause, pause, empty_queue, empty_lease, scratch_cas,
          scratch_set, scratch_drop, scratch_write, resume, Consumer, peek_enter,
          peek_cas, peek_queue, peek_scratch, peek_drop, release_cursor,
          release_lease, producerVars, consumerVars, vars
    <3> QED
      BY <2>3, <3>2 DEF Queued, Minus
  <2> QED
    BY <2>1, <2>2, <2>3 DEF StartInv
<1> QED
  BY <1>1, <1>2

LEMMA TailStep == IInv /\ TailInv /\ [Next]_vars => TailInv'
<1> SUFFICES ASSUME IInv, TailInv, [Next]_vars, active', frame_offset' > 0
             PROVE  (Nth(Unread) =
                     ChunkOf([seq |-> frame_sequence, off |-> frame_offset - 1]))'
  BY DEF TailInv
<1>1. frame_offset \in Offsets /\ Offsets = 0 .. F - 1
  BY DEF IInv, TypeOK, Offsets
<1>2. CASE commit_publish
  <2>1. frame_offset' = frame_offset + 1 /\ frame_sequence' = frame_sequence
    BY <1>2 DEF commit_publish
  <2>2. frame_offset' - 1 = frame_offset
    BY <1>1, <2>1
  <2>3. Nth(Unread)' = ChunkOf([seq |-> frame_sequence, off |-> frame_offset])
    BY <1>2, PublishedChunk
  <2> QED
    BY <2>1, <2>2, <2>3 DEF ChunkOf
<1>3. CASE ~commit_publish
  <2>1. active /\ UNCHANGED <<frame_sequence, frame_offset>>
    BY <1>3, FrameKept
  <2>2. Nth(Unread) = ChunkOf([seq |-> frame_sequence, off |-> frame_offset - 1])
    BY <2>1 DEF TailInv
  <2>3. Nth(Unread)' = Nth(Unread)
    <3>1. ASSUME NEW c \in Actors, release_cursor(c) PROVE Nth(Unread)' = Nth(Unread)
      <4>1. PICK u \in 0 .. Unread - 1 : u = Unread - 1
        BY <3>1, ReleasedChunk, RingFacts
      <4>2. Nth(u)' = Nth(u + 1) /\ Unread' = u /\ Unread = u + 1
        BY <3>1, <4>1, ReleasedChunk, RingFacts
      <4> QED
        BY <4>2 DEF Nth
    <3>2. CASE Quiet
      <4>1. Unread' = Unread /\ Unread \in 0 .. Unread
        BY <3>2, RingFacts DEF Quiet
      <4>2. PICK u \in 0 .. Unread : u = Unread
        BY <4>1
      <4>3. Nth(u)' = Nth(u)
        BY <3>2, QuietNth
      <4> QED
        BY <4>1, <4>2, <4>3 DEF Nth
    <3> QED
      BY <1>3, <3>1, <3>2, QuietSteps
  <2> QED
    BY <2>1, <2>2, <2>3 DEF ChunkOf
<1> QED
  BY <1>2, <1>3

\* A START follows anything, and the blocks of a frame follow each other.
LEMMA BlocksFollow ==
  ASSUME NEW s \in Sequences, NEW o \in Offsets
  PROVE  /\ \A p : Follows(p, ChunkOf([seq |-> s, off |-> 0]))
         /\ o + 1 \in Offsets => Follows(ChunkOf([seq |-> s, off |-> o]),
                                        ChunkOf([seq |-> s, off |-> o + 1]))
<1>1. 0 \in Offsets
  BY RingAssumption DEF Offsets
<1>2. \A q \in Offsets : ChunkOf([seq |-> s, off |-> q]) # None
  BY ChunkFacts
<1>3. \A q \in Offsets : /\ ChunkOf([seq |-> s, off |-> q]).seq = s
                         /\ ChunkOf([seq |-> s, off |-> q]).off = q
                         /\ ChunkOf([seq |-> s, off |-> q]).start <=> q = 0
                         /\ ChunkOf([seq |-> s, off |-> q]).end <=> q = F - 1
  BY DEF ChunkOf
<1>4. \A p : Follows(p, ChunkOf([seq |-> s, off |-> 0]))
  BY <1>1, <1>2, <1>3 DEF Follows
<1>5. ASSUME o + 1 \in Offsets
      PROVE  Follows(ChunkOf([seq |-> s, off |-> o]),
                     ChunkOf([seq |-> s, off |-> o + 1]))
  <2>1. o # F - 1
    BY <1>5, RingAssumption DEF Offsets
  <2> QED
    BY <1>2, <1>3, <1>5, <2>1 DEF Follows
<1> QED
  BY <1>4, <1>5

LEMMA ChainStep == IInv /\ TailInv /\ ChainInv /\ [Next]_vars => ChainInv'
<1> SUFFICES ASSUME IInv, TailInv, ChainInv, [Next]_vars PROVE ChainInv'
  OBVIOUS
<1>a. PICK u \in 0 .. N : u = Unread
  BY RingFacts
<1>b. \A k \in 1 .. u : Follows(Nth(k - 1), Nth(k))
  BY <1>a DEF ChainInv
<1>1. CASE commit_publish
  <2>1. Unread' = u + 1 /\ \A k \in 0 .. u : Nth(k)' = Nth(k)
    BY <1>1, <1>a, PublishedChunk
  <2>2. Nth(u + 1)' = ChunkOf([seq |-> frame_sequence, off |-> frame_offset])
    BY <1>1, <2>1, PublishedChunk DEF Nth
  <2>3. Follows(Nth(u), ChunkOf([seq |-> frame_sequence, off |-> frame_offset]))
    <3>1. frame_sequence \in Sequences /\ frame_offset \in Offsets /\ active
      BY <1>1, PublishedChunk DEF IInv, TypeOK
    <3>2. CASE frame_offset = 0
      BY <3>1, <3>2, BlocksFollow
    <3>3. CASE frame_offset # 0
      <4>1. PICK o \in Offsets : frame_offset = o + 1 /\ frame_offset > 0
        <5>1. frame_offset > 0 /\ frame_offset - 1 \in Offsets
              /\ frame_offset = (frame_offset - 1) + 1
          BY <3>1, <3>3, RingAssumption DEF Offsets
        <5> QED
          BY <5>1
      <4>2. frame_offset - 1 = o
        BY <4>1 DEF Offsets
      <4>3. Nth(u) = ChunkOf([seq |-> frame_sequence, off |-> o])
        BY <1>a, <3>1, <4>1, <4>2 DEF TailInv
      <4>4. PICK q \in Sequences : q = frame_sequence
        BY <3>1
      <4>5. Follows(ChunkOf([seq |-> q, off |-> o]), ChunkOf([seq |-> q, off |-> o + 1]))
        BY <3>1, <4>1, BlocksFollow
      <4> QED
        BY <4>1, <4>3, <4>4, <4>5
    <3> QED
      BY <3>2, <3>3
  <2>4. ASSUME NEW k \in 1 .. u + 1 PROVE Follows(Nth(k - 1), Nth(k))'
    <3>1. CASE k = u + 1
      <4>1. k - 1 = u /\ u \in 0 .. u
        BY <3>1
      <4> QED
        BY <2>1, <2>2, <2>3, <3>1, <4>1 DEF Follows
    <3>2. CASE k # u + 1
      <4>1. k \in 1 .. u /\ k \in 0 .. u /\ k - 1 \in 0 .. u
        BY <3>2
      <4> QED
        BY <1>b, <2>1, <4>1 DEF Follows
    <3> QED
      BY <3>1, <3>2
  <2> QED
    BY <2>1, <2>4 DEF ChainInv
<1>2. ASSUME NEW c \in Actors, release_cursor(c) PROVE ChainInv'
  <2>1. Unread' = u - 1 /\ \A k \in 0 .. u - 1 : Nth(k)' = Nth(k + 1)
    BY <1>2, <1>a, ReleasedChunk
  <2>2. ASSUME NEW k \in 1 .. u - 1 PROVE Follows(Nth(k - 1), Nth(k))'
    <3>1. k \in 0 .. u - 1 /\ k - 1 \in 0 .. u - 1 /\ k + 1 \in 1 .. u
          /\ (k - 1) + 1 = k /\ (k + 1) - 1 = k
      OBVIOUS
    <3>2. Nth(k - 1)' = Nth(k) /\ Nth(k)' = Nth(k + 1)
      BY <2>1, <3>1
    <3>3. Follows(Nth(k), Nth(k + 1))
      BY <1>b, <3>1
    <3> QED
      BY <3>2, <3>3 DEF Follows
  <2> QED
    BY <2>1, <2>2 DEF ChainInv
<1>3. CASE Quiet
  <2>1. Unread' = u /\ \A k \in 0 .. u : Nth(k)' = Nth(k)
    BY <1>3, <1>a, QuietNth DEF Quiet
  <2>2. ASSUME NEW k \in 1 .. u PROVE Follows(Nth(k - 1), Nth(k))'
    <3>1. k \in 0 .. u /\ k - 1 \in 0 .. u
      OBVIOUS
    <3> QED
      BY <1>b, <2>1, <3>1 DEF Follows
  <2> QED
    BY <2>1, <2>2 DEF ChainInv
<1> QED
  BY <1>1, <1>2, <1>3, QuietSteps

LEMMA OrderInvInit == Init => OrderInv
<1> SUFFICES ASSUME Init PROVE OrderInv
  OBVIOUS
<1>1. Queued = 0 /\ ~Gap /\ ~active
  BY DEF Init, Queued, Minus, Gap, Actors
<1>2. Unread = 0
  BY <1>1 DEF Unread, Queued
<1> QED
  BY <1>1, <1>2 DEF OrderInv, StartInv, TailInv, ChainInv

LEMMA OrderInvStep == IInv /\ OrderInv /\ [Next]_vars => OrderInv'
BY StartStep, TailStep, ChainStep DEF OrderInv

\* An actor that is about to take a chunk is alone, and there is one.
LEMMA TakingReader ==
  ASSUME IInv, NEW c \in Actors, pc[c] = "peek_scratch"
  PROVE  Unread >= 1 /\ \A d \in Actors : ~Viewing(d)
<1>1. ~Gap /\ \A d \in Actors : ~Viewing(d)
  BY DEF Gap, Viewing, IInv, LeaseHasOneOwner, Leasing
<1>2. Queued >= 1
  BY DEF IInv, ReaderInv, ReaderAt
<1> QED
  BY <1>1, <1>2, RingFacts

\* The chunk a consumer gets is the START of a frame or continues the one
\* released before it, whatever was aborted, drained or paused between them.
THEOREM DeliverySafety == Spec => DeliveryIsGapless
<1>1. IInv /\ OrderInv /\ [Next]_vars
        => [\A c \in Actors : (pc[c] = "peek_scratch" /\ pc'[c] = "lease")
              => Follows(last, view'[c])]_vars
  <2> SUFFICES ASSUME IInv, OrderInv, Next, NEW c \in Actors,
                      pc[c] = "peek_scratch", pc'[c] = "lease"
               PROVE  Follows(last, view'[c])
    BY DEF vars
  <2>1. peek_scratch(c)
    <3> USE DEF Goto, Actors
    <3>0. pc \in [Actors -> ConsumerLabels \cup SourceLabels]
      BY DEF IInv, TypeOK
    <3>1. CASE Producer
      BY <3>0, <3>1
      DEF Producer, abort_frame, begin_frame, begin_admit, acquire_write,
          copy_dma_block, commit_refused, commit_write, commit_publish, protocol_error
    <3>2. CASE Pause
      BY <3>0, <3>2
      DEF Pause, pause, empty_queue, empty_lease, scratch_cas, scratch_set,
          scratch_drop, scratch_write, resume
    <3>3. ASSUME NEW d \in Actors, Consumer(d) PROVE peek_scratch(c)
      <4>1. d = c
        <5>1. \A l : pc' = [pc EXCEPT ![d] = l] /\ d # c => pc'[c] = pc[c]
          BY <3>0
        <5>2. \E l : pc' = [pc EXCEPT ![d] = l]
          BY <3>3 DEF Consumer, peek_enter, peek_cas, peek_queue, peek_scratch,
             peek_drop, release_cursor, release_count, release_lease
        <5> QED
          BY <5>1, <5>2
      <4> QED
        BY <3>3, <4>1 DEF Consumer, peek_enter, peek_cas, peek_queue, peek_drop,
           release_cursor, release_count, release_lease
    <3> QED
      BY <3>1, <3>2, <3>3 DEF Next
  <2>2. view'[c] = meta[consumer_next]
    BY <2>1 DEF peek_scratch, Goto, IInv, TypeOK
  <2>3. Unread >= 1 /\ Unread \in Nat /\ At(0) = consumer_next
    BY TakingReader, RingFacts
  <2>4. Follows(Nth(1 - 1), Nth(1))
    BY <2>3 DEF OrderInv, ChainInv
  <2>5. Nth(1 - 1) = last /\ Nth(1) = meta[consumer_next]
    BY <2>3 DEF Nth
  <2> QED
    BY <2>2, <2>4, <2>5
<1> QED
  BY <1>1, InitInductive, NextInductive, OrderInvInit, OrderInvStep, PTL
  DEF Spec, DeliveryIsGapless

-----------------------------------------------------------------------------
(* The ring implements the queue of chunks.                                 *)

\* The abstract queue is a sequence of chunks, as long as the ring is full.
LEMMA QueueFacts ==
  ASSUME IInv
  PROVE  /\ queueMap \in Seq(Chunks) /\ Len(queueMap) = Unread
         /\ \A k \in 1 .. Unread : queueMap[k] = Nth(k)
         /\ queueMap = <<>> <=> Unread = 0
         /\ Unread >= 1 => Head(queueMap) = Nth(1)
<1>1. PICK u \in 0 .. N : u = Unread
  BY RingFacts
<1>2. \A k \in 1 .. u : meta[At(k - 1)] \in Chunks
  <2>1. \A k \in 1 .. u : k - 1 \in 0 .. u - 1
    OBVIOUS
  <2> QED
    BY <1>1, <2>1, RingFacts
<1>3. queueMap \in [1 .. u -> Chunks]
  BY <1>1, <1>2 DEF queueMap
<1>4. queueMap \in Seq(Chunks)
  BY <1>3, SeqDef
<1>5. Len(queueMap) = u
  <2>1. Len(queueMap) \in Nat /\ DOMAIN queueMap = 1 .. Len(queueMap)
    BY <1>4, LenProperties
  <2> QED
    BY <1>3, <2>1
<1>6. \A k \in 1 .. u : queueMap[k] = Nth(k)
  BY <1>1 DEF queueMap, Nth
<1>7. queueMap = <<>> <=> u = 0
  BY <1>4, <1>5, EmptySeq
<1>8. u >= 1 => Head(queueMap) = queueMap[1]
  BY <1>4, <1>7
<1> QED
  BY <1>1, <1>4, <1>5, <1>6, <1>7, <1>8

LEMMA QuietQueueMap ==
  ASSUME IInv, Quiet
  PROVE  queueMap' = queueMap
<1>1. \A k \in 1 .. Unread : k - 1 \in 0 .. Unread - 1
  BY RingFacts
<1>2. \A k \in 1 .. Unread : meta'[At(k - 1)'] = meta[At(k - 1)]
  BY <1>1 DEF Quiet, At
<1> QED
  BY <1>2 DEF Quiet, queueMap

\* The lent chunk is the view of the one actor that has one.
LEMMA LentFacts ==
  ASSUME IInv
  PROVE  /\ \A c \in Actors : Viewing(c) => lentMap = view[c]
         /\ (\A c \in Actors : ~Viewing(c)) => lentMap = None
<1>1. \A c, d \in Actors : Viewing(c) /\ Viewing(d) => c = d
  BY DEF Viewing, IInv, LeaseHasOneOwner, Leasing
<1> QED
  BY <1>1 DEF lentMap, Actors

\* A step that neither publishes, lends nor takes back a chunk cuts the open
\* frame or leaves the queue as it is.
LEMMA QuietImplements ==
  ASSUME IInv, Quiet, view' = view, \A c \in Actors : Viewing(c)' <=> Viewing(c),
         scratch_leased' = scratch_leased,
         ~active' \/ (active /\ UNCHANGED <<active, frame_sequence, frame_offset>>)
                  \/ (~active /\ frame_offset' = 0)
  PROVE  [Queue!Next]_(Queue!cvars)
<1>1. queueMap' = queueMap
  BY QuietQueueMap
<1>2. lentMap' = lentMap
  BY DEF lentMap, Actors
<1>3. tailMap' = None \/ tailMap' = tailMap
  BY DEF tailMap, ChunkOf
<1> QED
  BY <1>1, <1>2, <1>3 DEF Queue!cvars, Queue!Next, Queue!Cut

\* Only a consumer's peek and release change who is reading, and only the
\* pause's acquisition and the resume change who has the memory.
LEMMA ReadingKept ==
  ASSUME IInv, [Next]_vars,
         \A c \in Actors : ~peek_scratch(c) /\ ~release_cursor(c)
  PROVE  /\ view' = view
         /\ \A c \in Actors : Viewing(c)' <=> Viewing(c)
         /\ ~scratch_set /\ ~resume => scratch_leased' = scratch_leased
<1> USE DEF Goto, Actors, Viewing
<1>a. pc \in [Actors -> ConsumerLabels \cup SourceLabels]
  BY DEF IInv, TypeOK
<1>1. CASE Producer
  BY <1>1, <1>a
  DEF Producer, abort_frame, begin_frame, begin_admit, acquire_write,
      copy_dma_block, commit_refused, commit_write, commit_publish,
      protocol_error, consumerVars
<1>2. CASE Pause
  BY <1>2, <1>a
  DEF Pause, pause, empty_queue, empty_lease, scratch_cas, scratch_set,
      scratch_drop, scratch_write, resume, consumerVars
<1>3. ASSUME NEW c \in Actors, Consumer(c)
      PROVE  /\ UNCHANGED <<view, scratch_leased>>
             /\ \A d \in Actors : Viewing(d)' <=> Viewing(d)
  BY <1>3, <1>a
  DEF Consumer, peek_enter, peek_cas, peek_queue, peek_drop, release_count,
      release_lease, AfterMiss, AfterRelease, consumerVars
<1>4. CASE UNCHANGED vars
  BY <1>4 DEF vars
<1> QED
  BY <1>1, <1>2, <1>3, <1>4 DEF Next

\* The counter store of a commit appends the chunk, and there is room for it.
LEMMA PublishImplements ==
  ASSUME IInv, OrderInv, commit_publish
  PROVE  Queue!Next
<1> DEFINE chunk == ChunkOf([seq |-> frame_sequence, off |-> frame_offset])
           longer == Append(queueMap, chunk)
<1>a. /\ frame_sequence \in Sequences /\ frame_offset \in Offsets
      /\ Offsets = 0 .. F - 1 /\ F \in Nat \ {0}
  BY RingAssumption DEF IInv, TypeOK, Offsets
<1>b. PICK u \in 0 .. N - 1 : u = Unread
  BY PublishedChunk, RingFacts
<1>c. /\ queueMap \in Seq(Chunks) /\ Len(queueMap) = u
      /\ \A k \in 1 .. u : queueMap[k] = Nth(k)
      /\ queueMap = <<>> <=> u = 0
  BY <1>b, QueueFacts
<1>d. /\ active /\ Unread' = u + 1
      /\ \A k \in 0 .. u : Nth(k)' = Nth(k)
      /\ Nth(u + 1)' = chunk
  BY <1>b, PublishedChunk DEF Nth
<1>1. queueMap' = longer
  <2>1. chunk \in Chunks
    BY <1>a, ChunkFacts
  <2> HIDE DEF chunk
  <2>2. /\ longer \in Seq(Chunks) /\ Len(longer) = u + 1
        /\ \A k \in 1 .. u : longer[k] = queueMap[k]
        /\ longer[u + 1] = chunk
    BY <1>c, <2>1, AppendProperties
  <2> HIDE DEF longer
  <2>3. longer = [k \in 1 .. u + 1 |-> longer[k]]
    BY <2>2, LenProperties
  <2>4. ASSUME NEW k \in 1 .. u + 1 PROVE longer[k] = Nth(k)'
    <3>1. CASE k = u + 1
      BY <1>d, <2>2, <3>1
    <3>2. CASE k # u + 1
      BY <1>c, <1>d, <2>2, <3>2
    <3> QED
      BY <3>1, <3>2
  <2>5. \A k \in 1 .. u + 1 : Nth(k)' = meta'[At(k - 1)']
    BY DEF Nth
  <2>6. queueMap' = [k \in 1 .. u + 1 |-> meta'[At(k - 1)']]
    BY <1>d DEF queueMap
  <2> QED
    BY <2>3, <2>4, <2>5, <2>6
<1>2. lentMap' = lentMap /\ scratch_leased' = scratch_leased
  BY DEF commit_publish, consumerVars, lentMap, Viewing, Goto, IInv, TypeOK, Actors
<1>3. ~scratch_leased
  BY DEF commit_publish, IInv, EmptyInv
<1>4. chunk = Queue!Chunk(frame_sequence, frame_offset)
  BY DEF Queue!Chunk, ChunkOf
<1>5. tailMap' = IF frame_offset = F - 1 THEN None ELSE chunk
  <2>1. CASE frame_offset = F - 1
    BY <2>1 DEF commit_publish, tailMap
  <2>2. CASE frame_offset # F - 1
    <3>1. active' = TRUE /\ frame_sequence' = frame_sequence
      BY <2>2 DEF commit_publish
    <3>2. frame_offset' = frame_offset + 1
      BY <2>2 DEF commit_publish
    <3>3. frame_offset' > 0 /\ frame_offset' - 1 = frame_offset
      BY <1>a, <3>2
    <3> QED
      BY <2>2, <3>1, <3>3 DEF tailMap, ChunkOf
  <2> QED
    BY <2>1, <2>2
<1>6. ASSUME IF frame_offset = 0
               THEN tailMap = None /\ queueMap = <<>> /\ lentMap = None
               ELSE tailMap = Queue!Chunk(frame_sequence, frame_offset - 1)
      PROVE  Queue!Next
  <2>1. Len(queueMap) < N
    BY <1>b, <1>c, RingFacts
  <2>2. /\ queueMap' = Append(queueMap, Queue!Chunk(frame_sequence, frame_offset))
        /\ tailMap' = IF frame_offset = F - 1
                      THEN None ELSE Queue!Chunk(frame_sequence, frame_offset)
    BY <1>1, <1>4, <1>5
  <2>3. Queue!Publish(frame_sequence, frame_offset)
    BY <1>2, <1>3, <1>6, <2>1, <2>2 DEF Queue!Publish
  <2> QED
    BY <1>a, <2>3 DEF Queue!Next
<1>7. CASE frame_offset = 0
  <2>1. tailMap = None
    BY <1>7 DEF tailMap
  <2>2. Queued = 0
    BY <1>7, <1>d DEF OrderInv, StartInv
  <2>3. queueMap = <<>>
    BY <1>b, <1>c, <2>2, RingFacts
  <2>4. lentMap = None
    BY <2>2, LentFacts DEF Viewing, IInv, ReaderInv, ReaderAt
  <2> QED
    BY <1>6, <1>7, <2>1, <2>3, <2>4
<1>8. CASE frame_offset # 0
  <2>1. tailMap = Queue!Chunk(frame_sequence, frame_offset - 1)
    BY <1>8, <1>a, <1>d DEF tailMap, Queue!Chunk, ChunkOf
  <2> QED
    BY <1>6, <1>8, <2>1
<1> QED
  BY <1>7, <1>8

\* The look at the metadata that succeeds hands out the first chunk.
LEMMA PeekImplements ==
  ASSUME IInv, NEW c \in Actors, peek_scratch(c), [Next]_vars
  PROVE  [Queue!Next]_(Queue!cvars)
<1>1. Quiet
  BY QuietSteps
  DEF commit_publish, release_cursor, peek_scratch, Goto, IInv, TypeOK, Actors,
      LeaseHasOneOwner, Leasing
<1>2. queueMap' = queueMap
  BY <1>1, QuietQueueMap
<1>3. tailMap' = tailMap /\ scratch_leased' = scratch_leased
  BY DEF peek_scratch, producerVars, tailMap, ChunkOf
<1>4. pc[c] = "peek_scratch" /\ Unread >= 1 /\ \A d \in Actors : ~Viewing(d)
  BY TakingReader DEF peek_scratch
<1>5. lentMap = None
  BY <1>4, LentFacts
<1>6. CASE scratch_leased
  <2>1. \A d \in Actors : pc'[d] # "lease"
    BY <1>4, <1>6 DEF peek_scratch, Goto, Viewing, IInv, TypeOK
  <2>2. lentMap' = None
    BY <2>1 DEF lentMap, Viewing, Actors
  <2> QED
    BY <1>2, <1>3, <1>5, <2>2 DEF Queue!cvars
<1>7. CASE ~scratch_leased
  <2>1. pc'[c] = "lease" /\ \A d \in Actors \ {c} : pc'[d] # "lease"
    BY <1>4, <1>7 DEF peek_scratch, Goto, Viewing, IInv, TypeOK
  <2>2. view'[c] = Nth(1)
    BY <1>7, RingFacts DEF peek_scratch, IInv, TypeOK, Nth
  <2>3. lentMap' = Nth(1)
    BY <2>1, <2>2 DEF lentMap, Viewing, Actors
  <2>4. queueMap # <<>> /\ Head(queueMap) = Nth(1)
    BY <1>4, QueueFacts, RingFacts
  <2> QED
    BY <1>2, <1>3, <1>5, <1>7, <2>3, <2>4 DEF Queue!Next, Queue!Lend
<1> QED
  BY <1>6, <1>7

\* The store of the cursor takes the chunk back.
LEMMA ReleaseImplements ==
  ASSUME IInv, NEW c \in Actors, release_cursor(c)
  PROVE  Queue!Next
<1> DEFINE shorter == Tail(queueMap)
<1>a. PICK u \in 1 .. N : u = Unread
  BY ReleasedChunk, RingFacts
<1>b. /\ Unread' = u - 1 /\ \A k \in 0 .. u - 1 : Nth(k)' = Nth(k + 1)
      /\ view[c] \in Chunks
  BY <1>a, ReleasedChunk
<1>c. /\ queueMap \in Seq(Chunks) /\ Len(queueMap) = u /\ queueMap # <<>>
      /\ \A k \in 1 .. u : queueMap[k] = Nth(k)
  BY <1>a, QueueFacts
<1>1. queueMap' = shorter
  <2>1. /\ shorter \in Seq(Chunks) /\ Len(shorter) = u - 1
        /\ \A k \in 1 .. u - 1 : shorter[k] = queueMap[k + 1]
    BY <1>c, HeadTailProperties
  <2> HIDE DEF shorter
  <2>2. shorter = [k \in 1 .. u - 1 |-> shorter[k]]
    BY <2>1, LenProperties
  <2>3. ASSUME NEW k \in 1 .. u - 1 PROVE shorter[k] = Nth(k)'
    <3>1. k \in 0 .. u - 1 /\ k + 1 \in 1 .. u
      OBVIOUS
    <3> QED
      BY <1>b, <1>c, <2>1, <3>1
  <2>4. \A k \in 1 .. u - 1 : Nth(k)' = meta'[At(k - 1)']
    BY DEF Nth
  <2>5. queueMap' = [k \in 1 .. u - 1 |-> meta'[At(k - 1)']]
    BY <1>b DEF queueMap
  <2> QED
    BY <2>2, <2>3, <2>4, <2>5
<1>2. lentMap # None
  <2>1. lentMap = view[c]
    BY LentFacts DEF release_cursor, Viewing
  <2> QED
    BY <1>b, <2>1, RingAssumption DEF Chunks, Offsets
<1>3. lentMap' = None
  <2>1. \A d \in Actors : pc'[d] # "lease"
    BY DEF release_cursor, Goto, IInv, TypeOK, LeaseHasOneOwner, Leasing
  <2> QED
    BY <2>1 DEF lentMap, Viewing, Actors
<1>4. tailMap' = tailMap /\ scratch_leased' = scratch_leased
  BY DEF release_cursor, producerVars, tailMap, ChunkOf
<1> QED
  BY <1>1, <1>2, <1>3, <1>4 DEF Queue!Next, Queue!Return

\* The payload memory is lent with nothing in the ring and given back.
LEMMA ScratchImplements ==
  ASSUME IInv, scratch_set \/ resume
  PROVE  Queue!Next
<1>1. UNCHANGED <<producerVars, consumerVars, meta>>
  BY DEF scratch_set, resume
<1>2. /\ pc["source"] \in {"scratch_set", "held"}
      /\ pc'["source"] \in {"scratch_drop", "idle"}
      /\ pc'["http"] = pc["http"]
  BY DEF scratch_set, resume, Goto, IInv, TypeOK, Actors
<1>3. Queued = 0 /\ ~active
  BY <1>2 DEF IInv, EmptyInv, ClosedInv
<1>4. Gap' <=> Gap
  BY <1>2 DEF Gap, Actors
<1>5. queueMap' = queueMap
  BY <1>1, <1>4 DEF queueMap, Unread, Minus, At, producerVars, consumerVars
<1>6. lentMap' = lentMap
  BY <1>1, <1>2 DEF lentMap, Viewing, consumerVars
<1>7. tailMap' = tailMap /\ tailMap = None
  BY <1>1, <1>3 DEF tailMap, producerVars
<1>8. CASE scratch_set
  <2>1. queueMap = <<>>
    BY <1>3, QueueFacts, RingFacts
  <2>2. lentMap = None
    BY <1>3, LentFacts DEF Viewing, IInv, ReaderInv, ReaderAt
  <2>3. ~scratch_leased /\ scratch_leased'
    BY <1>8 DEF scratch_set, IInv, EmptyInv
  <2>4. scratch_leased' = TRUE
    BY <1>8 DEF scratch_set
  <2> QED
    BY <1>5, <1>6, <1>7, <2>1, <2>2, <2>3, <2>4 DEF Queue!Next, Queue!Borrow
<1>9. CASE resume
  <2>1. scratch_leased /\ scratch_leased' = FALSE
    BY <1>9 DEF resume, IInv, EmptyInv
  <2> QED
    BY <1>5, <1>6, <1>7, <2>1 DEF Queue!Next, Queue!GiveBack
<1> QED
  BY <1>8, <1>9

\* The ring is a queue of immutable chunks: whatever the number of slots, the
\* frame length, the width of the counters and the interleaving of commits,
\* leases, releases, aborts, drains and pauses, its users see a bounded queue
\* that grows by the chunks of one frame at a time, is read from its head, and
\* is empty, with nobody reading, when the memory is lent out.
THEOREM RingIsAChunkQueue == Spec => ImplementsChunkQueue
<1>1. Init => Queue!Init
  <2> SUFFICES ASSUME Init PROVE Queue!Init
    OBVIOUS
  <2>1. IInv
    BY InitInductive
  <2>2. Queued = 0 /\ (\A c \in Actors : ~Viewing(c)) /\ ~active
    BY DEF Init, Queued, Minus, Viewing
  <2>3. queueMap = <<>>
    BY <2>1, <2>2, QueueFacts, RingFacts
  <2>4. lentMap = None /\ tailMap = None
    BY <2>1, <2>2, LentFacts DEF tailMap
  <2> QED
    BY <2>3, <2>4 DEF Init, Queue!Init
<1>2. IInv /\ OrderInv /\ [Next]_vars => [Queue!Next]_(Queue!cvars)
  <2> SUFFICES ASSUME IInv, OrderInv, [Next]_vars
               PROVE  [Queue!Next]_(Queue!cvars)
    OBVIOUS
  <2>1. CASE commit_publish
    BY <2>1, PublishImplements
  <2>2. CASE \E c \in Actors : release_cursor(c)
    BY <2>2, ReleaseImplements
  <2>3. CASE \E c \in Actors : peek_scratch(c)
    BY <2>3, PeekImplements
  <2>4. CASE scratch_set \/ resume
    BY <2>4, ScratchImplements
  <2>5. CASE /\ ~commit_publish /\ ~scratch_set /\ ~resume
             /\ \A c \in Actors : ~peek_scratch(c) /\ ~release_cursor(c)
    <3>1. Quiet
      BY <2>5, QuietSteps
    <3>2. /\ view' = view /\ scratch_leased' = scratch_leased
          /\ \A c \in Actors : Viewing(c)' <=> Viewing(c)
      BY <2>5, ReadingKept
    <3>3. \/ ~active'
          \/ active /\ UNCHANGED <<active, frame_sequence, frame_offset>>
          \/ ~active /\ frame_offset' = 0
      <4>1. active \in BOOLEAN /\ active' \in BOOLEAN
        BY NextInductive DEF IInv, TypeOK
      <4>2. pc["source"] = "begin" => ~active
        BY DEF IInv, ClosedInv
      <4> QED
        BY <2>5, <4>1, <4>2, FrameKept
    <3> QED
      BY <3>1, <3>2, <3>3, QuietImplements
  <2> QED
    BY <2>1, <2>2, <2>3, <2>4, <2>5
<1> QED
  BY <1>1, <1>2, InitInductive, NextInductive, OrderInvInit, OrderInvStep, PTL
  DEF Spec, ImplementsChunkQueue, Queue!Spec
=============================================================================
