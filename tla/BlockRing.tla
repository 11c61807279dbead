------------------------------ MODULE BlockRing ------------------------------
(***************************************************************************)
(* The streaming block ring of the dual-core builds                        *)
(* (firmware/Common/Raw16/t384_frame_pipeline_full.c, lines 8-200): a ring *)
(* of N payload slots.  The "source" produces from the DVP interrupt of    *)
(* the V5F core, and its main task becomes a consumer while it pauses the  *)
(* capture to borrow the payload memory for a module file transaction      *)
(* (t384_frame_source_mini2.c, t384_module_file_port_pause and _resume).   *)
(* The "http" loop consumes.  It runs on the V3F core in one build, with   *)
(* the lease and counter words between the two cores, and in the main loop *)
(* of V5F in the other, where the interrupt may come between any two of    *)
(* its steps; the interleavings below contain those of both.               *)
(*                                                                         *)
(* A frame of F chunks need not fit the ring.  Each step performs at most  *)
(* one read or one read-modify-write of a word the other actor writes;     *)
(* words only one actor touches between two such accesses are updated in   *)
(* the same step.                                                          *)
(***************************************************************************)
EXTENDS Integers

CONSTANTS
  N,         \* T384_PIPELINE_SLOT_COUNT
  F,         \* chunks of one frame: FRAME_BYTES / CHUNK_BYTES
  W,         \* the free-running counters are words modulo W (2^32 in the code)
  Sequences, \* frame sequence numbers the source passes to begin_frame
  None       \* no chunk

ASSUME RingAssumption ==
  /\ N \in Nat \ {0}
  /\ F \in Nat \ {0}
  /\ W \in Nat
  /\ W > N
  /\ None \notin [seq : Sequences, off : 0 .. F - 1]
  /\ None \notin [seq : Sequences, off : 0 .. F - 1, start : BOOLEAN,
                 end : BOOLEAN]

VARIABLES
  committed, released,       \* R.committed, R.released
  producer_next, consumer_next,
  active, frame_sequence, frame_offset,
  write_leased, write_slot,
  read_leased, read_slot,
  scratch_leased,
  data,                      \* payload of each slot: the block copied into it
  meta,                      \* ring_slot_t of each slot
  view,                      \* the chunk each actor got from peek, until released
  pc,                        \* where each actor is
  drained,                   \* loop counter of the pause
  last                       \* history: the chunk most recently released

vars == <<committed, released, producer_next, consumer_next, active,
          frame_sequence, frame_offset, write_leased, write_slot, read_leased,
          read_slot, scratch_leased, data, meta, view, pc, drained, last>>

producerVars == <<committed, producer_next, active, frame_sequence,
                  frame_offset, write_leased, write_slot>>
consumerVars == <<released, consumer_next, read_slot, view, last>>

Slots == 0 .. N - 1
Offsets == 0 .. F - 1
Words == 0 .. W - 1
Actors == {"http", "source"}

\* A block of pixels: which frame it belongs to and its place in it.
Blocks == [seq : Sequences, off : Offsets]
\* The metadata of a published chunk, with its START and END flags.
Chunks == [seq : Sequences, off : Offsets, start : BOOLEAN, end : BOOLEAN]

-----------------------------------------------------------------------------
(* Word and slot arithmetic.                                                *)

\* Mistaken variants of operations end in a mark that says what is wrong in them:
\* each is a bug the properties below must catch.
next_slot_OneLate(s) == IF s = N THEN 0 ELSE s + 1
next_slot(s) == IF s + 1 = N THEN 0 ELSE s + 1
Incr(x) == IF x + 1 = W THEN 0 ELSE x + 1
Minus_Saturating(a, b) == IF a >= b THEN a - b ELSE 0
Minus(a, b) == IF a >= b THEN a - b ELSE a - b + W

queued_chunks_ClampedShort == LET count == Minus(committed, released)
                              IN  IF count > N - 1 THEN N - 1 ELSE count
\* Chunks committed and not yet released; the code clamps it to N.
queued_chunks == LET count == Minus(committed, released)
                 IN  IF count > N THEN N ELSE count

Init ==
  /\ committed = 0 /\ released = 0
  /\ producer_next = 0 /\ consumer_next = 0
  /\ active = FALSE /\ frame_sequence \in Sequences /\ frame_offset = 0
  /\ write_leased = FALSE /\ write_slot = 0
  /\ read_leased = FALSE /\ read_slot = 0
  /\ scratch_leased = FALSE
  /\ data = [s \in Slots |-> None]
  /\ meta = [s \in Slots |-> None]
  /\ view = [c \in Actors |-> None]
  /\ pc = [c \in Actors |-> "idle"]
  /\ drained = 0
  /\ last = None

Goto(c, label) == pc' = [pc EXCEPT ![c] = label]

-----------------------------------------------------------------------------
(* The producer: the DVP interrupt, one call at a time.                     *)

\* abort_frame: chunks already published stay in the ring, without an END.
AbortEffect ==
  /\ active' = FALSE
  /\ IF active THEN write_leased' = FALSE /\ frame_offset' = 0
               ELSE UNCHANGED <<write_leased, frame_offset>>
  /\ UNCHANGED <<committed, producer_next, frame_sequence, write_slot>>

abort_frame ==
  /\ pc["source"] = "idle"
  /\ AbortEffect
  /\ UNCHANGED <<consumerVars, read_leased, scratch_leased, data, meta, pc,
                 drained>>

\* protocol_error: counted, then the open frame is aborted.
protocol_error ==
  /\ AbortEffect
  /\ UNCHANGED <<consumerVars, read_leased, scratch_leased, data, meta, pc,
                 drained>>

\* begin_frame up to its read of the counters: a frame is admitted only at an
\* empty boundary, and never while the payload memory is lent out.
begin_frame(badMode) ==
  /\ pc["source"] = "idle"
  /\ \/ /\ active \/ write_leased \/ badMode
        /\ protocol_error
     \/ /\ ~active /\ ~write_leased /\ ~badMode
        /\ ~scratch_leased
        /\ queued_chunks = 0
        /\ Goto("source", "begin")
        /\ UNCHANGED <<producerVars, consumerVars, read_leased, scratch_leased,
                       data, meta, drained>>

\* begin_frame after it: the read lease must be free too.
begin_admit(seq) ==
  /\ pc["source"] = "begin"
  /\ Goto("source", "idle")
  /\ \/ /\ read_leased
        /\ UNCHANGED <<active, frame_sequence, frame_offset>>
     \/ /\ ~read_leased
        /\ active' = TRUE
        /\ frame_sequence' = seq
        /\ frame_offset' = 0
  /\ UNCHANGED <<consumerVars, committed, producer_next, write_leased,
                 write_slot, read_leased, scratch_leased, data, meta, drained>>

acquire_write ==
  /\ pc["source"] = "idle"
  /\ \/ /\ ~active \/ write_leased
        /\ protocol_error
     \/ /\ active /\ ~write_leased
        /\ queued_chunks # N
        /\ write_slot' = producer_next
        /\ write_leased' = TRUE
        /\ UNCHANGED <<consumerVars, committed, producer_next, active,
                       frame_sequence, frame_offset, read_leased,
                       scratch_leased, data, meta, pc, drained>>

\* Mistake: the chunk pointer survives the commit that gave the slot away.
copy_dma_block_StalePointer ==
  /\ pc["source"] = "idle"
  /\ active
  /\ data' = [data EXCEPT ![write_slot] = [seq |-> frame_sequence,
                                           off |-> frame_offset]]
  /\ UNCHANGED <<producerVars, consumerVars, read_leased, scratch_leased, meta,
                 pc, drained>>

\* The interrupt copies the DMA block into the leased slot.
copy_dma_block ==
  /\ pc["source"] = "idle"
  /\ active /\ write_leased
  /\ data' = [data EXCEPT ![write_slot] = [seq |-> frame_sequence,
                                           off |-> frame_offset]]
  /\ UNCHANGED <<producerVars, consumerVars, read_leased, scratch_leased, meta,
                 pc, drained>>

\* commit_write, refused: no lease, a short chunk (badLength), or an END flag
\* that does not match the position.
commit_refused(badLength, end) ==
  /\ pc["source"] = "idle"
  /\ \/ ~active
     \/ ~write_leased
     \/ badLength
     \/ end # (frame_offset = F - 1)
  /\ protocol_error

\* Mistake: committed before the rows are copied.
commit_write_Early(end) ==
  /\ pc["source"] = "idle"
  /\ active /\ write_leased
  /\ end = (frame_offset = F - 1)
  /\ meta' = [meta EXCEPT ![write_slot] =
                [seq |-> frame_sequence, off |-> frame_offset,
                 start |-> (frame_offset = 0), end |-> end]]
  /\ Goto("source", "publish")
  /\ UNCHANGED <<producerVars, consumerVars, read_leased, scratch_leased, data,
                 drained>>

\* commit_write, first half: the metadata goes into the slot.  The interrupt
\* commits only a chunk whose rows have all been copied.
commit_write(end) ==
  /\ pc["source"] = "idle"
  /\ active /\ write_leased
  /\ end = (frame_offset = F - 1)
  /\ data[write_slot] = [seq |-> frame_sequence, off |-> frame_offset]
  /\ meta' = [meta EXCEPT ![write_slot] =
                [seq |-> frame_sequence, off |-> frame_offset,
                 start |-> (frame_offset = 0), end |-> end]]
  /\ Goto("source", "publish")
  /\ UNCHANGED <<producerVars, consumerVars, read_leased, scratch_leased, data,
                 drained>>

\* commit_write, second half: the counter store that makes the chunk visible.
commit_publish ==
  /\ pc["source"] = "publish"
  /\ LET end == frame_offset = F - 1 IN
       /\ frame_offset' = IF end THEN 0 ELSE frame_offset + 1
       /\ active' = ~end
  /\ write_leased' = FALSE
  /\ producer_next' = next_slot(producer_next)
  /\ committed' = Incr(committed)
  /\ Goto("source", "idle")
  /\ UNCHANGED <<consumerVars, frame_sequence, write_slot, read_leased,
                 scratch_leased, data, meta, drained>>

Producer ==
  \/ abort_frame
  \/ \E badMode \in BOOLEAN : begin_frame(badMode)
  \/ \E seq \in Sequences : begin_admit(seq)
  \/ acquire_write
  \/ copy_dma_block
  \/ \E badLength, end \in BOOLEAN : commit_refused(badLength, end)
  \/ \E end \in BOOLEAN : commit_write(end)
  \/ commit_publish

-----------------------------------------------------------------------------
(* The consumer: the HTTP loop, and the source while it pauses the capture. *)

AfterMiss_Retry(c) == IF c = "http" THEN "idle" ELSE "peek"
\* Where an actor continues after a peek that returned false.
AfterMiss(c) == IF c = "http" THEN "idle" ELSE "empty_queue"
\* Where an actor continues after a release.
AfterRelease(c) == IF c = "http" THEN "idle"
                   ELSE IF drained + 1 = N THEN "empty_queue" ELSE "peek"

peek_enter(c) ==
  /\ pc[c] = IF c = "http" THEN "idle" ELSE "peek"
  /\ Goto(c, IF scratch_leased THEN AfterMiss(c) ELSE "peek_cas")
  /\ UNCHANGED <<producerVars, consumerVars, read_leased, scratch_leased, data,
                 meta, drained>>

\* Mistake: the lease is stored without a compare.
peek_cas_Store(c) ==
  /\ pc[c] = "peek_cas"
  /\ Goto(c, "peek_queue")
  /\ read_leased' = TRUE
  /\ UNCHANGED <<producerVars, consumerVars, scratch_leased, data, meta,
                 drained>>

peek_cas(c) ==
  /\ pc[c] = "peek_cas"
  /\ Goto(c, IF read_leased THEN AfterMiss(c) ELSE "peek_queue")
  /\ read_leased' = TRUE
  /\ UNCHANGED <<producerVars, consumerVars, scratch_leased, data, meta,
                 drained>>

peek_queue(c) ==
  /\ pc[c] = "peek_queue"
  /\ Goto(c, IF queued_chunks = 0 THEN "peek_drop" ELSE "peek_scratch")
  /\ UNCHANGED <<producerVars, consumerVars, read_leased, scratch_leased, data,
                 meta, drained>>

peek_scratch(c) ==
  /\ pc[c] = "peek_scratch"
  /\ \/ /\ scratch_leased
        /\ Goto(c, "peek_drop")
        /\ UNCHANGED <<read_slot, view>>
     \/ /\ ~scratch_leased
        /\ Goto(c, "lease")
        /\ read_slot' = consumer_next
        /\ view' = [view EXCEPT ![c] = meta[consumer_next]]
  /\ UNCHANGED <<producerVars, released, consumer_next, last, read_leased,
                 scratch_leased, data, meta, drained>>

\* Mistake: the lease is kept when nothing was found.
peek_drop_Kept(c) ==
  /\ pc[c] = "peek_drop"
  /\ Goto(c, AfterMiss(c))
  /\ UNCHANGED <<producerVars, consumerVars, read_leased, scratch_leased, data,
                 meta, drained>>

peek_drop(c) ==
  /\ pc[c] = "peek_drop"
  /\ Goto(c, AfterMiss(c))
  /\ read_leased' = FALSE
  /\ UNCHANGED <<producerVars, consumerVars, scratch_leased, data, meta,
                 drained>>

\* release: cursor, then counter, then lease.
release_cursor(c) ==
  /\ pc[c] = "lease"
  /\ Goto(c, "release_count")
  /\ consumer_next' = next_slot(consumer_next)
  /\ last' = view[c]
  /\ view' = [view EXCEPT ![c] = None]
  /\ UNCHANGED <<producerVars, released, read_slot, read_leased,
                 scratch_leased, data, meta, drained>>

release_count(c) ==
  /\ pc[c] = "release_count"
  /\ Goto(c, "release_lease")
  /\ released' = Incr(released)
  /\ UNCHANGED <<producerVars, consumer_next, read_slot, view, last,
                 read_leased, scratch_leased, data, meta, drained>>

release_lease(c) ==
  /\ pc[c] = "release_lease"
  /\ Goto(c, AfterRelease(c))
  /\ drained' = IF c = "source" THEN drained + 1 ELSE drained
  /\ read_leased' = FALSE
  /\ UNCHANGED <<producerVars, consumerVars, scratch_leased, data, meta>>

Consumer(c) ==
  \/ peek_enter(c) \/ peek_cas(c) \/ peek_queue(c) \/ peek_scratch(c)
  \/ peek_drop(c)
  \/ release_cursor(c) \/ release_count(c) \/ release_lease(c)

-----------------------------------------------------------------------------
(* The source's main task: pause the capture, borrow the memory, resume.    *)

\* The DVP interrupt is disabled, then the open frame is aborted.
pause ==
  /\ pc["source"] = "idle"
  /\ AbortEffect
  /\ drained' = 0
  /\ Goto("source", "peek")
  /\ UNCHANGED <<consumerVars, read_leased, scratch_leased, data, meta>>

\* Mistake: chunks still queued are not looked at.
empty_queue_Unread ==
  /\ pc["source"] = "empty_queue"
  /\ Goto("source", IF ~active /\ ~write_leased THEN "empty_lease" ELSE "idle")
  /\ UNCHANGED <<producerVars, consumerVars, read_leased, scratch_leased, data,
                 meta, drained>>

\* scratch_acquire calls empty(): first the counters ...
empty_queue ==
  /\ pc["source"] = "empty_queue"
  /\ Goto("source", IF queued_chunks = 0 /\ ~active /\ ~write_leased
                 THEN "empty_lease" ELSE "idle")
  /\ UNCHANGED <<producerVars, consumerVars, read_leased, scratch_leased, data,
                 meta, drained>>

\* ... then the read lease.  A refused pause turns the capture on again.
empty_lease ==
  /\ pc["source"] = "empty_lease"
  /\ Goto("source", IF ~read_leased /\ ~scratch_leased THEN "scratch_cas"
                                                     ELSE "idle")
  /\ UNCHANGED <<producerVars, consumerVars, read_leased, scratch_leased, data,
                 meta, drained>>

\* Mistake: the lease is stored without a compare.
scratch_cas_Store ==
  /\ pc["source"] = "scratch_cas"
  /\ Goto("source", "scratch_set")
  /\ read_leased' = TRUE
  /\ UNCHANGED <<producerVars, consumerVars, scratch_leased, data, meta,
                 drained>>

scratch_cas ==
  /\ pc["source"] = "scratch_cas"
  /\ Goto("source", IF read_leased THEN "idle" ELSE "scratch_set")
  /\ read_leased' = TRUE
  /\ UNCHANGED <<producerVars, consumerVars, scratch_leased, data, meta,
                 drained>>

scratch_set ==
  /\ pc["source"] = "scratch_set"
  /\ Goto("source", "scratch_drop")
  /\ scratch_leased' = TRUE
  /\ UNCHANGED <<producerVars, consumerVars, read_leased, data, meta, drained>>

scratch_drop ==
  /\ pc["source"] = "scratch_drop"
  /\ Goto("source", "held")
  /\ read_leased' = FALSE
  /\ UNCHANGED <<producerVars, consumerVars, scratch_leased, data, meta,
                 drained>>

\* While the scratch is held the transaction writes module bytes over any slot.
scratch_write(s) ==
  /\ pc["source"] = "held"
  /\ data' = [data EXCEPT ![s] = None]
  /\ UNCHANGED <<producerVars, consumerVars, read_leased, scratch_leased, meta,
                 pc, drained>>

\* resume: the scratch is returned and the interrupt enabled.
resume ==
  /\ pc["source"] = "held"
  /\ Goto("source", "idle")
  /\ scratch_leased' = FALSE
  /\ UNCHANGED <<producerVars, consumerVars, read_leased, data, meta, drained>>

Pause ==
  \/ pause \/ empty_queue \/ empty_lease \/ scratch_cas \/ scratch_set
  \/ scratch_drop \/ resume
  \/ \E s \in Slots : scratch_write(s)

Next == Producer \/ Pause \/ \E c \in Actors : Consumer(c)

\* Inside a call an actor keeps running.  The HTTP loop polls the ring forever
\* and gives a lease back within the stream's stall timeout; nothing obliges
\* the source to start a frame or the host to ask for a file.
Fairness ==
  /\ WF_vars(Consumer("http"))
  /\ WF_vars(commit_publish \/ \E seq \in Sequences : begin_admit(seq))
  /\ WF_vars(Consumer("source") \/ empty_queue \/ empty_lease \/ scratch_cas
             \/ scratch_set \/ scratch_drop)

Spec == Init /\ [][Next]_vars
FairSpec == Spec /\ Fairness

-----------------------------------------------------------------------------
(* Derived notions.                                                         *)

\* An actor that has taken the read lease and not yet given it back.
Leasing(c) ==
  pc[c] \in {"peek_queue", "peek_scratch", "peek_drop", "lease",
             "release_count", "release_lease", "scratch_set", "scratch_drop"}

\* An actor that may be reading the payload its view points to.
Viewing(c) == pc[c] = "lease"

\* release has moved the cursor and not yet the counter.
Gap == \E c \in Actors : pc[c] = "release_count"

\* Chunks between the consumer's cursor and the producer's.
Unread == IF Gap THEN Minus(committed, released) - 1
                 ELSE Minus(committed, released)

\* The slot k places after the consumer's cursor.
At(k) == IF consumer_next + k >= N THEN consumer_next + k - N
                                   ELSE consumer_next + k

\* The chunk a block must be published as.
ChunkOf(b) == [seq |-> b.seq, off |-> b.off, start |-> (b.off = 0),
               end |-> (b.off = F - 1)]

-----------------------------------------------------------------------------
(* Properties.                                                              *)

ConsumerLabels ==
  {"idle", "peek_cas", "peek_queue", "peek_scratch", "peek_drop", "lease",
   "release_count", "release_lease"}
SourceLabels ==
  {"begin", "publish", "peek", "empty_queue", "empty_lease", "scratch_cas",
   "scratch_set", "scratch_drop", "held"}

\* Every word of the ring keeps its type: cursors stay slots and counters wrap.
TypeOK ==
  /\ committed \in Words /\ released \in Words
  /\ producer_next \in Slots /\ consumer_next \in Slots
  /\ active \in BOOLEAN
  /\ frame_sequence \in Sequences /\ frame_offset \in Offsets
  /\ write_leased \in BOOLEAN /\ write_slot \in Slots
  /\ read_leased \in BOOLEAN /\ read_slot \in Slots
  /\ scratch_leased \in BOOLEAN
  /\ data \in [Slots -> Blocks \cup {None}]
  /\ meta \in [Slots -> Chunks \cup {None}]
  /\ view \in [Actors -> Chunks \cup {None}]
  /\ pc \in [Actors -> ConsumerLabels \cup SourceLabels]
  /\ pc["http"] \in ConsumerLabels
  /\ drained \in 0 .. N
  /\ last \in Chunks \cup {None}

\* The two free-running counters never drift from the two cursors, whatever
\* the interleaving of commits, releases by either actor and counter wraps:
\* the clamp in queued_chunks never acts.
CountersMatchCursors ==
  /\ Minus(committed, released) <= N
  /\ producer_next = At(Unread)

\* The producer never holds a slot that is queued or that a consumer is still
\* reading, although a release frees the cursor before the counter.
WriteLeaseIsFresh ==
  write_leased =>
    /\ Minus(committed, released) < N
    /\ \A k \in 0 .. Unread - 1 : write_slot # At(k)
    /\ \A c \in Actors : Viewing(c) => write_slot # read_slot

\* From peek to the store that releases the slot, the view a consumer got
\* matches the payload in the slot: no publication, abort, drain or module
\* transaction touches bytes being sent.
LeasedChunkIntact ==
  \A c \in Actors : Viewing(c) =>
    /\ view[c] # None
    /\ meta[read_slot] = view[c]
    /\ data[read_slot] # None
    /\ view[c] = ChunkOf(data[read_slot])

\* While the payload memory is lent to a module transaction nothing is queued,
\* no frame is open and nobody is reading a slot.
ScratchExclusive ==
  scratch_leased => /\ queued_chunks = 0
                    /\ ~active /\ ~write_leased
                    /\ \A c \in Actors : ~Viewing(c)

\* The read lease word is held by exactly the actor that took it.
LeaseHasOneOwner ==
  /\ read_leased <=> \E c \in Actors : Leasing(c)
  /\ \A c, d \in Actors : Leasing(c) /\ Leasing(d) => c = d

\* Consumers receive every frame as a gapless prefix: a chunk is the START of
\* a frame or the direct continuation of the chunk released before it.
Follows(previous, chunk) ==
  /\ chunk # None
  /\ \/ chunk.start
     \/ /\ previous # None
        /\ ~previous.end
        /\ chunk.seq = previous.seq
        /\ chunk.off = previous.off + 1

DeliveryIsGapless ==
  [][\A c \in Actors : (pc[c] = "peek_scratch" /\ pc'[c] = "lease")
        => Follows(last, view'[c])]_vars

\* Every queued slot still holds the block and the metadata it was committed
\* with, until its chunk is released.
QueueHoldsWhatWasCommitted ==
  \A k \in 0 .. Unread - 1 :
    /\ data[At(k)] # None
    /\ meta[At(k)] = ChunkOf(data[At(k)])

\* Everything published is released: no interleaving of leases, aborts and
\* pauses leaves chunks stuck in the ring.
QueueDrains == queued_chunks > 0 ~> queued_chunks = 0

\* A pause comes to an end, either holding the scratch or capturing again.
PauseEnds == pc["source"] = "peek" ~> pc["source"] \in {"idle", "held"}
=============================================================================
