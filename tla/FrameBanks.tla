------------------------------ MODULE FrameBanks ------------------------------
(***************************************************************************)
(* The whole-frame banks of the 256 profile on two cores                   *)
(* (firmware/Common/Raw16/t384_frame_pipeline_full.c, lines 203-408): the  *)
(* DVP interrupt ("source") fills a free bank and publishes it only when   *)
(* the frame is complete; the HTTP loop ("http") reads the older published *)
(* bank chunk by chunk.  To borrow the memory for a module transaction the *)
(* main task of the source stops the interrupt, becomes a consumer, and    *)
(* takes every bank one compare-and-swap after the other                   *)
(* (t384_frame_source_mini2.c, lines 1600-1653).                           *)
(*                                                                         *)
(* Each step reads or writes at most one word the other actor writes.      *)
(***************************************************************************)
EXTENDS Integers, Sequences

CONSTANTS
  B,       \* T384_FRAME_BANKS
  F,       \* chunks of one frame
  W,       \* frame sequence numbers are words modulo W (2^32 in the code)
  MaxLag,  \* bound: a queued frame is never this many frames old, see begin_frame
  None     \* no chunk, no bank

Banks == 0 .. B - 1
Offsets == 0 .. F - 1
Words == 0 .. W - 1
Actors == {"http", "source"}
\* The chunk a consumer got from peek: where it lies and what it is.
Views == [bank : Banks, seq : Words, off : Offsets]

ASSUME BankAssumption ==
  /\ B \in Nat \ {0}
  /\ F \in Nat \ {0}
  /\ W \in Nat
  /\ MaxLag \in Nat \ {0}
  /\ 2 * MaxLag < W
  /\ None \notin Views \cup Banks
  /\ None \notin [seq : Words, off : Offsets]

VARIABLES
  state, frame_sequence, write_offset, read_offset, write_leased, \* per bank
  producer_bank, consumer_bank, read_leased,
  sequence,   \* number of the physical frame the camera is sending
  copied,     \* chunks of each bank copied from its frame; the rest of it is stale
  pc, index, selected, view, \* where each actor is, its loop variables and chunk
  drained,    \* loop counter of the pause
  order,      \* history: published banks not yet fully read, oldest first
  fresh       \* history: a frame was published during the present bank scan

bankVars == <<frame_sequence, write_offset, write_leased, producer_bank,
              sequence, copied>>
readVars == <<read_offset, consumer_bank, read_leased>>
callVars == <<index, selected, view, drained>>
vars == <<state, bankVars, readVars, pc, callVars, order, fresh>>

Incr_OneLate(x) == IF x = W THEN 0 ELSE x + 1
Incr(x) == IF x + 1 = W THEN 0 ELSE x + 1
Minus(a, b) == IF a >= b THEN a - b ELSE a - b + W

Older_Unsigned(a, b) == a < b
\* (int32_t)(a - b) < 0
Older(a, b) == 2 * Minus(a, b) >= W

Goto(c, label) == pc' = [pc EXCEPT ![c] = label]
SetState(b, s) == state' = [state EXCEPT ![b] = s]
\* One more turn of an actor's loop over the banks; after the last, go on.
Turn(c, label) ==
  IF index[c] + 1 = B
    THEN Goto(c, label) /\ index' = [index EXCEPT ![c] = 0]
    ELSE index' = [index EXCEPT ![c] = @ + 1] /\ UNCHANGED pc
Leave(c, label) == Goto(c, label) /\ index' = [index EXCEPT ![c] = 0]

\* Mistaken variants of operations end in a mark that says what is wrong in
\* them: each is a bug the properties below must catch.
CanFill(b) == state[b] = "FREE"
CanBorrow_Ready(b) == state[b] \in {"FREE", "READY"}
CanBorrow(b) == state[b] = "FREE"
Taken_OneFar(i) == i
Taken(i) == i - 1
LeaseTaken_Unread == FALSE
LeaseTaken == read_leased
DropLease_Skipped == UNCHANGED read_leased
DropLease == read_leased' = FALSE

Init ==
  /\ state = [b \in Banks |-> "FREE"]
  /\ frame_sequence = [b \in Banks |-> 0]
  /\ write_offset = [b \in Banks |-> 0]
  /\ read_offset = [b \in Banks |-> 0]
  /\ write_leased = [b \in Banks |-> FALSE]
  /\ producer_bank = 0 /\ consumer_bank = 0 /\ read_leased = FALSE
  /\ sequence \in Words
  /\ copied = [b \in Banks |-> {}]
  /\ pc = [c \in Actors |-> "idle"]
  /\ index = [c \in Actors |-> 0]
  /\ selected = [c \in Actors |-> None]
  /\ view = [c \in Actors |-> None]
  /\ drained = 0
  /\ order = <<>> /\ fresh = FALSE

-----------------------------------------------------------------------------
(* The producer: the DVP interrupt, one call at a time.                     *)

\* abort_frame: only a bank that is being filled is given up.
AbortEffect ==
  LET b == producer_bank
  IN  IF state[b] = "FILLING"
        THEN /\ SetState(b, "FREE")
             /\ write_leased' = [write_leased EXCEPT ![b] = FALSE]
             /\ write_offset' = [write_offset EXCEPT ![b] = 0]
        ELSE UNCHANGED <<state, write_leased, write_offset>>

abort_frame ==
  /\ pc["source"] = "idle"
  /\ AbortEffect
  /\ UNCHANGED <<frame_sequence, producer_bank, sequence, copied, readVars, pc,
                 callVars, order, fresh>>

\* begin_frame for the next physical frame.  The guard on MaxLag bounds how
\* many frames the camera sends while one stays queued: 2^31 in the code.
begin_frame(badMode) ==
  /\ pc["source"] = "idle"
  /\ \A b \in Banks : state[b] \in {"READY", "READING"}
                        => Minus(sequence, frame_sequence[b]) < MaxLag
  /\ sequence' = Incr(sequence)
  /\ IF badMode \/ state[producer_bank] = "FILLING"
       THEN AbortEffect /\ UNCHANGED pc
       ELSE /\ Goto("source", "begin")
            /\ UNCHANGED <<state, write_leased, write_offset>>
  /\ UNCHANGED <<frame_sequence, producer_bank, copied, readVars, callVars,
                 order, fresh>>

\* Its loop: the first free bank is taken; with none the frame is skipped.
begin_try ==
  LET b == index["source"]
  IN  /\ pc["source"] = "begin"
      /\ IF CanFill(b)
           THEN /\ SetState(b, "FILLING")
                /\ Leave("source", "idle")
                /\ producer_bank' = b
                /\ frame_sequence' = [frame_sequence EXCEPT ![b] = sequence]
                /\ write_offset' = [write_offset EXCEPT ![b] = 0]
                /\ read_offset' = [read_offset EXCEPT ![b] = 0]
                /\ write_leased' = [write_leased EXCEPT ![b] = FALSE]
                /\ copied' = [copied EXCEPT ![b] = {}]
           ELSE /\ Turn("source", "idle")
                /\ UNCHANGED <<state, producer_bank, frame_sequence, copied,
                               write_offset, read_offset, write_leased>>
      /\ UNCHANGED <<sequence, consumer_bank, read_leased, selected,
                     view, drained, order, fresh>>

acquire_write ==
  /\ pc["source"] = "idle"
  /\ IF /\ state[producer_bank] = "FILLING"
        /\ ~write_leased[producer_bank]
        /\ write_offset[producer_bank] < F
       THEN /\ write_leased' = [write_leased EXCEPT ![producer_bank] = TRUE]
            /\ UNCHANGED <<state, write_offset>>
       ELSE AbortEffect
  /\ UNCHANGED <<frame_sequence, producer_bank, sequence, copied, readVars, pc,
                 callVars, order, fresh>>

\* The interrupt copies a chunk to where acquire_write told it.
copy_dma_block ==
  /\ pc["source"] = "idle"
  /\ state[producer_bank] = "FILLING" /\ write_leased[producer_bank]
  /\ copied' = [copied EXCEPT ![producer_bank] = @ \cup {write_offset[producer_bank]}]
  /\ UNCHANGED <<state, frame_sequence, write_offset, write_leased,
                 producer_bank, sequence, readVars, pc, callVars, order, fresh>>

Scanning == \E c \in Actors : pc[c] = "scan"

\* commit_write.  The interrupt commits only what it has copied, and a bank is
\* published only with its last chunk.  A frame takes far longer than a scan of
\* the banks, so that at most one is published during a scan (bound: fresh).
commit_write(badLength, end) ==
  LET b == producer_bank
      o == write_offset[b]
  IN  /\ pc["source"] = "idle"
      /\ IF ~badLength /\ state[b] = "FILLING" /\ write_leased[b] /\ end = (o + 1 = F)
           THEN /\ o \in copied[b]
                /\ end => ~(fresh /\ Scanning)
                /\ write_offset' = [write_offset EXCEPT ![b] = o + 1]
                /\ write_leased' = [write_leased EXCEPT ![b] = FALSE]
                /\ IF end THEN SetState(b, "READY") /\ order' = Append(order, b)
                          ELSE UNCHANGED <<state, order>>
                /\ fresh' = (fresh \/ end)
           ELSE AbortEffect /\ UNCHANGED <<order, fresh>>
      /\ UNCHANGED <<frame_sequence, producer_bank, sequence, copied, readVars,
                     pc, callVars>>

Producer ==
  \/ abort_frame \/ begin_try \/ acquire_write \/ copy_dma_block
  \/ \E bad \in BOOLEAN : begin_frame(bad)
  \/ \E bad, end \in BOOLEAN : commit_write(bad, end)

-----------------------------------------------------------------------------
(* The consumer: the HTTP loop, and the source while it pauses the capture. *)

AfterMiss_Retry(c) == IF c = "http" THEN "idle" ELSE "peek"
AfterMiss(c) == IF c = "http" THEN "idle" ELSE "scratch"
AfterRelease(c) == IF c = "http" THEN "idle"
                   ELSE IF drained + 1 = B * F THEN "scratch" ELSE "peek"

ViewOf(b) == [bank |-> b, seq |-> frame_sequence[b], off |-> read_offset[b]]

\* peek: the compare-and-swap on the read lease.
peek_cas(c) ==
  /\ pc[c] = IF c = "http" THEN "idle" ELSE "peek"
  /\ Goto(c, IF LeaseTaken THEN AfterMiss(c) ELSE "select")
  /\ read_leased' = TRUE
  /\ UNCHANGED <<state, bankVars, read_offset, consumer_bank, callVars, order,
                 fresh>>

\* A bank already being read is continued; otherwise the banks are scanned.
peek_select(c) ==
  /\ pc[c] = "select"
  /\ IF state[consumer_bank] = "READING"
       THEN /\ Goto(c, "lease")
            /\ view' = [view EXCEPT ![c] = ViewOf(consumer_bank)]
            /\ UNCHANGED fresh
       ELSE /\ Goto(c, "scan")
            /\ fresh' = FALSE
            /\ UNCHANGED view
  /\ UNCHANGED <<state, bankVars, readVars, index, selected, drained, order>>

\* One bank of the scan for the oldest ready frame.
peek_scan(c) ==
  LET b == index[c]
      s == selected[c]
  IN  /\ pc[c] = "scan"
      /\ selected' = [selected EXCEPT ![c] =
           IF /\ state[b] = "READY"
              /\ s = None \/ Older(frame_sequence[b], frame_sequence[s])
             THEN b ELSE s]
      /\ Turn(c, "take")
      /\ UNCHANGED <<state, bankVars, readVars, view, drained, order, fresh>>

peek_take(c) ==
  LET b == selected[c]
  IN  /\ pc[c] = "take"
      /\ selected' = [selected EXCEPT ![c] = None]
      /\ IF b = None
           THEN /\ Goto(c, AfterMiss(c))
                /\ DropLease
                /\ UNCHANGED <<consumer_bank, state, view>>
           ELSE /\ Goto(c, "lease")
                /\ consumer_bank' = b
                /\ SetState(b, "READING")
                /\ view' = [view EXCEPT ![c] = ViewOf(b)]
                /\ UNCHANGED read_leased
      /\ UNCHANGED <<bankVars, read_offset, index, drained, order, fresh>>

\* release: the read position, then the bank when it is used up, then the lease.
release(c) ==
  LET b == consumer_bank
      done == read_offset[b] + 1 = F
  IN  /\ pc[c] = "lease"
      /\ read_offset' = [read_offset EXCEPT ![b] = @ + 1]
      /\ view' = [view EXCEPT ![c] = None]
      /\ Goto(c, IF done THEN "release_bank" ELSE "release_lease")
      /\ order' = IF done THEN Tail(order) ELSE order
      /\ UNCHANGED <<state, bankVars, consumer_bank, read_leased, index,
                     selected, drained, fresh>>

release_bank(c) ==
  /\ pc[c] = "release_bank"
  /\ SetState(consumer_bank, "FREE")
  /\ Goto(c, "release_lease")
  /\ UNCHANGED <<bankVars, readVars, callVars, order, fresh>>

release_lease(c) ==
  /\ pc[c] = "release_lease"
  /\ DropLease
  /\ Goto(c, AfterRelease(c))
  /\ drained' = IF c = "source" THEN drained + 1 ELSE drained
  /\ UNCHANGED <<state, bankVars, read_offset, consumer_bank, index, selected,
                 view, order, fresh>>

Consumer(c) ==
  \/ peek_cas(c) \/ peek_select(c) \/ peek_scan(c) \/ peek_take(c)
  \/ release(c) \/ release_bank(c) \/ release_lease(c)

-----------------------------------------------------------------------------
(* The capture pause of the source's main task.                             *)

\* The interrupt is disabled and the open frame aborted, then the queue drained.
pause ==
  /\ pc["source"] = "idle"
  /\ AbortEffect
  /\ Goto("source", "peek")
  /\ drained' = 0
  /\ UNCHANGED <<frame_sequence, producer_bank, sequence, copied, readVars,
                 index, selected, view, order, fresh>>

scratch_acquire ==
  LET b == index["source"]
  IN  /\ pc["source"] = "scratch"
      /\ IF CanBorrow(b)
           THEN SetState(b, "SCRATCH") /\ Turn("source", "held")
           ELSE Goto("source", "rollback") /\ UNCHANGED <<state, index>>
      /\ UNCHANGED <<bankVars, readVars, selected, view, drained, order, fresh>>

\* The banks taken before the one that was not free are given back.
rollback ==
  LET i == index["source"]
  IN  /\ pc["source"] = "rollback"
      /\ IF i = 0 THEN Goto("source", "idle") /\ UNCHANGED <<state, index>>
                  ELSE /\ SetState(Taken(i), "FREE")
                       /\ index' = [index EXCEPT !["source"] = i - 1]
                       /\ UNCHANGED pc
      /\ UNCHANGED <<bankVars, readVars, selected, view, drained, order, fresh>>

\* The transaction writes anywhere in the banks while it holds them.
scratch_write(b) ==
  /\ pc["source"] = "held"
  /\ copied' = [copied EXCEPT ![b] = {}]
  /\ UNCHANGED <<state, frame_sequence, write_offset, write_leased,
                 producer_bank, sequence, readVars, pc, callVars, order, fresh>>

resume ==
  /\ pc["source"] = "held"
  /\ Goto("source", "resume")
  /\ UNCHANGED <<state, bankVars, readVars, callVars, order, fresh>>

\* resume gives the banks back one store after the other.
scratch_release ==
  LET b == index["source"]
  IN  /\ pc["source"] = "resume"
      /\ IF state[b] = "SCRATCH" THEN SetState(b, "FREE") ELSE UNCHANGED state
      /\ Turn("source", "idle")
      /\ UNCHANGED <<bankVars, readVars, selected, view, drained, order, fresh>>

Pause ==
  \/ pause \/ scratch_acquire \/ rollback \/ resume \/ scratch_release
  \/ \E b \in Banks : scratch_write(b)

Next == Producer \/ Pause \/ \E c \in Actors : Consumer(c)

\* Inside a call an actor keeps running, and the HTTP loop reads as long as
\* there is a client; nothing obliges the source to start or finish a frame.
Fairness ==
  /\ WF_vars(Consumer("http"))
  /\ WF_vars(begin_try)
  /\ WF_vars(Consumer("source") \/ scratch_acquire \/ rollback \/ scratch_release)

Spec == Init /\ [][Next]_vars
FairSpec == Spec /\ Fairness

-----------------------------------------------------------------------------
(* Properties.                                                              *)

ConsumerLabels == {"idle", "select", "scan", "take", "lease", "release_bank",
                   "release_lease"}
SourceLabels == {"begin", "peek", "scratch", "rollback", "held", "resume"}

BankTypeOK ==
  /\ state \in [Banks -> {"FREE", "FILLING", "READY", "READING", "SCRATCH"}]
  /\ frame_sequence \in [Banks -> Words]
  /\ write_offset \in [Banks -> 0 .. F] /\ read_offset \in [Banks -> 0 .. F]
  /\ write_leased \in [Banks -> BOOLEAN]
  /\ producer_bank \in Banks /\ consumer_bank \in Banks
  /\ read_leased \in BOOLEAN /\ sequence \in Words
  /\ copied \in [Banks -> SUBSET Offsets]

ActorTypeOK ==
  /\ pc \in [Actors -> ConsumerLabels \cup SourceLabels]
  /\ pc["http"] \in ConsumerLabels
  /\ index \in [Actors -> Banks]
  /\ selected \in [Actors -> Banks \cup {None}]
  /\ view \in [Actors -> Views \cup {None}]
  /\ drained \in 0 .. B * F

\* Every variable keeps its type.
TypeOK == BankTypeOK /\ ActorTypeOK /\ order \in Seq(Banks) /\ fresh \in BOOLEAN

\* While a consumer reads a chunk, its bank holds the frame the chunk was
\* announced with: neither the producer, nor another consumer's release, nor a
\* module transaction or its roll-back, takes the bank away.
LentChunkIntact ==
  \A c \in Actors : view[c] # None =>
    /\ state[view[c].bank] = "READING"
    /\ frame_sequence[view[c].bank] = view[c].seq
    /\ view[c].off \in copied[view[c].bank]

\* A bank another actor may read is complete: no chunk of it is missing,
\* stale, or of a different frame.
PublishedIsWhole ==
  \A b \in Banks : state[b] \in {"READY", "READING"} => copied[b] = Offsets

\* A module transaction has the banks to itself, and when it could not have
\* them all it keeps none.
ScratchExclusive ==
  /\ pc["source"] = "held" =>
       /\ \A b \in Banks : state[b] = "SCRATCH"
       /\ \A c \in Actors : view[c] = None
  /\ pc["source"] \notin {"scratch", "rollback", "held", "resume"} =>
       \A b \in Banks : state[b] # "SCRATCH"

\* What the banks hold, as the abstract queue of whole frames sees it: the frames
\* published and not yet read to their end,
framesMap == [i \in 1 .. Len(order) |-> frame_sequence[order[i]]]
\* how far the oldest of them has been read,
positionMap == IF order = <<>> THEN 0 ELSE read_offset[order[1]]
\* the chunk of the consumer that is reading one,
Reading(c) == [seq |-> view[c].seq, off |-> view[c].off]
lentMap == IF view["http"] # None THEN Reading("http")
           ELSE IF view["source"] # None THEN Reading("source") ELSE None
\* and whether a module transaction has all the banks.
borrowedMap == \A b \in Banks : state[b] = "SCRATCH"

Queue == INSTANCE FrameQueue
           WITH Depth <- B, FrameIds <- Words, frames <- framesMap,
                position <- positionMap, lent <- lentMap,
                borrowed <- borrowedMap

\* The banks are a queue of whole frames: chunks are delivered in order, the
\* oldest frame first whatever the wrap of its number, none twice and none
\* skipped, and the memory is lent only when the queue is empty.
ImplementsFrameQueue == Queue!Spec

\* With a reader, every published frame is read to its end.
ImplementsFairQueue == Queue!FairSpec

\* A pause comes to an end, either holding the banks or capturing again.
PauseEnds == pc["source"] = "peek" ~> pc["source"] \in {"idle", "held"}
=============================================================================
