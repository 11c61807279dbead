------------------------------ MODULE DvpCapture ------------------------------
(***************************************************************************)
(* The capture of the MINI2 module's frames (t384_frame_source_mini2.c):   *)
(* the DVP receiver writes blocks of rows to two banks in turn and raises  *)
(* flags; the interrupt, which may come late and find several at once,     *)
(* copies blocks into the frame pipeline; the main loop restarts a         *)
(* receiver that has gone quiet, re-arms the module (384 profile), and     *)
(* hands the port to a module file transaction.                            *)
(*                                                                         *)
(* The interrupt is one step: it is shorter than a block.  Only its delay  *)
(* is free.  Of the pipeline only the producer's words are here; whether   *)
(* a frame or a slot is granted is free, see BlockRing and FrameBanks.     *)
(***************************************************************************)
EXTENDS Integers, FiniteSets

CONSTANTS
  Profiles,   \* builds to check: "256", "384", "640"
  F,          \* chunks of a frame, more than one: a frame of one block could be
              \* completed by a row flag left over from the frame before
  K,          \* blocks of a chunk in the 256 profile; otherwise one
  Frames,     \* numbers of physical frames, modulo
  Calm,       \* environments to check, see calm
  PauseUnready, \* even in a calm one a file transaction begins at any time
  MaxFaults   \* disturbances from outside

Events == {"STR_FRM", "FIFO_OV", "ROW_DONE", "FRM_DONE", "STP_FRM"}
Torn == [frame |-> -1, block |-> 0]

ASSUME DvpAssumption ==
  /\ Profiles \subseteq {"256", "384", "640"}
  /\ F \in Nat \ {0, 1} /\ K \in Nat \ {0} /\ Frames \in Nat \ {0, 1}
  /\ Calm \subseteq BOOLEAN /\ PauseUnready \in BOOLEAN /\ MaxFaults \in Nat

VARIABLES
  profile,   \* the build, chosen once
  calm,      \* chosen once: the interrupt is served before the next event, the
             \* pipeline refuses nothing, files are asked for in a ready stream
  module,    \* the module's output: "off", "applying" a command, "on"
  sensor,    \* [frame, next]: the next event of the physical frame
  wedged,    \* the receiver has stopped by itself
  enabled,   \* RB_DVP_ENABLE
  irq,       \* DVP_IRQn enabled
  flags,     \* DVP->IFR
  bank, tog, \* dvp_row_sink, and the bank being filled
  src,       \* the source's words, see Source
  pipe,      \* the producer's words of the pipeline
  held,      \* file_port_held
  ready,     \* stream_ready
  rearm,     \* module_rearm_pending
  quiet,     \* T384_MINI2_CAPTURE_IDLE_MS since the last event
  over,      \* history: the receiver has signalled the end of its last frame
  copied,    \* history: blocks copied of the open frame, in order of one frame
  published, \* history: the last frame begun was published, and how
  faults     \* disturbances so far

hardware == <<module, sensor, wedged, enabled, irq, flags, bank, tog, over>>
software == <<src, pipe, held, ready, rearm, quiet, copied, published>>
chosen == <<profile, calm>>
vars == <<chosen, hardware, software, faults>>

RowMode == profile = "256"
ChunkBlocks == IF RowMode THEN K ELSE 1
B == F * ChunkBlocks  \* blocks of a frame
Blocks == [frame : 0 .. Frames - 1, block : 1 .. B] \cup {Torn}

\* capture_active, frame_open, active_chunk, current_frame_rows,
\* current_chunk_rows, current_frame_bad, final_chunk_pending, dma_toggle.
Source == [active : BOOLEAN, open : BOOLEAN, chunk : BOOLEAN,
           rows : Nat, crows : 0 .. ChunkBlocks, bad : BOOLEAN,
           final : BOOLEAN, toggle : {0, 1}]
Pipe == [active : BOOLEAN, leased : BOOLEAN, offset : 0 .. F - 1, errors : {0, 1}]
NoFrame == [from |-> -1, n |-> 0]

Init ==
  /\ profile \in Profiles /\ calm \in Calm
  /\ module = "on" /\ sensor = [frame |-> 0, next |-> 0]
  /\ wedged = FALSE /\ enabled = TRUE /\ irq = TRUE /\ flags = {}
  /\ bank = [i \in {0, 1} |-> Torn] /\ tog = 0 /\ over = FALSE
  /\ src = [active |-> FALSE, open |-> FALSE, chunk |-> FALSE, rows |-> 0,
            crows |-> 0, bad |-> FALSE, final |-> FALSE, toggle |-> 0]
  /\ pipe = [active |-> FALSE, leased |-> FALSE, offset |-> 0, errors |-> 0]
  /\ held = FALSE /\ ready = TRUE /\ rearm = FALSE /\ quiet = FALSE
  /\ copied = NoFrame /\ published = "none" /\ faults = 0

\* A handler works on the source's and the pipeline's words together.
World == [s |-> src, p |-> pipe, copied |-> copied, published |-> published]
Become(w) ==
  /\ src' = w.s /\ pipe' = w.p /\ copied' = w.copied /\ published' = w.published

-----------------------------------------------------------------------------
(* The pipeline's calls.                                                    *)

abort_frame(w) ==
  IF ~w.p.active THEN w
  ELSE [w EXCEPT !.p = [@ EXCEPT !.active = FALSE, !.leased = FALSE, !.offset = 0],
                 !.copied = NoFrame]

protocol_error(w) == [abort_frame(w) EXCEPT !.p.errors = 1]

CanBegin(w) == ~w.p.active /\ ~w.p.leased
begin_frame(w, granted) ==
  IF ~CanBegin(w) THEN protocol_error(w)
  ELSE IF granted THEN [w EXCEPT !.p.active = TRUE, !.p.offset = 0,
                                 !.copied = NoFrame, !.published = "none"]
  ELSE w

CanAcquire(w) == w.p.active /\ ~w.p.leased
acquire_write(w, granted) ==
  IF ~CanAcquire(w) THEN protocol_error(w)
  ELSE IF granted THEN [w EXCEPT !.p.leased = TRUE] ELSE w

\* A frame ends at its last chunk; the history compares it with the sensor.
CanCommit(w, end) == w.p.active /\ w.p.leased /\ (end <=> w.p.offset = F - 1)
Whole(w) == w.copied.n = B /\ over
commit_write(w, end) ==
  IF ~CanCommit(w, end) THEN protocol_error(w)
  ELSE IF end
    THEN [w EXCEPT !.p = [@ EXCEPT !.active = FALSE, !.leased = FALSE, !.offset = 0],
                   !.published = IF Whole(w) THEN "whole" ELSE "broken",
                   !.copied = NoFrame]
    ELSE [w EXCEPT !.p.leased = FALSE, !.p.offset = @ + 1]

\* What follows a failure in the interrupt: abort, and no chunk to copy to.
GiveUp(w) ==
  [abort_frame(w) EXCEPT !.s = [@ EXCEPT !.bad = TRUE, !.open = FALSE,
                                         !.chunk = FALSE]]

-----------------------------------------------------------------------------
(* DVP_IRQHandler.                                                          *)

\* The start of a frame ends the one before it.
Superseded_Kept(w) == w
Superseded(w) == IF w.s.open THEN abort_frame(w) ELSE w

FrameStarted(w, begun, granted) ==
  LET fresh == [Superseded(w) EXCEPT !.s = [@ EXCEPT !.active = TRUE,
                  !.open = FALSE, !.rows = 0, !.crows = 0, !.bad = FALSE,
                  !.final = FALSE, !.toggle = 0]]
      b == IF ready THEN begin_frame(fresh, begun) ELSE fresh
      a == IF ready /\ begun /\ b.p.active THEN acquire_write(b, granted) ELSE b
  IN  IF a.p.leased THEN [a EXCEPT !.s = [@ EXCEPT !.open = TRUE, !.chunk = TRUE]]
      ELSE [abort_frame(a) EXCEPT !.s.bad = TRUE]

Overflowed(w) ==
  IF w.s.open THEN GiveUp(w) ELSE [w EXCEPT !.s.bad = TRUE]

\* The history grows by the next block of the frame it began with, only.
Recorded(c, b) ==
  IF c.n = 0 /\ b.block = 1 THEN [from |-> b.frame, n |-> 1]
  ELSE IF b.frame = c.from /\ b.block = c.n + 1 THEN [c EXCEPT !.n = @ + 1]
  ELSE [from |-> -1, n |-> B + 1]

completed_sink(w) == IF RowMode THEN w.s.toggle ELSE 1 - tog

RowCopied(w) ==
  LET counted == [w EXCEPT !.s.rows = @ + 1]
      w2 == IF counted.s.rows > B THEN Overflowed(counted) ELSE counted
  IN  IF w2.s.open /\ w2.s.chunk
        THEN [w2 EXCEPT !.copied = Recorded(@, bank[completed_sink(w)]),
                        !.s.crows = @ + 1]
        ELSE w2

NextChunk_Kept(w) == w
NextChunk(w) == [w EXCEPT !.s.crows = 0]

\* The last chunk of a frame waits for the end of the frame.
FrameEnd(w) == w.s.rows = B
RowDone(w, granted) ==
  LET c == IF w.s.active THEN RowCopied(w) ELSE w
      chunk_end == c.s.crows = ChunkBlocks
      commit == commit_write(c, FALSE)
      next == acquire_write(NextChunk(commit), granted)
      done ==
        IF ~(c.s.active /\ c.s.open) THEN c
        ELSE IF FrameEnd(c)
          THEN IF chunk_end THEN [c EXCEPT !.s.final = TRUE] ELSE [c EXCEPT !.s.bad = TRUE]
        ELSE IF ~chunk_end THEN c
        ELSE IF ~CanCommit(c, FALSE) THEN GiveUp(commit)
        ELSE IF next.p.leased THEN next
        ELSE GiveUp(next)
  IN  [done EXCEPT !.s.toggle = 1 - @]

FrameGood(w) == w.s.open /\ ~w.s.bad /\ w.s.rows = B
finish_frame_isr(w) ==
  LET c == IF w.s.final /\ FrameGood(w)
             THEN [commit_write(w, TRUE) EXCEPT !.s.open = ~CanCommit(w, TRUE)]
             ELSE w
      d == IF c.s.open THEN abort_frame(c) ELSE c
  IN  [d EXCEPT !.s = [@ EXCEPT !.active = FALSE, !.rows = 0, !.bad = FALSE,
                         !.crows = 0, !.open = FALSE, !.final = FALSE,
                         !.chunk = FALSE]]

EndFlags_Any == {"FRM_DONE", "STP_FRM"}
EndFlags == IF RowMode THEN {"FRM_DONE", "STP_FRM"} ELSE {"STP_FRM"}

\* Everything raised since the last interrupt, in a fixed order.
Handled(begun, granted) ==
  LET w1 == IF "STR_FRM" \in flags THEN FrameStarted(World, begun, granted) ELSE World
      w2 == IF "FIFO_OV" \in flags THEN Overflowed(w1) ELSE w1
      w3 == IF "ROW_DONE" \in flags THEN RowDone(w2, granted) ELSE w2
  IN  IF flags \cap EndFlags # {} /\ w3.s.active THEN finish_frame_isr(w3) ELSE w3

Grants == IF calm THEN {TRUE} ELSE BOOLEAN

DVP_IRQHandler ==
  /\ irq /\ flags # {}
  /\ \E begun, granted \in Grants : Become(Handled(begun, granted))
  /\ flags' = {} /\ quiet' = FALSE
  /\ UNCHANGED <<chosen, module, sensor, wedged, enabled, irq, bank, tog, over, held,
                 ready, rearm, faults>>

-----------------------------------------------------------------------------
(* The main loop.                                                           *)

\* mini2_dvp_reset, mini2_dvp_configure and the enabling after them.
dvp_start(on) == flags' = {} /\ wedged' = FALSE /\ enabled' = on /\ irq' = on

\* A frame that was open when the receiver went quiet is not completed.
Abandoned(w) ==
  LET w2 == IF w.s.active THEN finish_frame_isr([w EXCEPT !.s.bad = TRUE])
            ELSE IF w.s.open THEN [abort_frame(w) EXCEPT !.s.open = FALSE] ELSE w
  IN  [w2 EXCEPT !.s = [@ EXCEPT !.chunk = FALSE, !.rows = 0, !.crows = 0,
                          !.toggle = 0, !.final = FALSE]]

\* mini2_probe_and_rearm.  The module answers or not, and its state may be on
\* although it takes a command; a command is not repeated while it is applied.
Settled == rearm /\ module = "on"
TooEarly_Inverted(passed) == rearm /\ passed
TooEarly(passed) == rearm /\ ~passed
probe_and_rearm(answered, passed, lost) ==
  /\ ready' = (answered /\ Settled)
  /\ IF ~answered \/ (TooEarly(passed) /\ ~Settled) THEN UNCHANGED <<rearm, module>>
     ELSE IF Settled THEN rearm' = FALSE /\ UNCHANGED module
     ELSE rearm' = TRUE /\ module' = IF lost THEN module ELSE "applying"

\* The recovery of t384_frame_source_task.
Recover ==
  /\ ~held /\ quiet /\ (profile = "384" \/ ready)
  /\ Become(Abandoned(World))
  /\ quiet' = FALSE
  /\ UNCHANGED <<chosen, sensor, bank, tog, over, held, faults>>

recover ==
  /\ Recover
  /\ dvp_start(ready)
  /\ UNCHANGED <<module, ready, rearm>>

\* The time between two commands is longer than applying one.
recover_and_probe(answered, passed, lost) ==
  /\ profile = "384"
  /\ passed => module # "applying"
  /\ lost => faults < MaxFaults
  /\ Recover
  /\ probe_and_rearm(answered, passed, lost)
  /\ dvp_start(ready')

Paused(w) ==
  LET a == IF w.s.open THEN abort_frame(w) ELSE w
  IN  [a EXCEPT !.s = [@ EXCEPT !.open = FALSE, !.final = FALSE, !.chunk = FALSE,
                         !.active = FALSE]]

\* t384_module_file_port_pause: capture stops, or goes on at once when the
\* memory is not free.
pause(acquired) ==
  /\ ~held /\ (calm => ready \/ PauseUnready)
  /\ faults < MaxFaults /\ faults' = faults + 1
  /\ Become(Paused(World))
  /\ held' = acquired
  /\ dvp_start(~acquired)
  /\ quiet' = FALSE
  /\ UNCHANGED <<chosen, module, sensor, bank, tog, over, ready, rearm>>

Resumed(w) ==
  [w EXCEPT !.s = [@ EXCEPT !.rows = 0, !.crows = 0, !.toggle = 0, !.bad = TRUE]]
resume ==
  /\ held /\ held' = FALSE
  /\ Become(Resumed(World))
  /\ dvp_start(TRUE)
  /\ quiet' = FALSE
  /\ UNCHANGED <<chosen, module, sensor, bank, tog, over, ready, rearm, faults>>

MainLoop ==
  \/ recover \/ resume
  \/ \E answered, passed, lost \in BOOLEAN : recover_and_probe(answered, passed, lost)
  \/ \E acquired \in BOOLEAN : pause(acquired)

-----------------------------------------------------------------------------
(* The module and the receiver.                                             *)

Receiving == enabled /\ ~wedged
Served == calm /\ irq => flags = {}
Raise(S) == flags' = IF Receiving THEN flags \cup S ELSE flags
Fault == faults < MaxFaults /\ faults' = faults + 1

NextFrame == [frame |-> (sensor.frame + 1) % Frames, next |-> 0]

\* VSYNC: the receiver starts at the first bank in row mode only.
start_of_frame ==
  /\ sensor.next = 0 /\ sensor' = [sensor EXCEPT !.next = 1]
  /\ Raise({"STR_FRM"})
  /\ tog' = IF RowMode /\ Receiving THEN 0 ELSE tog
  /\ over' = (over /\ ~Receiving)
  /\ UNCHANGED <<bank, faults>>

\* A block; an overflow loses part of it.  The frame-done of the length-driven
\* mode is raised by the receiver's own count.
block(torn, done) ==
  /\ sensor.next \in 1 .. B /\ sensor' = [sensor EXCEPT !.next = @ + 1]
  /\ done => ~RowMode
  /\ Raise({"ROW_DONE"} \cup (IF torn THEN {"FIFO_OV"} ELSE {})
                        \cup (IF done THEN {"FRM_DONE"} ELSE {}))
  /\ IF Receiving
       THEN /\ bank' = [bank EXCEPT ![tog] =
                          IF torn THEN Torn
                          ELSE [frame |-> sensor.frame, block |-> sensor.next]]
            /\ tog' = 1 - tog
       ELSE UNCHANGED <<bank, tog>>
  /\ UNCHANGED over
  /\ IF torn THEN Fault ELSE UNCHANGED faults

frame_done ==
  /\ sensor.next = B + 1 /\ sensor' = [sensor EXCEPT !.next = @ + 1]
  /\ Raise(IF RowMode THEN {"FRM_DONE"} ELSE {})
  /\ over' = (over \/ (Receiving /\ RowMode))
  /\ UNCHANGED <<bank, tog, faults>>

end_of_frame ==
  /\ sensor.next = B + 2 /\ sensor' = NextFrame
  /\ Raise({"STP_FRM"})
  /\ over' = (over \/ Receiving)
  /\ UNCHANGED <<bank, tog, faults>>

\* A frame is cut short; the edges of VSYNC still alternate.
short_frame ==
  /\ sensor.next \in 1 .. B + 2 /\ sensor' = NextFrame
  /\ Raise({"STP_FRM"})
  /\ over' = (over \/ Receiving)
  /\ Fault
  /\ UNCHANGED <<bank, tog>>

Video ==
  /\ module = "on" /\ Served
  /\ UNCHANGED <<chosen, module, wedged, enabled, irq, software>>
  /\ \/ start_of_frame \/ frame_done \/ end_of_frame \/ short_frame
     \/ \E torn, done \in BOOLEAN : block(torn, done)

\* The module carries out a command.
apply ==
  /\ module = "applying" /\ module' = "on"
  /\ UNCHANGED <<chosen, sensor, wedged, enabled, irq, flags, bank, tog, over,
                 software, faults>>

\* The receiver hangs, or the module restarts with its output off.
Break ==
  /\ Fault
  /\ UNCHANGED <<chosen, enabled, irq, flags, bank, tog, over, software>>
  /\ \/ wedged' = TRUE /\ UNCHANGED <<module, sensor>>
     \/ /\ profile = "384" /\ module' = "off"
        /\ sensor' = IF sensor.next = 0 THEN sensor ELSE NextFrame
        /\ UNCHANGED wedged

\* No event for the idle time: in a calm system there is a reason.
idle ==
  /\ flags = {} /\ ~quiet /\ quiet' = TRUE
  /\ calm => module # "on" \/ ~Receiving
  /\ UNCHANGED <<chosen, hardware, src, pipe, held, ready, rearm, copied,
                 published, faults>>

Next == DVP_IRQHandler \/ MainLoop \/ Video \/ apply \/ Break \/ idle

Spec == Init /\ [][Next]_vars

\* In a calm environment the interrupt and the main loop run, the clock runs,
\* the module sends its frames, obeys the commands it gets and answers some of
\* the probes.
Fairness ==
  /\ WF_vars(calm /\ DVP_IRQHandler) /\ WF_vars(calm /\ Video)
  /\ WF_vars(calm /\ apply) /\ WF_vars(calm /\ idle)
  /\ WF_vars(calm /\ resume) /\ WF_vars(calm /\ MainLoop)
  /\ SF_vars(calm /\ recover_and_probe(TRUE, TRUE, FALSE))

FairSpec == Spec /\ Fairness
-----------------------------------------------------------------------------
(* Properties.                                                              *)

\* Every word keeps its type.
TypeOK ==
  /\ profile \in Profiles /\ calm \in Calm /\ module \in {"off", "applying", "on"}
  /\ sensor \in [frame : 0 .. Frames - 1, next : 0 .. B + 2]
  /\ flags \subseteq Events /\ bank \in [{0, 1} -> Blocks] /\ tog \in {0, 1}
  /\ over \in BOOLEAN
  /\ src \in Source /\ pipe \in Pipe
  /\ {wedged, enabled, irq, held, ready, rearm, quiet} \subseteq BOOLEAN
  /\ copied \in [from : -1 .. Frames - 1, n : 0 .. B + 1]
  /\ published \in {"none", "whole", "broken"} /\ faults \in 0 .. MaxFaults

\* A frame that gets its end mark is all the blocks of one physical frame, in
\* order, whose end the receiver has signalled ("Publish only after the source
\* validates every row and physical frame end", t384_frame_pipeline_full.c),
\* whatever events an interrupt found merged, lost or late.
PublishedIsWhole == published # "broken"

\* The source and the pipeline agree on the open frame, so that the source
\* never breaks the calls' protocol and never copies to a slot it has lost.
SourceMatchesPipeline ==
  /\ pipe.errors = 0
  /\ src.open <=> pipe.active
  /\ src.open => src.chunk /\ pipe.leased /\ src.active
  /\ held => ~src.open /\ ~irq

Consistent == TypeOK /\ SourceMatchesPipeline

\* After any disturbance pictures keep coming, where interrupts are prompt and
\* the pipeline has room: a wedged receiver, a module that restarted and a file
\* transaction all end in a capture that goes on.
PicturesKeepComing ==
  calm => []<><<published = "none" /\ published' = "whole">>_vars
=============================================================================
