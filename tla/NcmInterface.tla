---------------------------- MODULE NcmInterface ----------------------------
(***************************************************************************)
(* The USB network interface: the controller driver's interrupt            *)
(* (dcd_ch32h417_usbhs.c), TinyUSB's event queue and device state          *)
(* (usbd.c), its NCM class driver (ncm_device.c) and the glue to lwIP      *)
(* (t384_ncm.c), all but the interrupt in the main loop.                   *)
(*                                                                         *)
(* The interrupt queues events that tud_task handles later: in its turn of *)
(* the main loop, or in the middle of lwIP, whose output waits for a free  *)
(* buffer by running tud_task.  The host may reset the bus, suspend it,    *)
(* deselect the configuration or the data interface at any moment.         *)
(*                                                                         *)
(* A frame is a number; an NTB, the block frames travel in, is a sequence  *)
(* of frames.  Buffers are counted where only their number matters.        *)
(***************************************************************************)
EXTENDS Integers, Sequences, FiniteSets, SequencesExt

CONSTANTS
  RecvN,      \* CFG_TUD_NCM_OUT_NTB_N, blocks to receive into
  XmitN,      \* CFG_TUD_NCM_IN_NTB_N, blocks to transmit from
  Datagrams,  \* frames of one block to the host
  Budget,     \* T384_NCM_RX_BUDGET, frames one pass of the task hands to lwIP
  Attempts,   \* tries of ncm_link_output
  Frames,     \* numbers of frames, 0 .. K-1, used in turn
  HostDoes,   \* the disturbances the host causes
  MaxEvents,  \* bound: length of the event queue (16 in the code)
  Unhurried,  \* the bus changes at most once in a pass of the main loop
  None        \* no block, no frame

Disturbances == {"reset", "suspend", "deselect", "alternate", "clear_halt",
                 "bad_block"}

ASSUME NcmAssumption ==
  /\ {RecvN, XmitN, Datagrams, Budget, Attempts} \subseteq Nat \ {0}
  /\ HostDoes \subseteq Disturbances
  /\ MaxEvents \in Nat \ {0}
  /\ Unhurried \in BOOLEAN
  /\ Frames = 0 .. Cardinality(Frames) - 1 /\ Cardinality(Frames) \in Nat \ {0}
  /\ None \notin Frames \cup Seq(Frames)

VARIABLES
  dev,      \* state of the device: usbd, driver, controller and glue
  events,   \* _usbd_q, from the interrupt to tud_task
  pc,       \* where the main loop is: task, lwIP, output, or waiting in output
  caller,   \* who called ncm_link_output
  handled,  \* frames handed to lwIP in this pass
  attempt,  \* try of ncm_link_output
  replied,  \* this caller has sent its frame
  host,     \* what the host knows of the device, and whether the bus sleeps
  link      \* history: numbers of the next frames, the last ones that arrived,
            \* a session that flips when the interface starts anew, and whether
            \* the host has since spoilt reception, see Spoils

vars == <<dev, events, pc, caller, handled, attempt, replied, host, link>>
mainVars == <<pc, caller, handled, attempt, replied>>

Requests == {"address", "config", "deselect", "alt0", "alt1", "clear_out"}
Events == Requests \cup {"reset", "suspend", "resume", "out", "bad", "in", "in_full"}

\* Every word as the boot leaves it: the class driver (netd_init), _usbd_dev,
\* the controller (reset_endpoint_state) and the glue.
Cleared == [alt |-> 0, recv_free |-> RecvN, recv_ready |-> <<>>,
            recv_tinyusb |-> None, recv_glue |-> <<>>,
            xmit_free |-> XmitN, xmit_ready |-> <<>>, xmit_tinyusb |-> None,
            xmit_glue |-> None,
            connected |-> FALSE, suspended |-> FALSE, mounted |-> FALSE,
            busy_out |-> FALSE, busy_in |-> FALSE,
            open |-> FALSE, out |-> "idle", in |-> "idle",
            received_frame |-> None, link |-> FALSE]
NewLink(session) == [in |-> 0, out |-> 0, lwip |-> None, host |-> None,
                     spoilt |-> FALSE, session |-> session]

Init ==
  /\ dev = Cleared
  /\ events = <<>>
  /\ pc = "usb" /\ caller = "timers"
  /\ handled = 0 /\ attempt = 0 /\ replied = FALSE
  /\ host = [stage |-> "default", asleep |-> FALSE]
  /\ link = NewLink(FALSE)

\* netd_init: the class driver after a reset.
Driver(s) == [s EXCEPT !.alt = 0, !.recv_free = RecvN, !.recv_ready = <<>>,
                       !.recv_tinyusb = None, !.recv_glue = <<>>,
                       !.xmit_free = XmitN, !.xmit_ready = <<>>,
                       !.xmit_tinyusb = None, !.xmit_glue = None]
\* _usbd_dev cleared.
Usbd(s) == [s EXCEPT !.connected = FALSE, !.suspended = FALSE, !.mounted = FALSE,
                     !.busy_out = FALSE, !.busy_in = FALSE]
\* reset_endpoint_state: no data endpoint enabled, no transfer active.
Controller(s) == [s EXCEPT !.open = FALSE, !.out = "idle", !.in = "idle"]

Following(n) == (n + 1) % Cardinality(Frames)
-----------------------------------------------------------------------------
(* Receiving: controller, class driver, glue.                               *)

\* recv_try_to_start_new_reception; the transfer is refused, and the block
\* kept, while the controller still has one.
StartReception(s) ==
  IF \/ s.alt # 1 \/ s.recv_tinyusb # None
     \/ s.busy_out \/ s.recv_free = 0 \/ s.out # "idle"
    THEN s
    ELSE [s EXCEPT !.recv_tinyusb = <<>>, !.recv_free = @ - 1,
                   !.busy_out = TRUE, !.out = "armed"]

\* tud_network_recv_cb refuses a frame while one waits for lwIP.  (Its branch
\* without memory for the frame is left out: besides this one, only the frame
\* in ethernet_input's hands takes a buffer of the pool of at least four.)
Accepted_Always(s) == TRUE
Accepted(s) == s.received_frame = None

\* recv_transfer_datagram_to_glue_logic: at most one frame of the oldest block.
Transfer(s) ==
  LET fetch == s.recv_glue = <<>> /\ s.recv_ready # <<>>
      block == IF fetch THEN Head(s.recv_ready) ELSE s.recv_glue
      ready == IF fetch THEN Tail(s.recv_ready) ELSE s.recv_ready
  IN  IF block = <<>> THEN s
      ELSE IF ~Accepted(s)
        THEN [s EXCEPT !.recv_glue = block, !.recv_ready = ready]
        ELSE [s EXCEPT !.recv_glue = Tail(block), !.recv_ready = ready,
                       !.recv_free = IF Len(block) = 1 THEN @ + 1 ELSE @,
                       !.received_frame = Head(block)]

\* tud_network_recv_renew.
Renew_Once(s) == StartReception(s)
Renew(s) == StartReception(Transfer(s))

\* netd_xfer_cb for the OUT endpoint: a block that does not validate is
\* forgotten, and not put back into the free list.
BlockReceived(s, valid) ==
  Renew([s EXCEPT !.recv_tinyusb = None,
                  !.recv_ready = IF valid THEN Append(@, s.recv_tinyusb) ELSE @])
-----------------------------------------------------------------------------
(* Transmitting.                                                            *)

\* xmit_start_if_possible: the oldest full block, else the one being filled.
StartTransmission(s) ==
  LET block == IF s.xmit_ready # <<>> THEN Head(s.xmit_ready) ELSE s.xmit_glue
  IN  IF \/ s.xmit_tinyusb # None \/ s.alt # 1 \/ s.busy_in
         \/ block = None \/ block = <<>>
        THEN s
        ELSE [s EXCEPT !.xmit_tinyusb = block,
                       !.xmit_ready = IF @ # <<>> THEN Tail(@) ELSE <<>>,
                       !.xmit_glue = IF s.xmit_ready # <<>> THEN @ ELSE None,
                       !.busy_in = (s.in = "idle"), !.in = "armed"]

\* xmit_requested_datagram_fits_into_current_ntb
Fits(s) == s.xmit_glue # None /\ Len(s.xmit_glue) < Datagrams

\* xmit_setup_next_glue_ntb: the block being filled goes to the ready list
\* whether or not there is another.
SetupNext_Forgets(s) ==
  [s EXCEPT !.xmit_glue = IF s.xmit_free = 0 THEN None ELSE <<>>,
            !.xmit_free = IF @ = 0 THEN 0 ELSE @ - 1]
SetupNext(s) ==
  LET ready == IF s.xmit_glue = None THEN s.xmit_ready
               ELSE Append(s.xmit_ready, s.xmit_glue)
  IN  IF s.xmit_free = 0
        THEN [s EXCEPT !.xmit_ready = ready, !.xmit_glue = None]
        ELSE [s EXCEPT !.xmit_ready = ready, !.xmit_glue = <<>>,
                       !.xmit_free = @ - 1]

\* tud_network_can_xmit
Room(s) == IF Fits(s) THEN s ELSE SetupNext(s)

\* netd_xfer_cb for the IN endpoint: the block is free again, and a packet of
\* no bytes ends a transfer whose length was a multiple of the packet size.
BlockSent_Twice(s, full) ==
  LET t == [s EXCEPT !.xmit_tinyusb = None, !.xmit_free = @ + 1]
  IN  IF full /\ s.alt = 1 /\ ~s.busy_in
        THEN [t EXCEPT !.busy_in = (s.in = "idle"), !.in = "armed"]
        ELSE StartTransmission(t)
BlockSent(s, full) ==
  LET t == [s EXCEPT !.xmit_tinyusb = None,
                     !.xmit_free = IF s.xmit_tinyusb = None THEN @ ELSE @ + 1]
  IN  IF full /\ s.alt = 1 /\ ~s.busy_in
        THEN [t EXCEPT !.busy_in = (s.in = "idle"), !.in = "armed"]
        ELSE StartTransmission(t)
-----------------------------------------------------------------------------
(* tud_task: one event.                                                     *)

\* dcd_event_bus_reset: netd_reset and usbd.
Reset_UsbdOnly(s) == Usbd(s)
Reset(s) == Usbd(Driver(s))

\* The data interface without endpoints: a transfer in progress goes on.
Deactivate_Reinitialised(s) == Driver(s)
Deactivate(s) == [s EXCEPT !.alt = 0]

\* tud_resume_cb
Resumed_OnlyUnmounted(s) == IF s.connected /\ ~s.mounted THEN [s EXCEPT !.link = TRUE] ELSE s
Resumed(s) == IF s.connected /\ s.mounted THEN [s EXCEPT !.link = TRUE] ELSE s

Setup(s, request) ==
  LET c == [s EXCEPT !.connected = TRUE] IN
  CASE request = "config" /\ ~c.mounted ->
         \* the endpoints are opened, and tud_mount_cb sets the link up
         [c EXCEPT !.mounted = TRUE, !.open = TRUE, !.out = "idle", !.in = "idle",
                   !.link = TRUE]
    [] request = "deselect" /\ c.mounted ->
         \* endpoints closed, driver and usbd cleared, then tud_umount_cb
         Cleared
    [] request = "alt0" /\ c.mounted -> Deactivate(c)
    [] request = "alt1" /\ c.mounted -> Renew([c EXCEPT !.alt = 1])
    [] request = "clear_out" /\ c.mounted ->
         \* usbd_edpt_clear_stall, whether or not the endpoint is stalled
         [c EXCEPT !.busy_out = FALSE,
                   !.out = IF @ = "armed" THEN "refusing" ELSE @]
    [] OTHER -> c

\* What handling an event leaves behind.
After(s, e) ==
  CASE e = "reset" -> Reset(s)
    [] e \in Requests -> Setup(s, e)
    [] e \in {"out", "bad"} ->
         LET t == [s EXCEPT !.busy_out = FALSE]
         IN  IF s.mounted THEN BlockReceived(t, e = "out") ELSE t
    [] e \in {"in", "in_full"} ->
         LET t == [s EXCEPT !.busy_in = FALSE]
         IN  IF s.mounted THEN BlockSent(t, e = "in_full") ELSE t
    [] e = "suspend" -> IF s.connected THEN [s EXCEPT !.link = FALSE] ELSE s
    [] e = "resume" -> Resumed(s)

\* A request is skipped when a newer one is queued already.
Skipped(e, rest) == e \in Requests /\ \E k \in DOMAIN rest : rest[k] \in Requests

\* A transfer of an endpoint without a driver ends this call of tud_task.
Leaves(s, e) == e \in {"out", "bad", "in", "in_full"} /\ ~s.mounted

Restarts(e, rest) ==
  e = "reset" \/ (e = "deselect" /\ dev.mounted /\ ~Skipped(e, rest))

\* A halt is cleared where there is none, with a reception posted.
Spoils(e, rest) ==
  e = "clear_out" /\ dev.mounted /\ dev.out = "armed" /\ ~Skipped(e, rest)

Answered(stage, e) ==
  CASE e = "address" /\ stage = "default" -> "addressed"
    [] e = "config" -> "configured"
    [] e = "deselect" -> "addressed"
    [] e = "alt1" -> "up"
    [] e = "alt0" -> "configured"
    [] OTHER -> stage
-----------------------------------------------------------------------------
(* The main loop.                                                           *)

\* One event of the queue, in the turn of tud_task or inside lwIP's output.
tud_task ==
  /\ pc \in {"usb", "nested"} /\ events # <<>>
  /\ LET e == Head(events) rest == Tail(events) IN
       /\ events' = rest
       /\ dev' = IF Skipped(e, rest) THEN dev ELSE After(dev, e)
       /\ link' = IF Restarts(e, rest)
                  THEN NewLink(~link.session)
                  ELSE [link EXCEPT !.spoilt = @ \/ Spoils(e, rest)]
       \* the host does not see the answer to a request from before a reset
       /\ host' = IF "reset" \in Range(rest) \/ Skipped(e, rest) THEN host
                  ELSE [host EXCEPT !.stage = Answered(@, e)]
       /\ pc' = IF ~Leaves(dev, e) THEN pc
                ELSE IF pc = "usb" THEN "rx" ELSE "output"
  /\ UNCHANGED <<caller, handled, attempt, replied>>

tud_task_done ==
  /\ pc \in {"usb", "nested"} /\ events = <<>>
  /\ pc' = IF pc = "usb" THEN "rx" ELSE "output"
  /\ UNCHANGED <<dev, events, caller, handled, attempt, replied, host, link>>

\* t384_ncm_task takes the waiting frame, or its budget or the frames are used up.
take_frame ==
  /\ pc = "rx" /\ handled < Budget /\ dev.received_frame # None
  /\ dev' = [dev EXCEPT !.received_frame = None]
  /\ link' = [link EXCEPT !.lwip = dev.received_frame]
  /\ pc' = "input" /\ replied' = FALSE
  /\ UNCHANGED <<events, caller, handled, attempt, host>>

rx_done ==
  /\ pc = "rx" /\ (handled = Budget \/ dev.received_frame = None)
  /\ pc' = "timers" /\ replied' = FALSE
  /\ UNCHANGED <<dev, events, caller, handled, attempt, host, link>>

\* ethernet_input returns, the frame freed; the driver may pass the next one.
input_done ==
  /\ pc = "input"
  /\ dev' = Renew(dev)
  /\ handled' = handled + 1
  /\ pc' = "rx"
  /\ UNCHANGED <<events, caller, attempt, replied, host, link>>

\* The timers and HTTP have run; what was gathered is flushed.
flush ==
  /\ pc = "timers"
  /\ dev' = StartTransmission(dev)
  /\ pc' = "usb" /\ handled' = 0
  /\ UNCHANGED <<events, caller, attempt, replied, host, link>>

\* lwIP sends a frame, at most one for each caller of it.
send ==
  /\ pc \in {"input", "timers"} /\ ~replied
  /\ caller' = pc /\ pc' = "output" /\ attempt' = 0 /\ replied' = TRUE
  /\ UNCHANGED <<dev, events, handled, host, link>>

Ready == dev.mounted /\ ~dev.suspended

\* ncm_link_output: the frame is copied into the block being filled.
output_submit ==
  /\ pc = "output" /\ attempt < Attempts /\ Ready
  /\ LET s == Room(dev) IN
       /\ s.xmit_glue # None
       /\ dev' = [s EXCEPT !.xmit_glue = Append(@, link.out)]
  /\ link' = [link EXCEPT !.out = Following(@)]
  /\ pc' = caller
  /\ UNCHANGED <<events, caller, handled, attempt, replied, host>>

\* No block is free: try to transmit one, run tud_task and try again.
output_wait ==
  /\ pc = "output" /\ attempt < Attempts /\ Ready
  /\ LET s == Room(dev) IN
       /\ s.xmit_glue = None
       /\ dev' = StartTransmission(s)
  /\ attempt' = attempt + 1
  /\ pc' = "nested"
  /\ UNCHANGED <<events, caller, handled, replied, host, link>>

\* ERR_USE, or ERR_MEM after the last attempt: lwIP keeps or drops the frame.
output_refused ==
  /\ pc = "output" /\ (attempt = Attempts \/ ~Ready)
  /\ pc' = caller
  /\ UNCHANGED <<dev, events, caller, handled, attempt, replied, host, link>>

Main == \/ tud_task \/ tud_task_done \/ take_frame \/ rx_done \/ input_done
        \/ flush \/ send \/ output_submit \/ output_wait \/ output_refused
-----------------------------------------------------------------------------
(* The interrupt, with what the host does on the bus.                       *)

Post(e) == /\ Len(events) < MaxEvents
           /\ events' = Append(events, e)

Change(kind) == kind \in HostDoes /\ (Unhurried => pc = "timers" /\ events = <<>>)

bus_reset ==
  /\ Change("reset")
  /\ Post("reset")
  /\ dev' = Controller(dev)
  /\ host' = [stage |-> "default", asleep |-> FALSE]
  /\ UNCHANGED <<mainVars, link>>

\* handle_out: the controller has received a block of the host.
out_done ==
  /\ host.stage = "up" /\ ~host.asleep
  /\ dev.open /\ dev.out = "armed"
  /\ \E n \in 1 .. 2 :
       LET block == [k \in 1 .. n |-> (link.in + k - 1) % Cardinality(Frames)] IN
       /\ dev' = [dev EXCEPT !.out = "idle",
                             !.recv_tinyusb = IF @ = None THEN None ELSE block]
       /\ link' = [link EXCEPT !.in = (@ + n) % Cardinality(Frames)]
  /\ Post("out")
  /\ UNCHANGED <<mainVars, host>>

\* The same with a transfer that is no valid block.
out_bad ==
  /\ "bad_block" \in HostDoes
  /\ host.stage = "up" /\ ~host.asleep
  /\ dev.open /\ dev.out = "armed"
  /\ dev' = [dev EXCEPT !.out = "idle"]
  /\ Post("bad")
  /\ link' = [link EXCEPT !.spoilt = TRUE]
  /\ UNCHANGED <<mainVars, host>>

\* The host has the block in the controller, and tud_task is to hear of it.
Taken == Range(events) \cap {"in", "in_full"} # {}

\* handle_in: the host has taken the block, or the empty packet after one.
in_done ==
  /\ host.stage = "up" /\ ~host.asleep
  /\ dev.open /\ dev.in = "armed"
  /\ dev' = [dev EXCEPT !.in = "idle"]
  /\ link' = IF dev.xmit_tinyusb = None \/ Taken THEN link
             ELSE [link EXCEPT !.host = Last(dev.xmit_tinyusb)]
  /\ Post("in") \/ (dev.xmit_tinyusb # None /\ Post("in_full"))
  /\ UNCHANGED <<mainVars, host>>

bus_suspend ==
  /\ Change("suspend") /\ ~host.asleep
  /\ host' = [host EXCEPT !.asleep = TRUE]
  /\ IF dev.connected
       THEN dev' = [dev EXCEPT !.suspended = TRUE] /\ Post("suspend")
       ELSE UNCHANGED <<dev, events>>
  /\ UNCHANGED <<mainVars, link>>

bus_resume ==
  /\ host.asleep
  /\ host' = [host EXCEPT !.asleep = FALSE]
  /\ IF dev.connected
       THEN dev' = [dev EXCEPT !.suspended = FALSE] /\ Post("resume")
       ELSE UNCHANGED <<dev, events>>
  /\ UNCHANGED <<mainVars, link>>

\* Requests since the last reset: the host waits for the answer to one.
Waiting == \E k \in DOMAIN events :
             /\ events[k] \in Requests
             /\ \A j \in k + 1 .. Len(events) : events[j] # "reset"

Enumerates(r) ==
  \/ host.stage = "default" /\ r = "address"
  \/ host.stage = "addressed" /\ r = "config"
  \/ host.stage = "configured" /\ r = "alt1"

Disturbs(r) ==
  /\ host.stage = "up"
  /\ \/ r = "deselect" /\ Change("deselect")
     \/ r = "alt0" /\ Change("alternate")
     \/ r = "clear_out" /\ Change("clear_halt")

\* handle_setup
request ==
  /\ ~host.asleep /\ ~Waiting
  /\ \E r \in Requests : (Enumerates(r) \/ Disturbs(r)) /\ Post(r)
  /\ UNCHANGED <<dev, mainVars, host, link>>

Interrupt == \/ bus_reset \/ out_done \/ out_bad \/ in_done \/ bus_suspend
             \/ bus_resume \/ request

Next == Main \/ Interrupt
Spec == Init /\ [][Next]_vars

\* Where lwIP's caller is while a frame is in ethernet_input's hands.
InHand == pc = "input" \/ (pc \in {"output", "nested"} /\ caller = "input")
Enumerate == request /\ \E r \in {"address", "config", "alt1"} :
                          events' = Append(events, r)

\* The main loop goes on; the host ends a sleep, enumerates the device and takes
\* what it transmits whenever it is awake long enough.
Fairness == WF_vars(Main) /\ WF_vars(bus_resume) /\ SF_vars(Enumerate)
            /\ SF_vars(in_done)
FairSpec == Spec /\ Fairness
-----------------------------------------------------------------------------
FromHost == Seq(Frames) \ {<<>>}
ToHost == {b \in Seq(Frames) : Len(b) \in 1 .. Datagrams}
Device ==
  [alt : {0, 1}, recv_free : 0 .. RecvN, recv_ready : Seq(FromHost),
   recv_tinyusb : FromHost \cup {<<>>, None}, recv_glue : FromHost \cup {<<>>},
   xmit_free : 0 .. XmitN, xmit_ready : Seq(ToHost),
   xmit_tinyusb : ToHost \cup {None}, xmit_glue : ToHost \cup {None},
   connected : BOOLEAN, suspended : BOOLEAN, mounted : BOOLEAN,
   busy_out : BOOLEAN, busy_in : BOOLEAN,
   open : BOOLEAN, out : {"idle", "armed", "refusing"}, in : {"idle", "armed"},
   received_frame : Frames \cup {None}, link : BOOLEAN]

\* Every word keeps its type, and no block gets more frames than it can hold.
TypeOK ==
  /\ dev \in Device
  /\ events \in Seq(Events) /\ Len(events) <= MaxEvents
  /\ pc \in {"usb", "nested", "rx", "input", "output", "timers"}
  /\ caller \in {"input", "timers"} /\ replied \in BOOLEAN
  /\ handled \in 0 .. Budget /\ attempt \in 0 .. Attempts
  /\ host \in [stage : {"default", "addressed", "configured", "up"}, asleep : BOOLEAN]
  /\ link \in [in : Frames, out : Frames, lwip : Frames \cup {None},
               host : Frames \cup {None}, spoilt : BOOLEAN, session : BOOLEAN]

\* A finished reception is handed to the driver while the driver still owns the
\* block it was for, whatever resets, requests and sleeps came in between:
\* netd_xfer_cb would otherwise read through a null pointer.
CompletionHasBlock ==
  /\ events # <<>> /\ Head(events) \in {"out", "bad"} /\ dev.mounted
    => dev.recv_tinyusb # None
  /\ events # <<>> /\ Head(events) = "in_full" /\ dev.mounted
    => dev.xmit_tinyusb # None

\* No block to receive into leaves its cycle: each is free, filled, in the
\* controller or in use by the glue.  The code breaks this with a transfer that
\* is no block (NcmBadBlock.cfg): "verification failed: ignore NTB and return it
\* to free" (ncm_device.c, line 929).
RecvBlocks(s) ==
  s.recv_free + Len(s.recv_ready) + (IF s.recv_tinyusb = None THEN 0 ELSE 1)
                                  + (IF s.recv_glue = <<>> THEN 0 ELSE 1)
RecvBlocksAreKept == RecvBlocks(dev) = RecvN

XmitBlocks(s) ==
  s.xmit_free + Len(s.xmit_ready) + (IF s.xmit_tinyusb = None THEN 0 ELSE 1)
                                  + (IF s.xmit_glue = None THEN 0 ELSE 1)

\* The same of the blocks to transmit from, and of all of them as long as the
\* host sends blocks; at no time is one in two places.
BlocksAreKept ==
  /\ RecvBlocks(dev) <= RecvN /\ (link.spoilt \/ RecvBlocksAreKept)
  /\ XmitBlocks(dev) = XmitN

Consistent == TypeOK /\ BlocksAreKept

\* When no reception is posted, a frame waits for lwIP or is in its hands, and
\* the renewal after it is still to come.
RenewalIsOwed ==
  dev.mounted /\ dev.alt = 1 /\ dev.recv_tinyusb = None
    => dev.received_frame # None \/ InHand

\* A posted reception is served: the controller accepts data for it, or has
\* finished it or been reset and tud_task is still to hear of that.  The code
\* breaks this when a halt is cleared where there is none (NcmClearHalt.cfg):
\* "only clear if currently stalled" (usbd.c, line 1415).
ReceptionIsServed ==
  dev.recv_tinyusb # None
    => dev.out = "armed" \/ Range(events) \cap {"out", "bad", "reset"} # {}

\* Reception never stands still by itself, unless the host has spoilt it: every
\* posted block is served, and a renewal that is owed has someone to do it.
ReceptionGoesOn == link.spoilt \/ (RenewalIsOwed /\ ReceptionIsServed)

\* When nothing is left to handle, lwIP may use the link of a configured device
\* on a bus that is awake.
LinkFollowsBus ==
  events = <<>> /\ dev.mounted /\ ~dev.suspended => dev.link
-----------------------------------------------------------------------------
(* The interface implements two queues.                                     *)

Some(x) == IF x = None THEN <<>> ELSE x
toDeviceMap == (IF dev.received_frame = None THEN <<>> ELSE <<dev.received_frame>>)
               \o dev.recv_glue \o FlattenSeq(dev.recv_ready) \o Some(dev.recv_tinyusb)
toHostMap == (IF Taken THEN <<>> ELSE Some(dev.xmit_tinyusb))
             \o FlattenSeq(dev.xmit_ready) \o Some(dev.xmit_glue)

Link == INSTANCE EtherLink
          WITH toDevice <- toDeviceMap, toHost <- toHostMap,
               received <- link.lwip, taken <- link.host, session <- link.session

\* Both sides see whole frames in order, none lost, none twice, between two
\* restarts of the interface, and between restarts every frame arrives.
ImplementsEtherLink == Link!Spec
ImplementsFairLink == Link!FairSpec
=============================================================================
