------------------------- MODULE NcmInterface_proofs -------------------------
(* Proofs about the network interface, for every number of blocks, datagrams, *)
(* attempts and every length of the event queue, wherever a bus reset, a      *)
(* sleep, a deselection, a halt or a bad block of the host falls:             *)
(*   - no block of either direction leaks or is in two places, unless the     *)
(*     host sent a bad block or cleared a halt in that session                *)
(*     (ConsistentInterface);                                                 *)
(*   - no completion finds the block it is about gone (CompletionsHaveBlocks); *)
(*   - reception never waits for nothing (Reception);                         *)
(*   - lwIP's link follows the bus (LinkIsUp);                                *)
(*   - the interface implements EtherLink: lwIP and the host get whole frames *)
(*     in order, none lost and none twice (InterfaceIsALink).                 *)
(* None is inductive by itself, as tud_task hears of everything late: between *)
(* an interrupt and the handling of its event the words of the driver say     *)
(* what was, and the queue what will be.  IInv says how the two agree: in     *)
(* what order events can be queued and for which stage of the host (Ordered,  *)
(* Suited, Sleeps), who owns a block while its completion is queued           *)
(* (Received, Sent), how many there are (Kept), and who renews the reception  *)
(* (GoesOn).  For the frames themselves LInv adds what an unfinished          *)
(* reception holds (Posted): the blocks are then two queues (Incoming,        *)
(* Outgoing) that every handler moves but does not change (Delivers), or      *)
(* empties (StartsAnew).                                                      *)
EXTENDS NcmInterface, WellFoundedInduction, SequenceTheorems, TLAPS

-----------------------------------------------------------------------------
(* Blocks.                                                                   *)

\* The constants, and how a frame number is followed by the next.
LEMMA Sizes ==
  /\ RecvN \in Nat \ {0} /\ XmitN \in Nat \ {0} /\ Datagrams \in Nat \ {0}
  /\ Budget \in Nat /\ Attempts \in Nat /\ MaxEvents \in Nat
  /\ None \notin Frames /\ None \notin Seq(Frames) /\ None # <<>>
  /\ None \notin FromHost /\ None \notin ToHost
  /\ 0 \in Frames
  /\ \A n \in Nat : n % Cardinality(Frames) \in Frames
  /\ Frames \subseteq Nat
<1>1. Cardinality(Frames) \in Nat \ {0} /\ Frames = 0 .. Cardinality(Frames) - 1
  BY NcmAssumption
<1>2. <<>> \in Seq(Frames) OBVIOUS
<1>3. \A c \in Nat \ {0} : \A n \in Nat : n % c \in 0 .. c - 1 OBVIOUS
<1>4. \A n \in Nat : n % Cardinality(Frames) \in Frames
  <2> DEFINE c == Cardinality(Frames)
  <2>1. c \in Nat \ {0} /\ Frames = 0 .. c - 1 BY <1>1
  <2> HIDE DEF c
  <2>2. \A n \in Nat : n % c \in 0 .. c - 1 BY <1>3, <2>1
  <2> QED BY <2>1, <2>2 DEF c
<1>5. /\ RecvN \in Nat \ {0} /\ XmitN \in Nat \ {0} /\ Datagrams \in Nat \ {0}
      /\ Budget \in Nat /\ Attempts \in Nat /\ MaxEvents \in Nat
  BY NcmAssumption
<1>6. /\ None \notin Frames /\ None \notin Seq(Frames) /\ None # <<>>
      /\ None \notin FromHost /\ None \notin ToHost
  BY <1>2, NcmAssumption DEF FromHost, ToHost
<1>7. 0 \in Frames /\ Frames \subseteq Nat BY <1>1
<1> QED BY <1>4, <1>5, <1>6, <1>7

\* What an update of one direction leaves alone.
SameBus(s, v) ==
  /\ v.connected = s.connected /\ v.suspended = s.suspended
  /\ v.mounted = s.mounted /\ v.open = s.open /\ v.link = s.link
SameIn(s, v) ==
  /\ v.xmit_free = s.xmit_free /\ v.xmit_ready = s.xmit_ready
  /\ v.xmit_tinyusb = s.xmit_tinyusb /\ v.xmit_glue = s.xmit_glue
  /\ v.busy_in = s.busy_in /\ v.in = s.in
SameOut(s, v) ==
  /\ v.alt = s.alt /\ v.recv_free = s.recv_free /\ v.recv_ready = s.recv_ready
  /\ v.recv_tinyusb = s.recv_tinyusb /\ v.recv_glue = s.recv_glue
  /\ v.busy_out = s.busy_out /\ v.out = s.out
  /\ v.received_frame = s.received_frame

\* A reception is posted where none was, or nothing happens.
LEMMA ReceptionStarted ==
  ASSUME NEW s \in Device
  PROVE  LET v == StartReception(s)
         IN  /\ v \in Device /\ SameBus(s, v) /\ SameIn(s, v)
             /\ v.alt = s.alt /\ v.received_frame = s.received_frame
             /\ RecvBlocks(v) = RecvBlocks(s)
             /\ v = s \/ /\ s.alt = 1 /\ s.recv_tinyusb = None /\ s.out = "idle"
                         /\ v.recv_tinyusb = <<>> /\ v.out = "armed"
             /\ v.recv_tinyusb = None
                => s.alt # 1 \/ s.busy_out \/ s.recv_free = 0 \/ s.out # "idle"
<1> DEFINE t == [s EXCEPT !.recv_tinyusb = <<>>, !.recv_free = @ - 1,
                          !.busy_out = TRUE, !.out = "armed"]
           idle == s.alt = 1 /\ s.recv_tinyusb = None /\ ~s.busy_out
                   /\ s.recv_free # 0 /\ s.out = "idle"
<1>1. CASE idle
  <2>1. StartReception(s) = t BY <1>1 DEF StartReception
  <2>2. /\ t \in Device /\ t.recv_free = s.recv_free - 1 /\ t.recv_tinyusb = <<>>
        /\ t.out = "armed" /\ SameBus(s, t) /\ SameIn(s, t) /\ t.alt = s.alt
        /\ t.recv_ready = s.recv_ready /\ t.recv_glue = s.recv_glue
        /\ t.received_frame = s.received_frame
    <3>1. s.recv_free \in 0 .. RecvN /\ t.recv_free = s.recv_free - 1 BY DEF Device
    <3>2. t.recv_free \in 0 .. RecvN
      <4> DEFINE f == s.recv_free
                 g == t.recv_free
      <4>1. f \in 0 .. RecvN /\ g = f - 1 /\ f # 0 BY <1>1, <3>1
      <4> HIDE DEF f, g
      <4>2. g \in 0 .. RecvN BY <4>1, Sizes
      <4> QED BY <4>2 DEF g
    <3>3. t \in Device BY <3>2 DEF Device
    <3> QED BY <3>3 DEF Device, SameBus, SameIn
  <2>3. s.recv_free \in Nat /\ Len(s.recv_ready) \in Nat BY Sizes DEF Device
  <2> HIDE DEF t
  <2>4. RecvBlocks(t) = RecvBlocks(s) BY <1>1, <2>2, <2>3, Sizes DEF RecvBlocks
  <2> QED BY <1>1, <2>1, <2>2, <2>4, Sizes
<1>2. CASE ~idle
  <2>1. StartReception(s) = s BY <1>2 DEF StartReception, Device
  <2> QED BY <1>2, <2>1 DEF SameBus, SameIn, Device
<1> QED BY <1>1, <1>2

\* The type of each word.
LEMMA DeviceTypes ==
  ASSUME NEW s \in Device
  PROVE  /\ s.recv_free \in 0 .. RecvN /\ s.recv_free \in Nat
         /\ s.recv_ready \in Seq(FromHost) /\ Len(s.recv_ready) \in Nat
         /\ s.recv_glue \in FromHost \cup {<<>>}
         /\ s.recv_tinyusb \in FromHost \cup {<<>>, None}
         /\ s.xmit_free \in 0 .. XmitN /\ s.xmit_free \in Nat
         /\ s.xmit_ready \in Seq(ToHost) /\ Len(s.xmit_ready) \in Nat
         /\ s.xmit_tinyusb \in ToHost \cup {None} /\ s.xmit_glue \in ToHost \cup {None}
         /\ s.out \in {"idle", "armed", "refusing"} /\ s.in \in {"idle", "armed"}
         /\ s.alt \in {0, 1} /\ s.busy_in \in BOOLEAN /\ s.busy_out \in BOOLEAN
         /\ s.connected \in BOOLEAN /\ s.mounted \in BOOLEAN /\ s.suspended \in BOOLEAN
         /\ s.link \in BOOLEAN /\ s.open \in BOOLEAN
         /\ s.received_frame \in Frames \cup {None}
<1>1. /\ s.recv_free \in 0 .. RecvN
      /\ s.recv_ready \in Seq(FromHost)
      /\ s.recv_glue \in FromHost \cup {<<>>}
      /\ s.recv_tinyusb \in FromHost \cup {<<>>, None}
      /\ s.xmit_free \in 0 .. XmitN
      /\ s.xmit_ready \in Seq(ToHost)
      /\ s.xmit_tinyusb \in ToHost \cup {None} /\ s.xmit_glue \in ToHost \cup {None}
  BY DEF Device
<1>2. /\ s.out \in {"idle", "armed", "refusing"} /\ s.in \in {"idle", "armed"}
      /\ s.alt \in {0, 1} /\ s.busy_in \in BOOLEAN /\ s.busy_out \in BOOLEAN
      /\ s.connected \in BOOLEAN /\ s.mounted \in BOOLEAN /\ s.suspended \in BOOLEAN
      /\ s.link \in BOOLEAN /\ s.open \in BOOLEAN
      /\ s.received_frame \in Frames \cup {None}
  BY DEF Device
<1> QED BY <1>1, <1>2, Sizes

LEMMA NoneLeft == \A S : \A q \in Seq(S) : q = <<>> <=> Len(q) = 0
OBVIOUS

\* The oldest block gives lwIP at most one frame, and stays until its last.
LEMMA Transferred ==
  ASSUME NEW s \in Device, RecvBlocks(s) <= RecvN
  PROVE  LET v == Transfer(s)
         IN  /\ v \in Device /\ SameBus(s, v) /\ SameIn(s, v)
             /\ v.alt = s.alt /\ v.recv_tinyusb = s.recv_tinyusb
             /\ v.busy_out = s.busy_out /\ v.out = s.out
             /\ RecvBlocks(v) = RecvBlocks(s)
             /\ s.received_frame # None => v.received_frame # None
             /\ v.received_frame = None => v.recv_glue = <<>> /\ v.recv_ready = <<>>
<1> DEFINE fetch == s.recv_glue = <<>> /\ s.recv_ready # <<>>
           block == IF fetch THEN Head(s.recv_ready) ELSE s.recv_glue
           ready == IF fetch THEN Tail(s.recv_ready) ELSE s.recv_ready
           v == Transfer(s)
<1>1. /\ s.recv_free \in Nat /\ Len(s.recv_ready) \in Nat
      /\ s.recv_ready \in Seq(FromHost) /\ s.recv_glue \in FromHost \cup {<<>>}
      /\ s.recv_free \in 0 .. RecvN
  BY DeviceTypes
<1>2. ASSUME block # <<>>
      PROVE  /\ block \in FromHost /\ ready \in Seq(FromHost) /\ Len(ready) \in Nat
             /\ Len(s.recv_ready) + (IF s.recv_glue = <<>> THEN 0 ELSE 1) = Len(ready) + 1
  <2>1. CASE fetch
    <3>1. /\ Head(s.recv_ready) \in FromHost /\ Tail(s.recv_ready) \in Seq(FromHost)
          /\ Len(Tail(s.recv_ready)) = Len(s.recv_ready) - 1 /\ Len(s.recv_ready) # 0
      BY <1>1, <2>1
    <3> QED BY <1>1, <2>1, <3>1
  <2>2. CASE ~fetch BY <1>1, <1>2, <2>2
  <2> QED BY <2>1, <2>2
<1>3. CASE block = <<>>
  <2>1. Transfer(s) = s BY <1>3 DEF Transfer
  <2>2. ~fetch
    <3>1. fetch => Head(s.recv_ready) \in FromHost BY <1>1
    <3> QED BY <1>3, <3>1 DEF FromHost
  <2>3. s.recv_glue = <<>> /\ s.recv_ready = <<>> BY <1>3, <2>2
  <2> QED BY <2>1, <2>3 DEF SameBus, SameIn
<1>4. CASE block # <<>> /\ s.received_frame # None
  <2> DEFINE t == [s EXCEPT !.recv_glue = block, !.recv_ready = ready]
  <2>1. Transfer(s) = t BY <1>4 DEF Transfer, Accepted
  <2> HIDE DEF fetch, block, ready
  <2>2. t \in Device BY <1>2, <1>4 DEF Device
  <2>3. /\ SameBus(s, t) /\ SameIn(s, t) /\ t.alt = s.alt
        /\ t.recv_tinyusb = s.recv_tinyusb /\ t.busy_out = s.busy_out /\ t.out = s.out
        /\ t.recv_free = s.recv_free /\ t.recv_glue = block /\ t.recv_ready = ready
        /\ t.received_frame = s.received_frame
    BY DEF Device, SameBus, SameIn
  <2> HIDE DEF t
  <2>4. RecvBlocks(t) = RecvBlocks(s)
    <3> DEFINE c == IF s.recv_tinyusb = None THEN 0 ELSE 1
               d == IF s.recv_glue = <<>> THEN 0 ELSE 1
    <3>1. RecvBlocks(t) = s.recv_free + Len(ready) + c + 1 BY <1>4, <2>3 DEF RecvBlocks
    <3>2. RecvBlocks(s) = s.recv_free + Len(s.recv_ready) + c + d BY DEF RecvBlocks
    <3>3. c \in Nat /\ d \in Nat OBVIOUS
    <3>4. Len(s.recv_ready) + d = Len(ready) + 1 /\ Len(ready) \in Nat BY <1>2, <1>4
    <3> HIDE DEF c, d
    <3>5. s.recv_free + Len(ready) + c + 1 = s.recv_free + Len(s.recv_ready) + c + d
      <4> DEFINE f == s.recv_free
                 q == Len(s.recv_ready)
                 r == Len(ready)
      <4>1. f \in Nat /\ q \in Nat /\ r \in Nat /\ q + d = r + 1 BY <1>1, <3>4
      <4> HIDE DEF f, q, r
      <4>2. f + r + c + 1 = f + q + c + d BY <3>3, <4>1
      <4> QED BY <4>2 DEF f, q, r
    <3> QED BY <3>1, <3>2, <3>5
  <2> QED BY <1>4, <2>1, <2>2, <2>3, <2>4
<1>5. CASE block # <<>> /\ s.received_frame = None
  <2> DEFINE free == IF Len(block) = 1 THEN s.recv_free + 1 ELSE s.recv_free
             t == [s EXCEPT !.recv_glue = Tail(block), !.recv_ready = ready,
                       !.recv_free = free, !.received_frame = Head(block)]
  <2>1. Transfer(s) = t BY <1>5 DEF Transfer, Accepted
  <2> HIDE DEF fetch, block, ready
  <2>2. /\ Head(block) \in Frames /\ Tail(block) \in FromHost \cup {<<>>}
        /\ Tail(block) = <<>> <=> Len(block) = 1
    <3>1. block \in Seq(Frames) /\ block # <<>> BY <1>2, <1>5 DEF FromHost
    <3>2. /\ Head(block) \in Frames /\ Tail(block) \in Seq(Frames)
          /\ Len(Tail(block)) = Len(block) - 1 /\ Len(block) \in Nat
      BY <3>1
    <3>3. Tail(block) = <<>> <=> Len(Tail(block)) = 0 BY <3>2, NoneLeft
    <3> QED BY <3>2, <3>3 DEF FromHost
  <2>3. free \in 0 .. RecvN /\ free \in Nat
    <3> DEFINE c == IF s.recv_tinyusb = None THEN 0 ELSE 1
               d == IF s.recv_glue = <<>> THEN 0 ELSE 1
    <3>2. RecvBlocks(s) = s.recv_free + Len(s.recv_ready) + c + d BY DEF RecvBlocks
    <3>3. c \in Nat /\ d \in Nat OBVIOUS
    <3>4. Len(s.recv_ready) + d = Len(ready) + 1 /\ Len(ready) \in Nat BY <1>2, <1>5
    <3> HIDE DEF c, d
    <3>5. s.recv_free + Len(ready) + c + 1 = s.recv_free + Len(s.recv_ready) + c + d
      <4> DEFINE f == s.recv_free
                 q == Len(s.recv_ready)
                 r == Len(ready)
      <4>1. f \in Nat /\ q \in Nat /\ r \in Nat /\ q + d = r + 1 BY <1>1, <3>4
      <4> HIDE DEF f, q, r
      <4>2. f + r + c + 1 = f + q + c + d BY <3>3, <4>1
      <4> QED BY <4>2 DEF f, q, r
    <3>6. s.recv_free + Len(ready) + c + 1 <= RecvN BY <3>2, <3>5
    <3>7. s.recv_free + 1 <= RecvN BY <1>1, <3>3, <3>4, <3>6, Sizes
    <3> QED BY <1>1, <3>7, Sizes
  <2>4. free = IF Tail(block) = <<>> THEN s.recv_free + 1 ELSE s.recv_free BY <2>2
  <2> HIDE DEF free
  <2>5. t \in Device BY ZenonT(60), <1>2, <1>5, <2>2, <2>3 DEF Device
  <2>6. /\ SameBus(s, t) /\ SameIn(s, t) /\ t.alt = s.alt
        /\ t.recv_tinyusb = s.recv_tinyusb /\ t.busy_out = s.busy_out /\ t.out = s.out
        /\ t.recv_free = free /\ t.recv_glue = Tail(block) /\ t.recv_ready = ready
        /\ t.received_frame = Head(block)
    BY DEF Device, SameBus, SameIn
  <2> HIDE DEF t
  <2>7. RecvBlocks(t) = RecvBlocks(s)
    <3> DEFINE c == IF s.recv_tinyusb = None THEN 0 ELSE 1
               d == IF s.recv_glue = <<>> THEN 0 ELSE 1
               e == IF Tail(block) = <<>> THEN 0 ELSE 1
    <3>1. RecvBlocks(t) = free + Len(ready) + c + e BY <2>6 DEF RecvBlocks
    <3>2. RecvBlocks(s) = s.recv_free + Len(s.recv_ready) + c + d BY DEF RecvBlocks
    <3>3. c \in Nat /\ d \in Nat /\ e \in Nat OBVIOUS
    <3>4. Len(s.recv_ready) + d = Len(ready) + 1 /\ Len(ready) \in Nat BY <1>2, <1>5
    <3>5. free + e = s.recv_free + 1 BY <2>4, <1>1
    <3> HIDE DEF c, d, e
    <3>6. free + Len(ready) + c + e = s.recv_free + Len(s.recv_ready) + c + d
      <4> DEFINE f == s.recv_free
                 q == Len(s.recv_ready)
                 r == Len(ready)
      <4>1. f \in Nat /\ q \in Nat /\ r \in Nat /\ q + d = r + 1 /\ free + e = f + 1
        BY <1>1, <3>4, <3>5
      <4> HIDE DEF f, q, r
      <4>2. free + r + c + e = f + q + c + d BY <2>3, <3>3, <4>1
      <4> QED BY <4>2 DEF f, q, r
    <3> QED BY <3>1, <3>2, <3>6
  <2>8. t.received_frame # None BY <2>2, <2>6, Sizes
  <2> QED BY <1>5, <2>1, <2>5, <2>6, <2>7, <2>8
<1> QED BY <1>3, <1>4, <1>5

\* A renewal starts a reception, unless lwIP has to take a frame first.
LEMMA Renewed ==
  ASSUME NEW s \in Device, RecvBlocks(s) <= RecvN
  PROVE  LET v == Renew(s)
         IN  /\ v \in Device /\ SameBus(s, v) /\ SameIn(s, v) /\ v.alt = s.alt
             /\ RecvBlocks(v) = RecvBlocks(s)
             /\ \/ v.recv_tinyusb = s.recv_tinyusb /\ v.out = s.out /\ v.busy_out = s.busy_out
                \/ /\ s.alt = 1 /\ s.recv_tinyusb = None /\ s.out = "idle"
                   /\ v.recv_tinyusb = <<>> /\ v.out = "armed"
             /\ s.received_frame # None => v.received_frame # None
             /\ /\ s.alt = 1 /\ s.recv_tinyusb = None /\ ~s.busy_out /\ s.out = "idle"
                /\ RecvBlocks(s) = RecvN
                => v.recv_tinyusb # None \/ v.received_frame # None
<1> DEFINE t == Transfer(s)
           v == StartReception(t)
<1>1. Renew(s) = v BY DEF Renew
<1>2. /\ t \in Device /\ SameBus(s, t) /\ SameIn(s, t)
      /\ t.alt = s.alt /\ t.recv_tinyusb = s.recv_tinyusb
      /\ t.busy_out = s.busy_out /\ t.out = s.out
      /\ RecvBlocks(t) = RecvBlocks(s)
      /\ s.received_frame # None => t.received_frame # None
      /\ t.received_frame = None => t.recv_glue = <<>> /\ t.recv_ready = <<>>
  BY Transferred
<1> HIDE DEF t
<1>3. /\ v \in Device /\ SameBus(t, v) /\ SameIn(t, v)
      /\ v.alt = t.alt /\ v.received_frame = t.received_frame
      /\ RecvBlocks(v) = RecvBlocks(t)
      /\ v = t \/ /\ t.alt = 1 /\ t.recv_tinyusb = None /\ t.out = "idle"
                  /\ v.recv_tinyusb = <<>> /\ v.out = "armed"
      /\ v.recv_tinyusb = None
         => t.alt # 1 \/ t.busy_out \/ t.recv_free = 0 \/ t.out # "idle"
  BY <1>2, ReceptionStarted
<1> HIDE DEF v
<1>4. ASSUME s.recv_tinyusb = None, RecvBlocks(s) = RecvN, t.received_frame = None
      PROVE  t.recv_free # 0
  <2>1. t.recv_free + 0 + 0 + 0 = RecvN BY <1>2, <1>4 DEF RecvBlocks
  <2> QED BY <2>1, Sizes
<1>5. SameBus(s, v) /\ SameIn(s, v) BY <1>2, <1>3 DEF SameBus, SameIn
<1> QED BY <1>1, <1>2, <1>3, <1>4, <1>5

\* A good block is kept until lwIP has it, a bad one is lost.
LEMMA ReceivedBlock ==
  ASSUME NEW s \in Device, RecvBlocks(s) <= RecvN, NEW valid \in BOOLEAN,
         s.recv_tinyusb # None, valid => s.recv_tinyusb # <<>>,
         ~s.busy_out, s.out = "idle"
  PROVE  LET v == BlockReceived(s, valid)
         IN  /\ v \in Device /\ SameBus(s, v) /\ SameIn(s, v) /\ v.alt = s.alt
             /\ RecvBlocks(v) = IF valid THEN RecvBlocks(s) ELSE RecvBlocks(s) - 1
             /\ v.recv_tinyusb = None => v.out = "idle" /\ ~v.busy_out
             /\ v.recv_tinyusb # None => v.out = "armed" /\ s.alt = 1
             /\ valid /\ s.alt = 1 /\ RecvBlocks(s) = RecvN
                => v.recv_tinyusb # None \/ v.received_frame # None
<1> DEFINE ready == IF valid THEN Append(s.recv_ready, s.recv_tinyusb) ELSE s.recv_ready
           t == [s EXCEPT !.recv_tinyusb = None, !.recv_ready = ready]
<1>1. BlockReceived(s, valid) = Renew(t) BY DEF BlockReceived
<1>2. /\ s.recv_free \in Nat /\ Len(s.recv_ready) \in Nat
      /\ s.recv_ready \in Seq(FromHost) /\ s.recv_tinyusb \in FromHost \cup {<<>>, None}
  BY DeviceTypes
<1>3. /\ ready \in Seq(FromHost) /\ Len(ready) \in Nat
      /\ Len(ready) = IF valid THEN Len(s.recv_ready) + 1 ELSE Len(s.recv_ready)
  BY <1>2
<1> HIDE DEF ready
<1>4. t \in Device BY <1>3 DEF Device
<1>5. /\ SameBus(s, t) /\ SameIn(s, t) /\ t.alt = s.alt /\ t.recv_tinyusb = None
      /\ t.busy_out = s.busy_out /\ t.out = s.out /\ t.recv_ready = ready
      /\ t.recv_free = s.recv_free /\ t.recv_glue = s.recv_glue
  BY DEF Device, SameBus, SameIn
<1> HIDE DEF t
<1>6. RecvBlocks(t) = IF valid THEN RecvBlocks(s) ELSE RecvBlocks(s) - 1
  BY SMTT(40), <1>2, <1>3, <1>5 DEF RecvBlocks
<1>7. RecvBlocks(s) \in Int BY <1>2 DEF RecvBlocks
<1>8. RecvBlocks(t) <= RecvN BY <1>6, <1>7, Sizes
<1> DEFINE v == Renew(t)
<1>9. /\ v \in Device /\ SameBus(t, v) /\ SameIn(t, v) /\ v.alt = t.alt
      /\ RecvBlocks(v) = RecvBlocks(t)
      /\ \/ v.recv_tinyusb = t.recv_tinyusb /\ v.out = t.out /\ v.busy_out = t.busy_out
         \/ /\ t.alt = 1 /\ t.recv_tinyusb = None /\ t.out = "idle"
            /\ v.recv_tinyusb = <<>> /\ v.out = "armed"
      /\ /\ t.alt = 1 /\ t.recv_tinyusb = None /\ ~t.busy_out /\ t.out = "idle"
         /\ RecvBlocks(t) = RecvN
         => v.recv_tinyusb # None \/ v.received_frame # None
  BY <1>4, <1>8, Renewed
<1> HIDE DEF v
<1>10. SameBus(s, v) /\ SameIn(s, v) BY <1>5, <1>9 DEF SameBus, SameIn
<1> QED BY <1>1, <1>5, <1>6, <1>9, <1>10, Sizes DEF v

\* What is started is armed and busy, and only where nothing was in progress.
LEMMA TransmissionStarted ==
  ASSUME NEW s \in Device, s.alt = 1 /\ s.in = "armed" => s.busy_in
  PROVE  LET v == StartTransmission(s)
         IN  /\ v \in Device /\ SameBus(s, v) /\ SameOut(s, v)
             /\ XmitBlocks(v) = XmitBlocks(s)
             /\ v = s \/ /\ s.xmit_tinyusb = None /\ ~s.busy_in /\ s.alt = 1
                         /\ v.xmit_tinyusb # None /\ v.busy_in /\ v.in = "armed"
<1> DEFINE ready == s.xmit_ready # <<>>
           block == IF ready THEN Head(s.xmit_ready) ELSE s.xmit_glue
           rest == IF ready THEN Tail(s.xmit_ready) ELSE <<>>
           glue == IF ready THEN s.xmit_glue ELSE None
           stays == \/ s.xmit_tinyusb # None \/ s.alt # 1 \/ s.busy_in
                    \/ block = None \/ block = <<>>
           t == [s EXCEPT !.xmit_tinyusb = block, !.xmit_ready = rest,
                          !.xmit_glue = glue,
                          !.busy_in = (s.in = "idle"), !.in = "armed"]
<1>1. CASE stays
  <2>1. StartTransmission(s) = s BY <1>1 DEF StartTransmission
  <2> QED BY <2>1 DEF SameBus, SameOut
<1>2. CASE ~stays
  <2>1. StartTransmission(s) = t BY <1>2 DEF StartTransmission, Device
  <2>2. /\ s.xmit_ready \in Seq(ToHost) /\ Len(s.xmit_ready) \in Nat
        /\ s.xmit_glue \in ToHost \cup {None} /\ s.in \in {"idle", "armed"}
        /\ s.xmit_free \in Nat
    BY DeviceTypes
  <2> DEFINE d == IF glue = None THEN 0 ELSE 1
             e == IF s.xmit_glue = None THEN 0 ELSE 1
  <2>3. ready => /\ Head(s.xmit_ready) \in ToHost /\ Tail(s.xmit_ready) \in Seq(ToHost)
                 /\ Len(Tail(s.xmit_ready)) = Len(s.xmit_ready) - 1
                 /\ Len(s.xmit_ready) # 0
    BY <2>2
  <2>4. ~ready => s.xmit_ready = <<>> OBVIOUS
  <2>5. block \in ToHost
    <3>1. CASE ready BY <2>3, <3>1
    <3>2. CASE ~ready BY <1>2, <2>2, <3>2
    <3> QED BY <3>1, <3>2
  <2>6. rest \in Seq(ToHost) /\ Len(rest) \in Nat /\ glue \in ToHost \cup {None}
    <3>1. CASE ready BY <2>2, <2>3, <3>1
    <3>2. CASE ~ready BY <3>2
    <3> QED BY <3>1, <3>2
  <2>7. Len(rest) + d + 1 = Len(s.xmit_ready) + e
    <3>1. CASE ready
      <4>1. d = e /\ e \in Nat BY <3>1
      <4>2. Len(rest) = Len(s.xmit_ready) - 1 BY <2>3, <3>1
      <4> HIDE DEF d, e, rest
      <4> QED BY <2>2, <4>1, <4>2
    <3>2. CASE ~ready
      <4>1. d = 0 /\ e = 1 BY <1>2, <3>2
      <4>2. Len(rest) = 0 /\ Len(s.xmit_ready) = 0 BY <2>4, <3>2
      <4> HIDE DEF d, e, rest
      <4> QED BY <4>1, <4>2
    <3> QED BY <3>1, <3>2
  <2>8. s.in = "idle" BY <1>2, <2>2
  <2>9. s.xmit_tinyusb = None /\ ~s.busy_in /\ s.alt = 1 BY <1>2
  <2> HIDE DEF ready, block, rest, glue, stays, d, e
  <2> DEFINE i == s.in = "idle"
             w == [s EXCEPT !.xmit_tinyusb = block, !.xmit_ready = rest,
                            !.xmit_glue = glue, !.busy_in = i, !.in = "armed"]
  <2>10. i \in BOOLEAN OBVIOUS
  <2> HIDE DEF i
  <2>11. block \in ToHost \cup {None} /\ rest \in Seq(ToHost) /\ glue \in ToHost \cup {None}
    BY <2>5, <2>6
  <2>12. w \in Device BY <2>10, <2>11 DEF Device
  <2>13. t \in Device BY <2>12 DEF i
  <2>14. /\ SameBus(s, t) /\ SameOut(s, t) /\ t.xmit_tinyusb = block
        /\ t.xmit_ready = rest /\ t.xmit_glue = glue /\ t.xmit_free = s.xmit_free
        /\ t.busy_in = (s.in = "idle") /\ t.in = "armed"
    BY DEF Device, SameBus, SameOut
  <2> HIDE DEF t
  <2>15. XmitBlocks(t) = XmitBlocks(s)
    <3> DEFINE f == s.xmit_free
               q == Len(s.xmit_ready)
               r == Len(rest)
    <3>0. block # None BY <2>5, Sizes
    <3>1. XmitBlocks(t) = f + r + 1 + d BY <2>14, <3>0 DEF XmitBlocks, d
    <3>2. XmitBlocks(s) = f + q + 0 + e BY <2>9 DEF XmitBlocks, e
    <3>3. r + d + 1 = q + e BY <2>7
    <3>4. f \in Nat /\ q \in Nat /\ r \in Nat /\ d \in Nat /\ e \in Nat BY <2>2, <2>6 DEF d, e
    <3> HIDE DEF d, e, f, q, r
    <3>5. f + r + 1 + d = f + q + 0 + e BY <3>3, <3>4
    <3> QED BY <3>1, <3>2, <3>5
  <2>16. block # None BY <2>5, Sizes
  <2> QED BY <2>1, <2>8, <2>9, <2>13, <2>14, <2>15, <2>16
<1> QED BY <1>1, <1>2

\* The block just transmitted is free again.
LEMMA BlockFreed ==
  ASSUME NEW s \in Device, XmitBlocks(s) = XmitN
  PROVE  LET free == IF s.xmit_tinyusb = None THEN s.xmit_free ELSE s.xmit_free + 1
         IN  /\ free \in 0 .. XmitN
             /\ free + Len(s.xmit_ready) + 0 + (IF s.xmit_glue = None THEN 0 ELSE 1) = XmitN
<1> DEFINE free == IF s.xmit_tinyusb = None THEN s.xmit_free ELSE s.xmit_free + 1
<1>1. /\ s.xmit_free \in Nat /\ s.xmit_free \in 0 .. XmitN /\ Len(s.xmit_ready) \in Nat
      /\ s.xmit_tinyusb \in ToHost \cup {None}
  BY DeviceTypes
<1>2. free \in Nat /\ free = s.xmit_free + (IF s.xmit_tinyusb = None THEN 0 ELSE 1)
  BY <1>1
<1> HIDE DEF free
<1>3. free + Len(s.xmit_ready) + 0 + (IF s.xmit_glue = None THEN 0 ELSE 1) = XmitN
  <2> DEFINE f == s.xmit_free
             q == Len(s.xmit_ready)
             d == IF s.xmit_tinyusb = None THEN 0 ELSE 1
             e == IF s.xmit_glue = None THEN 0 ELSE 1
  <2>1. f + q + d + e = XmitN BY DEF XmitBlocks
  <2>2. f \in Nat /\ q \in Nat /\ d \in Nat /\ e \in Nat /\ free = f + d /\ free \in Nat
    BY <1>1, <1>2
  <2>3. f + q + d + e = free + q + 0 + e
    <3> HIDE DEF d, e, f, q
    <3> QED BY <2>2
  <2> QED BY <2>1, <2>3
<1>4. free \in 0 .. XmitN
  <2> DEFINE q == Len(s.xmit_ready)
             e == IF s.xmit_glue = None THEN 0 ELSE 1
  <2>1. q \in Nat /\ e \in Nat /\ free + q + 0 + e = XmitN BY <1>1, <1>3
  <2> HIDE DEF q, e
  <2> QED BY <1>2, <2>1, Sizes
<1> QED BY <1>3, <1>4 DEF free

\* The next one is started, or the packet that ends a full one.
LEMMA SentBlock ==
  ASSUME NEW s \in Device, XmitBlocks(s) = XmitN, NEW full \in BOOLEAN,
         full => s.xmit_tinyusb # None, ~s.busy_in, s.in = "idle"
  PROVE  LET v == BlockSent(s, full)
         IN  /\ v \in Device /\ SameBus(s, v) /\ SameOut(s, v)
             /\ XmitBlocks(v) = XmitN
             /\ v.in = "armed" => v.busy_in
<1> DEFINE free == IF s.xmit_tinyusb = None THEN s.xmit_free ELSE s.xmit_free + 1
           t == [s EXCEPT !.xmit_tinyusb = None, !.xmit_free = free]
           u == [t EXCEPT !.busy_in = (s.in = "idle"), !.in = "armed"]
<1>1. BlockSent(s, full) = IF full /\ s.alt = 1 /\ ~s.busy_in THEN u
                           ELSE StartTransmission(t)
  BY DEF BlockSent, Device
<1>3. /\ free \in 0 .. XmitN
      /\ free + Len(s.xmit_ready) + 0 + (IF s.xmit_glue = None THEN 0 ELSE 1) = XmitN
  BY BlockFreed
<1> HIDE DEF free
<1>6. t \in Device /\ u \in Device BY ZenonT(60), <1>3 DEF Device
<1>7. /\ SameBus(s, t) /\ SameOut(s, t) /\ t.xmit_free = free
      /\ t.xmit_ready = s.xmit_ready /\ t.xmit_tinyusb = None
      /\ t.xmit_glue = s.xmit_glue /\ t.busy_in = s.busy_in /\ t.in = s.in
  BY DEF Device, SameBus, SameOut
<1>8. /\ SameBus(s, u) /\ SameOut(s, u) /\ u.xmit_free = free
      /\ u.xmit_ready = s.xmit_ready /\ u.xmit_tinyusb = None
      /\ u.xmit_glue = s.xmit_glue /\ u.busy_in = (s.in = "idle") /\ u.in = "armed"
  BY DEF Device, SameBus, SameOut
<1> HIDE DEF t, u
<1>9. XmitBlocks(t) = XmitN /\ XmitBlocks(u) = XmitN
  BY <1>3, <1>7, <1>8 DEF XmitBlocks
<1>10. t.in = "armed" => t.busy_in BY <1>7
<1> DEFINE v == StartTransmission(t)
<1>11. /\ v \in Device /\ SameBus(t, v) /\ SameOut(t, v)
       /\ XmitBlocks(v) = XmitBlocks(t)
       /\ v = t \/ /\ t.xmit_tinyusb = None /\ ~t.busy_in /\ t.alt = 1
                   /\ v.xmit_tinyusb # None /\ v.busy_in /\ v.in = "armed"
  BY <1>6, <1>10, TransmissionStarted
<1> HIDE DEF v
<1>12. SameBus(s, v) /\ SameOut(s, v) BY <1>7, <1>11 DEF SameBus, SameOut
<1> QED BY <1>1, <1>6, <1>8, <1>9, <1>10, <1>11, <1>12 DEF v

\* A block with room is the one being filled, or a free one, or there is none.
LEMMA RoomMade ==
  ASSUME NEW s \in Device
  PROVE  \E free \in 0 .. XmitN, ready \in Seq(ToHost),
            glue \in {b \in Seq(Frames) : Len(b) < Datagrams} \cup {None} :
           /\ Room(s) = [s EXCEPT !.xmit_ready = ready, !.xmit_glue = glue,
                                  !.xmit_free = free]
           /\ free + Len(ready) + (IF glue = None THEN 0 ELSE 1)
                = s.xmit_free + Len(s.xmit_ready) + (IF s.xmit_glue = None THEN 0 ELSE 1)
<1> DEFINE G == {b \in Seq(Frames) : Len(b) < Datagrams} \cup {None}
           full == IF s.xmit_glue = None THEN s.xmit_ready
                   ELSE Append(s.xmit_ready, s.xmit_glue)
           d == IF s.xmit_glue = None THEN 0 ELSE 1
           q == Len(s.xmit_ready)
           r == Len(full)
           f == s.xmit_free
<1>1. /\ s.xmit_ready \in Seq(ToHost) /\ q \in Nat /\ f \in Nat /\ f \in 0 .. XmitN
      /\ s.xmit_glue \in ToHost \cup {None}
  BY DeviceTypes
<1>2. full \in Seq(ToHost) /\ r \in Nat /\ r = q + d
  <2>1. CASE s.xmit_glue = None BY <1>1, <2>1
  <2>2. CASE s.xmit_glue # None
    <3>1. full = Append(s.xmit_ready, s.xmit_glue) /\ s.xmit_glue \in ToHost BY <1>1, <2>2
    <3>2. full \in Seq(ToHost) /\ Len(full) = Len(s.xmit_ready) + 1 BY <1>1, <3>1
    <3>3. d = 1 BY <2>2
    <3>4. r = q + 1 /\ q \in Nat BY <1>1, <3>2
    <3> HIDE DEF full, r, q, d
    <3> QED BY <3>2, <3>3, <3>4
  <2> QED BY <2>1, <2>2
<1>3. <<>> \in G /\ None \in G /\ <<>> # None BY Sizes
<1>4. CASE Fits(s)
  <2>1. s.xmit_glue \in G BY <1>1, <1>4 DEF Fits, ToHost
  <2>2. Room(s) = s BY <1>4 DEF Room
  <2>3. s = [s EXCEPT !.xmit_ready = s.xmit_ready, !.xmit_glue = s.xmit_glue,
                      !.xmit_free = s.xmit_free]
    BY DEF Device
  <2>4. Room(s) = [s EXCEPT !.xmit_ready = s.xmit_ready, !.xmit_glue = s.xmit_glue,
                      !.xmit_free = s.xmit_free]
    BY <2>2, <2>3
  <2> HIDE DEF G
  <2> QED BY <1>1, <2>1, <2>4 DEF G
<1>5. CASE ~Fits(s) /\ s.xmit_free = 0
  <2>1. Room(s) = [s EXCEPT !.xmit_ready = full, !.xmit_glue = None]
    BY <1>5 DEF Room, SetupNext
  <2>2. Room(s) = [s EXCEPT !.xmit_ready = full, !.xmit_glue = None, !.xmit_free = 0]
    <3> HIDE DEF full
    <3> QED BY <1>5, <2>1 DEF Device
  <2>3. 0 + r + 0 = f + q + d
    <3> HIDE DEF r, q, d
    <3> QED BY <1>1, <1>2, <1>5
  <2>4. 0 + Len(full) + (IF None = None THEN 0 ELSE 1) = s.xmit_free + Len(s.xmit_ready) + d
    BY <2>3
  <2> HIDE DEF G, full
  <2> QED BY <1>1, <1>2, <1>3, <1>5, <2>2, <2>4 DEF G
<1>6. CASE ~Fits(s) /\ s.xmit_free # 0
  <2> DEFINE g == s.xmit_free - 1
  <2>1. Room(s) = [s EXCEPT !.xmit_ready = full, !.xmit_glue = <<>>, !.xmit_free = g]
    BY <1>6 DEF Room, SetupNext
  <2>2. g \in 0 .. XmitN BY <1>1, <1>6, Sizes
  <2>3. g + r + 1 = f + q + d
    <3>1. g = f - 1 /\ f \in Nat /\ q \in Nat /\ r \in Nat /\ d \in Nat /\ r = q + d
      BY <1>1, <1>2
    <3> HIDE DEF f, g, r, q, d
    <3> QED BY <3>1
  <2>4. g + Len(full) + (IF <<>> = None THEN 0 ELSE 1) = s.xmit_free + Len(s.xmit_ready) + d
    BY <2>3, <1>3
  <2> HIDE DEF G, full, g
  <2> QED BY <1>1, <1>2, <1>3, <1>6, <2>1, <2>2, <2>4 DEF G
<1> QED BY <1>4, <1>5, <1>6

\* No block to fill: the one that was full waits to be transmitted.
LEMMA NoRoom ==
  ASSUME NEW s \in Device, Room(s).xmit_glue = None
  PROVE  LET v == Room(s)
         IN  /\ v \in Device /\ SameBus(s, v) /\ SameOut(s, v)
             /\ XmitBlocks(v) = XmitBlocks(s) /\ v.xmit_tinyusb = s.xmit_tinyusb
             /\ v.busy_in = s.busy_in /\ v.in = s.in
<1>1. PICK free \in 0 .. XmitN, ready \in Seq(ToHost),
           glue \in {b \in Seq(Frames) : Len(b) < Datagrams} \cup {None} :
        /\ Room(s) = [s EXCEPT !.xmit_ready = ready, !.xmit_glue = glue,
                               !.xmit_free = free]
        /\ free + Len(ready) + (IF glue = None THEN 0 ELSE 1)
             = s.xmit_free + Len(s.xmit_ready) + (IF s.xmit_glue = None THEN 0 ELSE 1)
  BY RoomMade
<1> DEFINE v == [s EXCEPT !.xmit_ready = ready, !.xmit_glue = glue, !.xmit_free = free]
<1>2. glue = None
  <2>1. v.xmit_glue = glue BY DEF Device
  <2> QED BY <1>1, <2>1
<1>3. v \in Device BY ZenonT(60), <1>2 DEF Device
<1>4. /\ SameBus(s, v) /\ SameOut(s, v) /\ v.xmit_free = free /\ v.xmit_ready = ready
      /\ v.xmit_glue = glue /\ v.xmit_tinyusb = s.xmit_tinyusb
      /\ v.busy_in = s.busy_in /\ v.in = s.in
  BY DEF Device, SameBus, SameOut
<1> HIDE DEF v
<1>5. XmitBlocks(v) = XmitBlocks(s)
  <2> DEFINE d == IF glue = None THEN 0 ELSE 1
             e == IF s.xmit_glue = None THEN 0 ELSE 1
             c == IF s.xmit_tinyusb = None THEN 0 ELSE 1
             q == Len(s.xmit_ready)
             r == Len(ready)
             f == s.xmit_free
  <2>1. XmitBlocks(v) = free + r + c + d /\ XmitBlocks(s) = f + q + c + e
    BY <1>4 DEF XmitBlocks
  <2>2. /\ free + r + d = f + q + e /\ free \in Int /\ r \in Nat /\ c \in Nat
        /\ d \in Nat /\ f \in Nat /\ q \in Nat /\ e \in Nat
    BY <1>1, DeviceTypes
  <2>3. free + r + c + d = f + q + c + e
    <3> HIDE DEF c, d, e, f, q, r
    <3> QED BY <2>2
  <2> QED BY <2>1, <2>3
<1> QED BY <1>1, <1>3, <1>4, <1>5 DEF v

\* A frame is appended to a block with room for it.
LEMMA Submitted ==
  ASSUME NEW s \in Device, Room(s).xmit_glue # None, NEW n \in Frames
  PROVE  LET w == [Room(s) EXCEPT !.xmit_glue = Append(@, n)]
         IN  /\ w \in Device /\ SameBus(s, w) /\ SameOut(s, w)
             /\ XmitBlocks(w) = XmitBlocks(s) /\ w.xmit_tinyusb = s.xmit_tinyusb
             /\ w.busy_in = s.busy_in /\ w.in = s.in
<1>1. PICK free \in 0 .. XmitN, ready \in Seq(ToHost),
           glue \in {b \in Seq(Frames) : Len(b) < Datagrams} \cup {None} :
        /\ Room(s) = [s EXCEPT !.xmit_ready = ready, !.xmit_glue = glue,
                               !.xmit_free = free]
        /\ free + Len(ready) + (IF glue = None THEN 0 ELSE 1)
             = s.xmit_free + Len(s.xmit_ready) + (IF s.xmit_glue = None THEN 0 ELSE 1)
  BY RoomMade
<1> DEFINE u == [s EXCEPT !.xmit_ready = ready, !.xmit_glue = glue, !.xmit_free = free]
           block == Append(glue, n)
           w == [s EXCEPT !.xmit_ready = ready, !.xmit_glue = block, !.xmit_free = free]
<1>2. glue # None
  <2>1. u.xmit_glue = glue BY DEF Device
  <2> QED BY <1>1, <2>1
<1>3. block \in ToHost
  <2>1. glue \in Seq(Frames) /\ Len(glue) < Datagrams /\ Len(glue) \in Nat BY <1>2
  <2> QED BY <2>1, Sizes DEF ToHost
<1> HIDE DEF block
<1>4. [Room(s) EXCEPT !.xmit_glue = Append(@, n)] = w
  <2>1. [u EXCEPT !.xmit_glue = Append(u.xmit_glue, n)] = w
    <3>1. u.xmit_glue = glue BY DEF Device
    <3> QED BY <3>1 DEF Device, block
  <2> QED BY <1>1, <2>1
<1>5. w \in Device BY <1>3 DEF Device
<1>6. /\ SameBus(s, w) /\ SameOut(s, w) /\ w.xmit_free = free /\ w.xmit_ready = ready
      /\ w.xmit_glue = block /\ w.xmit_tinyusb = s.xmit_tinyusb
      /\ w.busy_in = s.busy_in /\ w.in = s.in
  BY DEF Device, SameBus, SameOut
<1> HIDE DEF w
<1>7. XmitBlocks(w) = XmitBlocks(s)
  <2> DEFINE e == IF s.xmit_glue = None THEN 0 ELSE 1
             c == IF s.xmit_tinyusb = None THEN 0 ELSE 1
             q == Len(s.xmit_ready)
             r == Len(ready)
             f == s.xmit_free
  <2>1. block # None BY <1>3, Sizes
  <2>2. XmitBlocks(w) = free + r + c + 1 /\ XmitBlocks(s) = f + q + c + e
    BY <1>6, <2>1 DEF XmitBlocks
  <2>3. /\ free + r + 1 = f + q + e /\ free \in Int /\ r \in Nat /\ c \in Nat
        /\ f \in Nat /\ q \in Nat /\ e \in Nat
    BY <1>1, <1>2, DeviceTypes
  <2>4. free + r + c + 1 = f + q + c + e
    <3> HIDE DEF c, e, f, q, r
    <3> QED BY <2>3
  <2> QED BY <2>2, <2>4
<1> QED BY <1>4, <1>5, <1>6, <1>7

-----------------------------------------------------------------------------
(* The queue of events.                                                      *)

OutEvents == {"out", "bad"}
InEvents == {"in", "in_full"}

\* After a reset the host starts again, and no transfer ends before a
\* configuration that is still to be set; of each endpoint one ends at a time.
Follows(a, b) ==
  /\ a = "reset" => b \in {"reset", "address", "suspend", "resume"}
  /\ a = "config" => b \notin OutEvents \cup InEvents
  /\ ~({a, b} \subseteq OutEvents)
  /\ ~({a, b} \subseteq InEvents)
Ordered(q) == \A k \in DOMAIN q : \A j \in 1 .. k - 1 : Follows(q[j], q[k])

\* A request is one the host makes in its stage, or a reset is queued behind it.
Suits(r, stage) ==
  \/ r = "address" /\ stage = "default"
  \/ r = "config" /\ stage = "addressed"
  \/ r = "alt1" /\ stage = "configured"
  \/ r \in {"deselect", "alt0", "clear_out"} /\ stage = "up"
Suited(q, stage) ==
  \A k \in DOMAIN q : q[k] \in Requests
    => Suits(q[k], stage) \/ \E j \in k + 1 .. Len(q) : q[j] = "reset"

\* The bus is awake: it wakes up behind each sleep the device will hear of.
Sleeps(q, mounted) ==
  \A k \in DOMAIN q :
    q[k] = "suspend" /\ (mounted \/ \E j \in 1 .. k - 1 : q[j] = "config")
      => \E j \in k + 1 .. Len(q) : q[j] = "resume"

\* An event is queued behind the others.
LEMMA Queued ==
  ASSUME NEW q \in Seq(Events), NEW e \in Events
  PROVE  LET p == Append(q, e)
         IN  /\ p \in Seq(Events) /\ Len(p) = Len(q) + 1 /\ DOMAIN p = 1 .. Len(q) + 1
             /\ DOMAIN q = 1 .. Len(q) /\ Len(q) \in Nat
             /\ \A k \in 1 .. Len(q) : p[k] = q[k]
             /\ p[Len(q) + 1] = e
             /\ Range(p) = Range(q) \cup {e}
<1> DEFINE p == Append(q, e)
<1>1. /\ p \in Seq(Events) /\ Len(p) = Len(q) + 1 /\ DOMAIN p = 1 .. Len(q) + 1
      /\ DOMAIN q = 1 .. Len(q) /\ Len(q) \in Nat
      /\ \A k \in 1 .. Len(q) : p[k] = q[k]
      /\ p[Len(q) + 1] = e
  OBVIOUS
<1> HIDE DEF p
<1>2. Range(p) = Range(q) \cup {e}
  <2>1. \A k \in DOMAIN p : (k \in DOMAIN q /\ p[k] = q[k]) \/ p[k] = e BY <1>1
  <2>2. \A k \in DOMAIN q : k \in DOMAIN p /\ p[k] = q[k] BY <1>1
  <2>3. Len(q) + 1 \in DOMAIN p BY <1>1
  <2> QED BY <1>1, <2>1, <2>2, <2>3 DEF Range
<1> QED BY <1>1, <1>2 DEF p

\* The first event is taken off.
LEMMA Popped ==
  ASSUME NEW q \in Seq(Events), q # <<>>
  PROVE  LET p == Tail(q)
         IN  /\ p \in Seq(Events) /\ Len(q) = Len(p) + 1 /\ DOMAIN q = 1 .. Len(p) + 1
             /\ DOMAIN p = 1 .. Len(p) /\ Len(p) \in Nat
             /\ \A k \in 1 .. Len(p) : p[k] = q[k + 1]
             /\ Head(q) = q[1] /\ Head(q) \in Events
             /\ Range(q) = {Head(q)} \cup Range(p)
<1> DEFINE p == Tail(q)
<1>1. /\ p \in Seq(Events) /\ Len(q) = Len(p) + 1 /\ DOMAIN q = 1 .. Len(p) + 1
      /\ DOMAIN p = 1 .. Len(p) /\ Len(p) \in Nat
      /\ \A k \in 1 .. Len(p) : p[k] = q[k + 1]
      /\ Head(q) = q[1] /\ Head(q) \in Events
  OBVIOUS
<1> HIDE DEF p
<1>2. Range(q) = {Head(q)} \cup Range(p)
  <2>1. ASSUME NEW k \in DOMAIN q, k # 1
        PROVE  k - 1 \in DOMAIN p /\ p[k - 1] = q[k]
    <3>1. k - 1 \in 1 .. Len(p) /\ (k - 1) + 1 = k BY <1>1, <2>1
    <3> QED BY <1>1, <3>1
  <2>2. \A k \in DOMAIN p : k + 1 \in DOMAIN q /\ p[k] = q[k + 1] BY <1>1
  <2>3. 1 \in DOMAIN q /\ q[1] = Head(q) BY <1>1
  <2>4. \A x \in Range(q) : x = Head(q) \/ x \in Range(p) BY <2>1, <2>3 DEF Range
  <2>5. \A x \in Range(p) : x \in Range(q) BY <2>2 DEF Range
  <2>6. Head(q) \in Range(q) BY <2>3 DEF Range
  <2> QED BY <2>4, <2>5, <2>6
<1> QED BY <1>1, <1>2 DEF p

LEMMA QueuedOrder ==
  ASSUME NEW q \in Seq(Events), NEW e \in Events, Ordered(q),
         \A a \in Range(q) : Follows(a, e)
  PROVE  Ordered(Append(q, e))
<1> DEFINE p == Append(q, e)
<1>1. /\ DOMAIN p = 1 .. Len(q) + 1 /\ DOMAIN q = 1 .. Len(q) /\ Len(q) \in Nat
      /\ \A k \in 1 .. Len(q) : p[k] = q[k]
      /\ p[Len(q) + 1] = e
  BY Queued
<1> HIDE DEF p
<1> SUFFICES ASSUME NEW k \in DOMAIN p, NEW j \in 1 .. k - 1 PROVE Follows(p[j], p[k])
  BY DEF Ordered, p
<1>2. CASE k \in 1 .. Len(q)
  <2>1. j \in 1 .. Len(q) BY <1>1, <1>2
  <2> QED BY <1>1, <1>2, <2>1 DEF Ordered
<1>3. CASE k = Len(q) + 1
  <2>1. j \in DOMAIN q /\ p[j] = q[j] BY <1>1, <1>3
  <2>2. p[j] \in Range(q) BY <2>1 DEF Range
  <2> QED BY <1>1, <1>3, <2>2
<1> QED BY <1>1, <1>2, <1>3

LEMMA QueuedSuited ==
  ASSUME NEW q \in Seq(Events), NEW e \in Events, NEW stage, NEW stage2,
         \/ e = "reset"
         \/ Suited(q, stage) /\ stage2 = stage /\ (e \in Requests => Suits(e, stage))
  PROVE  Suited(Append(q, e), stage2)
<1> DEFINE p == Append(q, e)
<1>1. /\ Len(p) = Len(q) + 1
      /\ DOMAIN p = 1 .. Len(q) + 1 /\ DOMAIN q = 1 .. Len(q) /\ Len(q) \in Nat
      /\ \A k \in 1 .. Len(q) : p[k] = q[k]
      /\ p[Len(q) + 1] = e
  BY Queued
<1> HIDE DEF p
<1> SUFFICES ASSUME NEW k \in DOMAIN p, p[k] \in Requests
             PROVE  Suits(p[k], stage2) \/ \E j \in k + 1 .. Len(p) : p[j] = "reset"
  BY DEF Suited, p
<1>2. CASE e = "reset"
  <2>1. k # Len(q) + 1 BY <1>1, <1>2 DEF Requests
  <2>2. Len(q) + 1 \in k + 1 .. Len(p) BY <1>1, <2>1
  <2> QED BY <1>1, <1>2, <2>2
<1>3. CASE e # "reset" /\ k \in 1 .. Len(q)
  <2>1. Suits(q[k], stage) \/ \E j \in k + 1 .. Len(q) : q[j] = "reset"
    BY <1>1, <1>3 DEF Suited
  <2>2. \A j \in k + 1 .. Len(q) : j \in k + 1 .. Len(p) /\ p[j] = q[j] BY <1>1, <1>3
  <2> QED BY <1>1, <1>3, <2>1, <2>2
<1>4. CASE e # "reset" /\ k = Len(q) + 1 BY <1>1, <1>4
<1> QED BY <1>1, <1>2, <1>3, <1>4

LEMMA QueuedSleeps ==
  ASSUME NEW q \in Seq(Events), NEW e \in Events, NEW m \in BOOLEAN,
         e = "resume" \/ (e # "suspend" /\ Sleeps(q, m))
  PROVE  Sleeps(Append(q, e), m)
<1> DEFINE p == Append(q, e)
<1>1. /\ Len(p) = Len(q) + 1
      /\ DOMAIN p = 1 .. Len(q) + 1 /\ DOMAIN q = 1 .. Len(q) /\ Len(q) \in Nat
      /\ \A k \in 1 .. Len(q) : p[k] = q[k]
      /\ p[Len(q) + 1] = e
  BY Queued
<1> HIDE DEF p
<1> SUFFICES ASSUME NEW k \in DOMAIN p, p[k] = "suspend",
                    m \/ \E j \in 1 .. k - 1 : p[j] = "config"
             PROVE  \E j \in k + 1 .. Len(p) : p[j] = "resume"
  BY DEF Sleeps, p
<1>2. k \in 1 .. Len(q) BY <1>1
<1>3. CASE e = "resume"
  <2>1. Len(q) + 1 \in k + 1 .. Len(p) BY <1>1, <1>2
  <2> QED BY <1>1, <1>3, <2>1
<1>4. CASE e # "resume"
  <2>1. m \/ \E j \in 1 .. k - 1 : q[j] = "config"
    <3>1. \A j \in 1 .. k - 1 : p[j] = q[j] BY <1>1, <1>2
    <3> QED BY <3>1
  <2>2. PICK j \in k + 1 .. Len(q) : q[j] = "resume" BY <1>1, <1>2, <1>4, <2>1 DEF Sleeps
  <2>3. j \in k + 1 .. Len(p) /\ p[j] = q[j] BY <1>1, <1>2
  <2> QED BY <2>2, <2>3
<1> QED BY <1>3, <1>4

LEMMA PoppedOrder ==
  ASSUME NEW q \in Seq(Events), q # <<>>, Ordered(q)
  PROVE  /\ Ordered(Tail(q))
         /\ \A b \in Range(Tail(q)) : Follows(Head(q), b)
<1> DEFINE p == Tail(q)
<1>1. /\ DOMAIN q = 1 .. Len(p) + 1 /\ DOMAIN p = 1 .. Len(p) /\ Len(p) \in Nat
      /\ \A k \in 1 .. Len(p) : p[k] = q[k + 1]
      /\ Head(q) = q[1]
  BY Popped
<1> HIDE DEF p
<1>2. ASSUME NEW k \in DOMAIN p, NEW j \in 1 .. k - 1 PROVE Follows(p[j], p[k])
  <2>1. /\ k + 1 \in DOMAIN q /\ j + 1 \in 1 .. (k + 1) - 1
        /\ p[j] = q[j + 1] /\ p[k] = q[k + 1]
    BY <1>1
  <2> QED BY <2>1 DEF Ordered
<1>3. ASSUME NEW b \in Range(p) PROVE Follows(Head(q), b)
  <2>1. PICK k \in DOMAIN p : p[k] = b BY DEF Range
  <2>2. k + 1 \in DOMAIN q /\ 1 \in 1 .. (k + 1) - 1 /\ b = q[k + 1] BY <1>1, <2>1
  <2> QED BY <1>1, <2>2 DEF Ordered
<1> QED BY <1>2, <1>3 DEF Ordered, p

LEMMA PoppedSuited ==
  ASSUME NEW q \in Seq(Events), q # <<>>, NEW stage, Suited(q, stage)
  PROVE  /\ Suited(Tail(q), stage)
         /\ Head(q) \in Requests => Suits(Head(q), stage) \/ "reset" \in Range(Tail(q))
<1> DEFINE p == Tail(q)
<1>1. /\ Len(q) = Len(p) + 1
      /\ DOMAIN q = 1 .. Len(p) + 1 /\ DOMAIN p = 1 .. Len(p) /\ Len(p) \in Nat
      /\ \A k \in 1 .. Len(p) : p[k] = q[k + 1]
      /\ Head(q) = q[1]
  BY Popped
<1> HIDE DEF p
<1>2. ASSUME NEW k \in DOMAIN p, p[k] \in Requests
      PROVE  Suits(p[k], stage) \/ \E j \in k + 1 .. Len(p) : p[j] = "reset"
  <2>1. k + 1 \in DOMAIN q /\ p[k] = q[k + 1] BY <1>1
  <2>2. CASE \E j \in (k + 1) + 1 .. Len(q) : q[j] = "reset"
    <3>1. PICK j \in (k + 1) + 1 .. Len(q) : q[j] = "reset" BY <2>2
    <3>2. j - 1 \in k + 1 .. Len(p) /\ p[j - 1] = q[j] BY <1>1
    <3> QED BY <3>1, <3>2
  <2> QED BY <1>2, <2>1, <2>2 DEF Suited
<1>3. ASSUME Head(q) \in Requests PROVE Suits(Head(q), stage) \/ "reset" \in Range(p)
  <2>1. CASE \E j \in 1 + 1 .. Len(q) : q[j] = "reset"
    <3>1. PICK j \in 1 + 1 .. Len(q) : q[j] = "reset" BY <2>1
    <3>2. j - 1 \in DOMAIN p /\ p[j - 1] = q[j] BY <1>1
    <3> QED BY <3>1, <3>2 DEF Range
  <2>2. 1 \in DOMAIN q BY <1>1
  <2> QED BY <1>1, <1>3, <2>1, <2>2 DEF Suited
<1> QED BY <1>2, <1>3 DEF Suited, p

LEMMA PoppedSleeps ==
  ASSUME NEW q \in Seq(Events), q # <<>>, NEW m \in BOOLEAN, Sleeps(q, m)
  PROVE  /\ Sleeps(Tail(q), m)
         /\ Head(q) = "config" => Sleeps(Tail(q), TRUE)
         /\ Head(q) = "suspend" /\ m => "resume" \in Range(Tail(q))
<1> DEFINE p == Tail(q)
<1>1. /\ Len(q) = Len(p) + 1
      /\ DOMAIN q = 1 .. Len(p) + 1 /\ DOMAIN p = 1 .. Len(p) /\ Len(p) \in Nat
      /\ \A k \in 1 .. Len(p) : p[k] = q[k + 1]
      /\ Head(q) = q[1]
  BY Popped
<1> HIDE DEF p
<1>2. ASSUME NEW k \in DOMAIN p, p[k] = "suspend",
             \/ m \/ Head(q) = "config"
             \/ \E j \in 1 .. k - 1 : p[j] = "config"
      PROVE  \E j \in k + 1 .. Len(p) : p[j] = "resume"
  <2>1. k + 1 \in DOMAIN q /\ p[k] = q[k + 1] BY <1>1
  <2>2. m \/ \E j \in 1 .. (k + 1) - 1 : q[j] = "config"
    <3>1. CASE Head(q) = "config"
      <4>1. 1 \in 1 .. (k + 1) - 1 BY <1>1
      <4> QED BY <1>1, <3>1, <4>1
    <3>2. CASE \E j \in 1 .. k - 1 : p[j] = "config"
      <4>1. PICK j \in 1 .. k - 1 : p[j] = "config" BY <3>2
      <4>2. j + 1 \in 1 .. (k + 1) - 1 /\ q[j + 1] = p[j] BY <1>1
      <4> QED BY <4>1, <4>2
    <3> QED BY <1>2, <3>1, <3>2
  <2>3. PICK j \in (k + 1) + 1 .. Len(q) : q[j] = "resume" BY <1>2, <2>1, <2>2 DEF Sleeps
  <2>4. j - 1 \in k + 1 .. Len(p) /\ p[j - 1] = q[j] BY <1>1
  <2> QED BY <2>3, <2>4
<1>3. ASSUME Head(q) = "suspend", m PROVE "resume" \in Range(p)
  <2>1. 1 \in DOMAIN q BY <1>1
  <2>2. PICK j \in 1 + 1 .. Len(q) : q[j] = "resume" BY <1>1, <1>3, <2>1 DEF Sleeps
  <2>3. j - 1 \in DOMAIN p /\ p[j - 1] = q[j] BY <1>1
  <2> QED BY <2>2, <2>3 DEF Range
<1> QED BY <1>2, <1>3 DEF Sleeps, p

\* Without a configuration to come there is nothing to hear in an idle device.
LEMMA NoneSleeps ==
  ASSUME NEW q \in Seq(Events), "config" \notin Range(q)
  PROVE  Sleeps(q, FALSE)
<1>1. \A k \in DOMAIN q : q[k] # "config" BY DEF Range
<1>2. DOMAIN q = 1 .. Len(q) /\ Len(q) \in Nat OBVIOUS
<1>3. \A k \in DOMAIN q : \A j \in 1 .. k - 1 : j \in DOMAIN q BY <1>2
<1> QED BY <1>1, <1>3 DEF Sleeps

\* No configuration is queued while the device is up.
LEMMA NothingToConfigure ==
  ASSUME NEW q \in Seq(Events), Suited(q, "up"), "reset" \notin Range(q)
  PROVE  "config" \notin Range(q)
<1> SUFFICES ASSUME NEW k \in DOMAIN q, q[k] = "config" PROVE FALSE BY DEF Range
<1>1. DOMAIN q = 1 .. Len(q) /\ Len(q) \in Nat OBVIOUS
<1>2. \A j \in k + 1 .. Len(q) : j \in DOMAIN q BY <1>1
<1>3. \A j \in k + 1 .. Len(q) : q[j] # "reset" BY <1>2 DEF Range
<1> QED BY <1>3 DEF Suited, Suits, Requests

-----------------------------------------------------------------------------
(* The device, with the events R that are queued for it.                     *)

\* The block posted to the controller is there while its transfer goes on and
\* until tud_task has heard of the end.
Received(s, R, spoilt) ==
  /\ R \cap OutEvents # {} => s.recv_tinyusb # None /\ s.out = "idle"
  /\ "out" \in R => s.recv_tinyusb # <<>>
  /\ "bad" \in R => spoilt
  /\ s.recv_tinyusb = None => s.out = "idle" /\ ~s.busy_out
Sent(s, R) ==
  /\ R \cap InEvents # {} => s.busy_in /\ s.in = "idle"
  /\ "in_full" \in R => s.xmit_tinyusb # None
  /\ s.in = "armed" => s.busy_in
Kept(s, spoilt) ==
  /\ RecvBlocks(s) <= RecvN /\ (spoilt \/ RecvBlocks(s) = RecvN)
  /\ XmitBlocks(s) = XmitN
Configured(s, R, spoilt) ==
  /\ s.mounted => s.connected /\ Received(s, R, spoilt) /\ Sent(s, R)
  /\ ~s.mounted => s.alt = 0 /\ s.recv_tinyusb = None /\ ~s.busy_out
  /\ s.mounted /\ ~s.link /\ ~s.suspended => "resume" \in R
GoesOn(s, R, spoilt, hand) ==
  \/ spoilt
  \/ /\ s.mounted /\ s.alt = 1 /\ s.recv_tinyusb = None
        => s.received_frame # None \/ hand
     /\ s.recv_tinyusb # None
        => s.out = "armed" \/ R \cap {"out", "bad", "reset"} # {}
Sound(s, R, spoilt, hand) ==
  /\ s \in Device /\ Kept(s, spoilt)
  /\ Configured(s, R, spoilt) /\ GoesOn(s, R, spoilt, hand)

\* The updates the lemmas below are about.
Opened(s) == [s EXCEPT !.connected = TRUE, !.mounted = TRUE, !.open = TRUE,
                       !.out = "idle", !.in = "idle", !.link = TRUE]
Unhalted(s) == [s EXCEPT !.busy_out = FALSE,
                         !.out = IF @ = "armed" THEN "refusing" ELSE @]
FreeOut(s) == [s EXCEPT !.busy_out = FALSE]
FreeIn(s) == [s EXCEPT !.busy_in = FALSE]
Arrived(s, block) == [s EXCEPT !.out = "idle", !.recv_tinyusb = block]
TakenOff(s) == [s EXCEPT !.in = "idle"]
Emptied(s) == [s EXCEPT !.received_frame = None]

LEMMA CountsAreNumbers ==
  ASSUME NEW s \in Device
  PROVE  RecvBlocks(s) \in Nat /\ XmitBlocks(s) \in Nat
<1> DEFINE a == s.recv_free
           b == Len(s.recv_ready)
           c == IF s.recv_tinyusb = None THEN 0 ELSE 1
           d == IF s.recv_glue = <<>> THEN 0 ELSE 1
           e == s.xmit_free
           f == Len(s.xmit_ready)
           g == IF s.xmit_tinyusb = None THEN 0 ELSE 1
           h == IF s.xmit_glue = None THEN 0 ELSE 1
<1>1. RecvBlocks(s) = a + b + c + d /\ XmitBlocks(s) = e + f + g + h
  BY DEF RecvBlocks, XmitBlocks
<1>2. /\ a \in Nat /\ b \in Nat /\ c \in Nat /\ d \in Nat
      /\ e \in Nat /\ f \in Nat /\ g \in Nat /\ h \in Nat
  BY DeviceTypes
<1>3. a + b + c + d \in Nat /\ e + f + g + h \in Nat
  <2> HIDE DEF a, b, c, d, e, f, g, h
  <2> QED BY <1>2
<1> QED BY <1>1, <1>3

\* A device whose class driver is new has all blocks, and nothing to do.
LEMMA NewDriver ==
  ASSUME NEW s \in Device, s.recv_free = RecvN, s.recv_ready = <<>>,
         s.recv_tinyusb = None, s.recv_glue = <<>>, s.xmit_free = XmitN,
         s.xmit_ready = <<>>, s.xmit_tinyusb = None, s.xmit_glue = None,
         s.alt = 0, ~s.busy_out, ~s.mounted, NEW R, NEW hand
  PROVE  Sound(s, R, FALSE, hand)
<1>1. RecvBlocks(s) = RecvN /\ XmitBlocks(s) = XmitN BY Sizes DEF RecvBlocks, XmitBlocks
<1>2. Kept(s, FALSE)
  <2>1. RecvN <= RecvN BY Sizes
  <2> QED BY <1>1, <2>1 DEF Kept
<1>3. Configured(s, R, FALSE) BY DEF Configured
<1>4. GoesOn(s, R, FALSE, hand) BY DEF GoesOn
<1> QED BY <1>2, <1>3, <1>4 DEF Sound

LEMMA SoundCleared ==
  \A R, hand : Cleared \in Device /\ Sound(Cleared, R, FALSE, hand)
<1>1. Cleared \in Device BY Sizes DEF Cleared, Device
<1> QED BY <1>1, NewDriver DEF Cleared

\* Clearing words of usbd keeps the types.
LEMMA Woken ==
  ASSUME NEW s \in Device
  PROVE  [s EXCEPT !.connected = FALSE, !.suspended = FALSE, !.mounted = FALSE] \in Device
BY DEF Device

LEMMA Relieved ==
  ASSUME NEW s \in Device
  PROVE  [s EXCEPT !.busy_out = FALSE, !.busy_in = FALSE] \in Device
BY DEF Device

LEMMA SoundReset ==
  ASSUME NEW s \in Device, NEW R, NEW hand
  PROVE  Sound(Reset(s), R, FALSE, hand) /\ ~Reset(s).mounted /\ ~Reset(s).suspended
<1> DEFINE v == Reset(s)
<1>1. v \in Device
  <2> DEFINE r == [s EXCEPT !.alt = 0, !.recv_free = RecvN, !.recv_ready = <<>>,
                            !.recv_tinyusb = None, !.recv_glue = <<>>]
             t == [r EXCEPT !.xmit_free = XmitN, !.xmit_ready = <<>>,
                            !.xmit_tinyusb = None, !.xmit_glue = None]
             u == [t EXCEPT !.connected = FALSE, !.suspended = FALSE, !.mounted = FALSE]
             w == [u EXCEPT !.busy_out = FALSE, !.busy_in = FALSE]
  <2>1. RecvN \in 0 .. RecvN /\ XmitN \in 0 .. XmitN BY Sizes
  <2>2. r \in Device
    <3>1. ASSUME NEW a \in {0, 1}, NEW b \in 0 .. RecvN, NEW c \in Seq(FromHost),
                 NEW d \in FromHost \cup {<<>>, None}, NEW e \in FromHost \cup {<<>>}
          PROVE  [s EXCEPT !.alt = a, !.recv_free = b, !.recv_ready = c,
                           !.recv_tinyusb = d, !.recv_glue = e] \in Device
      BY ZenonT(60) DEF Device
    <3>2. <<>> \in Seq(FromHost) /\ 0 \in {0, 1} OBVIOUS
    <3>3. None \in FromHost \cup {<<>>, None} /\ <<>> \in FromHost \cup {<<>>} OBVIOUS
    <3> QED BY <2>1, <3>1, <3>2, <3>3
  <2>3. t \in Device
    <3> HIDE DEF r
    <3>1. ASSUME NEW b \in 0 .. XmitN, NEW c \in Seq(ToHost),
                 NEW d \in ToHost \cup {None}, NEW e \in ToHost \cup {None}
          PROVE  [r EXCEPT !.xmit_free = b, !.xmit_ready = c,
                           !.xmit_tinyusb = d, !.xmit_glue = e] \in Device
      BY ZenonT(60), <2>2 DEF Device
    <3>2. <<>> \in Seq(ToHost) /\ None \in ToHost \cup {None} OBVIOUS
    <3> QED BY <2>1, <3>1, <3>2
  <2>4. u \in Device
    <3> HIDE DEF t
    <3> QED BY <2>3, Woken
  <2>5. w \in Device
    <3> HIDE DEF u
    <3> QED BY <2>4, Relieved
  <2>6. Driver(s) = t BY DEF Driver, Device
  <2>7. Usbd(t) = w
    <3> HIDE DEF t
    <3> QED BY <2>3 DEF Usbd, Device
  <2> HIDE DEF w, t
  <2> QED BY <2>5, <2>6, <2>7 DEF Reset
<1>2. /\ v.recv_free = RecvN /\ v.recv_ready = <<>>
      /\ v.recv_tinyusb = None /\ v.recv_glue = <<>> /\ v.xmit_free = XmitN
      /\ v.xmit_ready = <<>> /\ v.xmit_tinyusb = None /\ v.xmit_glue = None
      /\ v.alt = 0 /\ ~v.busy_out /\ ~v.mounted /\ ~v.suspended
  BY DEF Reset, Usbd, Driver, Device
<1> HIDE DEF v
<1> QED BY <1>1, <1>2, NewDriver DEF v

\* Fewer events are queued, and none that reception or the link waits for.
LEMMA SoundLess ==
  ASSUME NEW s, NEW R, NEW P, NEW spoilt \in BOOLEAN, NEW hand \in BOOLEAN,
         Sound(s, R, spoilt, hand), P \subseteq R,
         R \cap {"out", "bad", "reset", "resume"} \subseteq P
  PROVE  Sound(s, P, spoilt, hand)
<1>1. Configured(s, P, spoilt)
  BY DEF Sound, Configured, Received, Sent, OutEvents, InEvents
<1>2. GoesOn(s, P, spoilt, hand) BY DEF Sound, GoesOn
<1> QED BY <1>1, <1>2 DEF Sound

\* Nothing but the connection, the sleep or the link changes.
LEMMA SoundBus ==
  ASSUME NEW s, NEW R, NEW P, NEW spoilt \in BOOLEAN, NEW hand \in BOOLEAN,
         Sound(s, R, spoilt, hand), P \subseteq R \cup {"suspend", "resume"},
         R \cap {"out", "bad", "reset"} \subseteq P,
         NEW v \in Device, SameIn(s, v), SameOut(s, v), v.mounted = s.mounted,
         s.connected => v.connected,
         v.mounted /\ ~v.link /\ ~v.suspended => "resume" \in P
  PROVE  Sound(v, P, spoilt, hand)
<1>1. Kept(v, spoilt) BY DEF Sound, Kept, SameIn, SameOut, RecvBlocks, XmitBlocks
<1>2. v.mounted => Received(v, P, spoilt)
  BY DEF Sound, Configured, Received, OutEvents, SameOut
<1>3. v.mounted => Sent(v, P)
  BY DEF Sound, Configured, Sent, InEvents, SameIn
<1>4. Configured(v, P, spoilt)
  BY <1>2, <1>3 DEF Sound, Configured, SameOut
<1>5. GoesOn(v, P, spoilt, hand) BY DEF Sound, GoesOn, SameOut
<1> QED BY <1>1, <1>4, <1>5 DEF Sound

\* The endpoints are opened, with nothing in progress.
LEMMA SoundConfigured ==
  ASSUME NEW s, NEW R, NEW P, NEW spoilt \in BOOLEAN, NEW hand \in BOOLEAN,
         Sound(s, R, spoilt, hand), ~s.mounted,
         P \cap (OutEvents \cup InEvents) = {}
  PROVE  Sound(Opened(s), P, spoilt, hand) /\ Opened(s).mounted
<1> DEFINE v == Opened(s)
<1>1. s \in Device /\ s.alt = 0 /\ s.recv_tinyusb = None /\ ~s.busy_out
  BY DEF Sound, Configured
<1>2. v \in Device BY ZenonT(60), <1>1 DEF Device, Opened
<1>3. /\ v.mounted /\ v.connected /\ v.link /\ v.out = "idle" /\ v.in = "idle"
      /\ v.alt = 0 /\ v.recv_tinyusb = None /\ ~v.busy_out
      /\ RecvBlocks(v) = RecvBlocks(s) /\ XmitBlocks(v) = XmitBlocks(s)
  BY <1>1 DEF Device, RecvBlocks, XmitBlocks, Opened
<1> HIDE DEF v
<1>4. Kept(v, spoilt) BY <1>3 DEF Sound, Kept
<1>5. Received(v, P, spoilt) /\ Sent(v, P)
  BY <1>3 DEF Received, Sent, OutEvents, InEvents
<1>6. Configured(v, P, spoilt) BY <1>3, <1>5 DEF Configured
<1>7. GoesOn(v, P, spoilt, hand) BY <1>3 DEF GoesOn
<1> QED BY <1>2, <1>3, <1>4, <1>6, <1>7 DEF Sound, v

\* The data interface without endpoints.
LEMMA SoundDeactivated ==
  ASSUME NEW s, NEW R, NEW spoilt \in BOOLEAN, NEW hand \in BOOLEAN,
         Sound(s, R, spoilt, hand)
  PROVE  Sound(Deactivate(s), R, spoilt, hand) /\ Deactivate(s).mounted = s.mounted
<1> DEFINE v == Deactivate(s)
<1>1. s \in Device BY DEF Sound
<1>2. v \in Device BY <1>1 DEF Device, Deactivate
<1>3. /\ SameBus(s, v) /\ SameIn(s, v) /\ v.alt = 0 /\ v.out = s.out
      /\ v.recv_tinyusb = s.recv_tinyusb /\ v.busy_out = s.busy_out
      /\ RecvBlocks(v) = RecvBlocks(s) /\ XmitBlocks(v) = XmitBlocks(s)
  BY <1>1 DEF Device, RecvBlocks, XmitBlocks, SameBus, SameIn, Deactivate
<1> HIDE DEF v
<1>4. Kept(v, spoilt) BY <1>3 DEF Sound, Kept
<1>5. Configured(v, R, spoilt)
  BY <1>3 DEF Sound, Configured, Received, Sent, SameBus, SameIn
<1>6. GoesOn(v, R, spoilt, hand) BY <1>3 DEF Sound, GoesOn
<1> QED BY <1>2, <1>3, <1>4, <1>5, <1>6 DEF Sound, SameBus, v

\* A halt is cleared: harmless unless a reception is posted.
LEMMA SoundUnhalted ==
  ASSUME NEW s, NEW R, NEW spoilt \in BOOLEAN, NEW hand \in BOOLEAN,
         Sound(s, R, spoilt, hand)
  PROVE  LET v == Unhalted(s)
         IN  Sound(v, R, spoilt \/ s.out = "armed", hand) /\ v.mounted = s.mounted
<1> DEFINE out == IF s.out = "armed" THEN "refusing" ELSE s.out
           v == [s EXCEPT !.busy_out = FALSE, !.out = out]
<1>1. s \in Device BY DEF Sound
<1>2. out \in {"idle", "armed", "refusing"} BY <1>1 DEF Device
<1>3. v \in Device
  <2> HIDE DEF out
  <2> QED BY <1>1, <1>2 DEF Device
<1>4. /\ SameBus(s, v) /\ SameIn(s, v) /\ v.alt = s.alt /\ v.out = out
      /\ v.recv_tinyusb = s.recv_tinyusb /\ ~v.busy_out
      /\ v.received_frame = s.received_frame
      /\ RecvBlocks(v) = RecvBlocks(s) /\ XmitBlocks(v) = XmitBlocks(s)
  <2> HIDE DEF out
  <2> QED BY <1>1 DEF Device, RecvBlocks, XmitBlocks, SameBus, SameIn
<1> HIDE DEF v
<1>5. Kept(v, spoilt \/ s.out = "armed") BY <1>4 DEF Sound, Kept
<1>6. Configured(v, R, spoilt \/ s.out = "armed")
  BY <1>4 DEF Sound, Configured, Received, Sent, SameBus, SameIn
<1>7. GoesOn(v, R, spoilt \/ s.out = "armed", hand)
  BY <1>4 DEF Sound, GoesOn, SameBus
<1> QED BY <1>3, <1>4, <1>5, <1>6, <1>7 DEF Sound, SameBus, v, Unhalted

\* The renewal that is owed: a reception is posted, or lwIP has a frame to take.
LEMMA SoundRenewed ==
  ASSUME NEW s \in Device, NEW R, NEW spoilt \in BOOLEAN, NEW hand \in BOOLEAN,
         Kept(s, spoilt), Configured(s, R, spoilt),
         \/ spoilt \/ s.recv_tinyusb = None \/ s.out = "armed"
         \/ R \cap {"out", "bad", "reset"} # {}
  PROVE  Sound(Renew(s), R, spoilt, hand) /\ Renew(s).mounted = s.mounted
                                          /\ Renew(s).suspended = s.suspended
<1> DEFINE v == Renew(s)
<1>1. /\ v \in Device /\ SameBus(s, v) /\ SameIn(s, v) /\ v.alt = s.alt
      /\ RecvBlocks(v) = RecvBlocks(s)
      /\ \/ v.recv_tinyusb = s.recv_tinyusb /\ v.out = s.out /\ v.busy_out = s.busy_out
         \/ /\ s.alt = 1 /\ s.recv_tinyusb = None /\ s.out = "idle"
            /\ v.recv_tinyusb = <<>> /\ v.out = "armed"
      /\ /\ s.alt = 1 /\ s.recv_tinyusb = None /\ ~s.busy_out /\ s.out = "idle"
         /\ RecvBlocks(s) = RecvN
         => v.recv_tinyusb # None \/ v.received_frame # None
  BY Renewed DEF Kept
<1> HIDE DEF v
<1>2. Kept(v, spoilt) BY <1>1 DEF Kept, SameIn, XmitBlocks
<1>3. v.mounted => Received(v, R, spoilt)
  BY <1>1, Sizes DEF Configured, Received, SameBus, OutEvents
<1>4. v.mounted => Sent(v, R) BY <1>1 DEF Configured, Sent, SameBus, SameIn
<1>5. Configured(v, R, spoilt) BY <1>1, <1>3, <1>4 DEF Configured, SameBus
<1>6. GoesOn(v, R, spoilt, hand)
  BY <1>1, Sizes DEF GoesOn, Configured, Received, Kept, SameBus
<1> QED BY <1>1, <1>2, <1>5, <1>6 DEF Sound, SameBus, v

\* tud_task hears of the end of a reception.
LEMMA SoundReceived ==
  ASSUME NEW s, NEW R, NEW P, NEW spoilt \in BOOLEAN, NEW hand \in BOOLEAN,
         Sound(s, R, spoilt, hand), s.mounted, NEW e \in OutEvents, e \in R,
         P \subseteq R, P \cap OutEvents = {}, "resume" \in R => "resume" \in P
  PROVE  LET v == BlockReceived(FreeOut(s), e = "out")
         IN  Sound(v, P, spoilt, hand) /\ v.mounted /\ v.suspended = s.suspended
<1> DEFINE t == FreeOut(s)
           valid == e = "out"
           v == BlockReceived(t, valid)
<1>1. /\ s \in Device /\ s.connected /\ s.recv_tinyusb # None /\ s.out = "idle"
      /\ valid => s.recv_tinyusb # <<>>
      /\ valid \in BOOLEAN
  BY DEF Sound, Configured, Received, OutEvents
<1>2. valid \/ spoilt BY DEF Sound, Configured, Received, OutEvents
<1> HIDE DEF valid
<1>3. t \in Device BY <1>1 DEF Device, FreeOut
<1>4. /\ SameBus(s, t) /\ SameIn(s, t) /\ t.alt = s.alt /\ t.out = s.out /\ ~t.busy_out
      /\ t.recv_tinyusb = s.recv_tinyusb
      /\ RecvBlocks(t) = RecvBlocks(s)
  BY <1>1 DEF Device, SameBus, SameIn, RecvBlocks, FreeOut
<1> HIDE DEF t
<1>5. /\ v \in Device /\ SameBus(t, v) /\ SameIn(t, v) /\ v.alt = t.alt
      /\ RecvBlocks(v) = IF valid THEN RecvBlocks(t) ELSE RecvBlocks(t) - 1
      /\ v.recv_tinyusb = None => v.out = "idle" /\ ~v.busy_out
      /\ v.recv_tinyusb # None => v.out = "armed" /\ t.alt = 1
      /\ valid /\ t.alt = 1 /\ RecvBlocks(t) = RecvN
         => v.recv_tinyusb # None \/ v.received_frame # None
  BY <1>1, <1>3, <1>4, ReceivedBlock DEF Sound, Kept
<1> HIDE DEF v
<1>6. SameBus(s, v) /\ SameIn(s, v) BY <1>4, <1>5 DEF SameBus, SameIn
<1>7. Kept(v, spoilt)
  <2>1. RecvBlocks(s) \in Nat /\ RecvN \in Nat BY <1>1, CountsAreNumbers, Sizes
  <2>2. RecvBlocks(v) <= RecvN
    BY <2>1, <1>4, <1>5 DEF Sound, Kept
  <2>3. spoilt \/ RecvBlocks(v) = RecvN BY <1>2, <1>4, <1>5 DEF Sound, Kept
  <2>4. XmitBlocks(v) = XmitN BY <1>6 DEF Sound, Kept, SameIn, XmitBlocks
  <2> QED BY <2>2, <2>3, <2>4 DEF Kept
<1>8. Received(v, P, spoilt) BY <1>5 DEF Received, OutEvents
<1>9. Sent(v, P) BY <1>6 DEF Sound, Configured, Sent, SameIn
<1>10. Configured(v, P, spoilt) BY <1>6, <1>8, <1>9 DEF Sound, Configured, SameBus
<1>11. GoesOn(v, P, spoilt, hand)
  BY <1>2, <1>4, <1>5 DEF Sound, Kept, GoesOn
<1> QED BY <1>5, <1>6, <1>7, <1>10, <1>11 DEF Sound, SameBus, v, t, valid

\* ... and of the end of a transmission.
LEMMA SoundSent ==
  ASSUME NEW s, NEW R, NEW P, NEW spoilt \in BOOLEAN, NEW hand \in BOOLEAN,
         Sound(s, R, spoilt, hand), s.mounted, NEW e \in InEvents, e \in R,
         P \subseteq R, P \cap InEvents = {},
         \A x \in {"out", "bad", "reset", "resume"} : x \in R => x \in P
  PROVE  LET v == BlockSent(FreeIn(s), e = "in_full")
         IN  Sound(v, P, spoilt, hand) /\ v.mounted /\ v.suspended = s.suspended
<1> DEFINE t == FreeIn(s)
           full == e = "in_full"
           v == BlockSent(t, full)
<1>1. /\ s \in Device /\ s.connected /\ s.in = "idle"
      /\ full => s.xmit_tinyusb # None
      /\ full \in BOOLEAN
  BY DEF Sound, Configured, Sent, InEvents
<1> HIDE DEF full
<1>2. t \in Device BY <1>1 DEF Device, FreeIn
<1>3. /\ SameBus(s, t) /\ SameOut(s, t) /\ t.in = s.in /\ ~t.busy_in
      /\ t.xmit_tinyusb = s.xmit_tinyusb
      /\ XmitBlocks(t) = XmitBlocks(s)
  BY <1>1 DEF Device, SameBus, SameOut, XmitBlocks, FreeIn
<1> HIDE DEF t
<1>4. /\ v \in Device /\ SameBus(t, v) /\ SameOut(t, v)
      /\ XmitBlocks(v) = XmitN
      /\ v.in = "armed" => v.busy_in
  BY <1>1, <1>2, <1>3, SentBlock DEF Sound, Kept
<1> HIDE DEF v
<1>5. SameBus(s, v) /\ SameOut(s, v) BY <1>3, <1>4 DEF SameBus, SameOut
<1>6. Kept(v, spoilt) BY <1>4, <1>5 DEF Sound, Kept, SameOut, RecvBlocks
<1>7. Received(v, P, spoilt)
  BY <1>5 DEF Sound, Configured, Received, SameOut, OutEvents
<1>8. Sent(v, P) BY <1>4 DEF Sent, InEvents
<1>9. Configured(v, P, spoilt) BY <1>5, <1>7, <1>8 DEF Sound, Configured, SameBus, SameOut
<1>10. GoesOn(v, P, spoilt, hand) BY <1>5 DEF Sound, GoesOn, SameBus, SameOut
<1> QED BY <1>4, <1>5, <1>6, <1>9, <1>10 DEF Sound, SameBus, v, t, full

\* The blocks to transmit change places before tud_task or the controller has them.
LEMMA SoundFilled ==
  ASSUME NEW s, NEW R, NEW spoilt \in BOOLEAN, NEW hand \in BOOLEAN,
         Sound(s, R, spoilt, hand), NEW v \in Device, SameBus(s, v), SameOut(s, v),
         XmitBlocks(v) = XmitBlocks(s),
         \/ v.xmit_tinyusb = s.xmit_tinyusb /\ v.busy_in = s.busy_in /\ v.in = s.in
         \/ s.mounted /\ ~s.busy_in /\ v.xmit_tinyusb # None /\ v.busy_in /\ v.in = "armed"
  PROVE  Sound(v, R, spoilt, hand)
<1>1. Kept(v, spoilt) BY DEF Sound, Kept, SameOut, RecvBlocks
<1>2. v.mounted => Received(v, R, spoilt)
  BY DEF Sound, Configured, Received, OutEvents, SameBus, SameOut
<1>3. v.mounted => Sent(v, R) BY DEF Sound, Configured, Sent, InEvents, SameBus
<1>4. Configured(v, R, spoilt)
  BY <1>2, <1>3 DEF Sound, Configured, SameBus, SameOut
<1>5. GoesOn(v, R, spoilt, hand) BY DEF Sound, GoesOn, SameBus, SameOut
<1> QED BY <1>1, <1>4, <1>5 DEF Sound

LEMMA SoundTransmitting ==
  ASSUME NEW s, NEW R, NEW spoilt \in BOOLEAN, NEW hand \in BOOLEAN,
         Sound(s, R, spoilt, hand)
  PROVE  LET v == StartTransmission(s)
         IN  /\ Sound(v, R, spoilt, hand)
             /\ v.mounted = s.mounted /\ v.suspended = s.suspended
<1> DEFINE v == StartTransmission(s)
<1>1. s \in Device /\ (s.alt = 1 => s.mounted) /\ (s.alt = 1 /\ s.in = "armed" => s.busy_in)
  BY DEF Sound, Configured, Sent
<1>2. /\ v \in Device /\ SameBus(s, v) /\ SameOut(s, v)
      /\ XmitBlocks(v) = XmitBlocks(s)
      /\ v = s \/ /\ s.xmit_tinyusb = None /\ ~s.busy_in /\ s.alt = 1
                  /\ v.xmit_tinyusb # None /\ v.busy_in /\ v.in = "armed"
  BY <1>1, TransmissionStarted
<1> HIDE DEF v
<1>3. Sound(v, R, spoilt, hand) BY <1>1, <1>2, SoundFilled
<1> QED BY <1>2, <1>3 DEF SameBus, v

\* The controller is reset: what was posted waits for tud_task to hear of it.
LEMMA SoundControllerReset ==
  ASSUME NEW s, NEW R, NEW spoilt \in BOOLEAN, NEW hand \in BOOLEAN,
         Sound(s, R, spoilt, hand)
  PROVE  LET v == Controller(s)
         IN  /\ Sound(v, R \cup {"reset"}, spoilt, hand)
             /\ v.mounted = s.mounted /\ v.suspended = s.suspended
<1> DEFINE v == Controller(s)
           P == R \cup {"reset"}
<1>1. s \in Device BY DEF Sound
<1>2. v \in Device BY <1>1 DEF Controller, Device
<1>3. /\ v.mounted = s.mounted /\ v.suspended = s.suspended /\ v.link = s.link
      /\ v.connected = s.connected /\ v.alt = s.alt /\ v.out = "idle" /\ v.in = "idle"
      /\ v.recv_tinyusb = s.recv_tinyusb /\ v.busy_out = s.busy_out
      /\ v.xmit_tinyusb = s.xmit_tinyusb /\ v.busy_in = s.busy_in
      /\ v.received_frame = s.received_frame
      /\ RecvBlocks(v) = RecvBlocks(s) /\ XmitBlocks(v) = XmitBlocks(s)
  BY <1>1 DEF Controller, Device, RecvBlocks, XmitBlocks
<1> HIDE DEF v
<1>4. Kept(v, spoilt) BY <1>3 DEF Sound, Kept
<1>5. v.mounted => Received(v, P, spoilt)
  BY <1>3 DEF Sound, Configured, Received, OutEvents
<1>6. v.mounted => Sent(v, P) BY <1>3 DEF Sound, Configured, Sent, InEvents
<1>7. Configured(v, P, spoilt) BY <1>3, <1>5, <1>6 DEF Sound, Configured
<1>8. GoesOn(v, P, spoilt, hand) BY <1>3 DEF Sound, GoesOn
<1> QED BY <1>2, <1>3, <1>4, <1>7, <1>8 DEF Sound, v

\* The controller has received a block, or something else.
LEMMA SoundArrived ==
  ASSUME NEW s, NEW R, NEW spoilt \in BOOLEAN, NEW hand \in BOOLEAN,
         Sound(s, R, spoilt, hand), s.mounted, s.out = "armed",
         NEW e \in OutEvents, NEW block \in FromHost \cup {<<>>},
         e = "out" => block # <<>>
  PROVE  LET v == Arrived(s, block)
         IN  Sound(v, R \cup {e}, spoilt \/ e = "bad", hand) /\ s.recv_tinyusb # None
<1> DEFINE v == Arrived(s, block)
           P == R \cup {e}
           spoilt2 == spoilt \/ e = "bad"
<1>1. s \in Device /\ s.recv_tinyusb # None /\ block # None /\ R \cap OutEvents = {}
  BY Sizes DEF Sound, Configured, Received
<1>2. v \in Device BY <1>1 DEF Device, Arrived
<1>3. /\ SameBus(s, v) /\ SameIn(s, v) /\ v.alt = s.alt /\ v.out = "idle"
      /\ v.recv_tinyusb = block /\ v.busy_out = s.busy_out
      /\ v.received_frame = s.received_frame
      /\ v.recv_free = s.recv_free /\ v.recv_ready = s.recv_ready
      /\ v.recv_glue = s.recv_glue
  BY <1>1 DEF Device, SameBus, SameIn, Arrived
<1> HIDE DEF v
<1>4. RecvBlocks(v) = RecvBlocks(s) /\ XmitBlocks(v) = XmitBlocks(s)
  BY <1>1, <1>3 DEF RecvBlocks, XmitBlocks, SameIn
<1>5. Kept(v, spoilt2) BY <1>4 DEF Sound, Kept
<1>6. Received(v, P, spoilt2) BY <1>1, <1>3 DEF Received, OutEvents
<1>7. Sent(v, P) BY <1>3 DEF Sound, Configured, Sent, InEvents, OutEvents, SameIn
<1>8. Configured(v, P, spoilt2) BY <1>3, <1>6, <1>7 DEF Sound, Configured, SameBus
<1>9. GoesOn(v, P, spoilt2, hand)
  BY <1>1, <1>3 DEF Sound, GoesOn, OutEvents
<1> QED BY <1>1, <1>2, <1>5, <1>8, <1>9 DEF Sound, v

\* The host has taken what was transmitted.
LEMMA SoundTaken ==
  ASSUME NEW s, NEW R, NEW spoilt \in BOOLEAN, NEW hand \in BOOLEAN,
         Sound(s, R, spoilt, hand), s.mounted, s.in = "armed",
         NEW e \in InEvents, e = "in_full" => s.xmit_tinyusb # None
  PROVE  /\ Sound(TakenOff(s), R \cup {e}, spoilt, hand)
         /\ R \cap InEvents = {}
<1> DEFINE v == TakenOff(s)
           P == R \cup {e}
<1>1. s \in Device /\ s.busy_in /\ R \cap InEvents = {}
  BY DEF Sound, Configured, Sent
<1>2. v \in Device BY <1>1 DEF Device, TakenOff
<1>3. /\ SameBus(s, v) /\ SameOut(s, v) /\ v.in = "idle" /\ v.busy_in = s.busy_in
      /\ v.xmit_tinyusb = s.xmit_tinyusb /\ XmitBlocks(v) = XmitBlocks(s)
  BY <1>1 DEF Device, SameBus, SameOut, XmitBlocks, TakenOff
<1> HIDE DEF v
<1>4. Kept(v, spoilt) BY <1>3 DEF Sound, Kept, SameOut, RecvBlocks
<1>5. Received(v, P, spoilt)
  BY <1>3 DEF Sound, Configured, Received, OutEvents, InEvents, SameOut
<1>6. Sent(v, P) BY <1>1, <1>3 DEF Sent, InEvents
<1>7. Configured(v, P, spoilt) BY <1>3, <1>5, <1>6 DEF Sound, Configured, SameBus, SameOut
<1>8. GoesOn(v, P, spoilt, hand) BY <1>3 DEF Sound, GoesOn, SameBus, SameOut
<1> QED BY <1>1, <1>2, <1>4, <1>7, <1>8 DEF Sound, v

\* lwIP takes the frame that waits, and will renew the reception.
LEMMA SoundInHand ==
  ASSUME NEW s, NEW R, NEW spoilt \in BOOLEAN, NEW hand \in BOOLEAN,
         Sound(s, R, spoilt, hand)
  PROVE  LET v == Emptied(s)
         IN  /\ Sound(v, R, spoilt, TRUE)
             /\ v.mounted = s.mounted /\ v.suspended = s.suspended
<1> DEFINE v == Emptied(s)
<1>1. s \in Device BY DEF Sound
<1>2. v \in Device BY <1>1 DEF Device, Emptied
<1>3. /\ SameBus(s, v) /\ SameIn(s, v) /\ v.alt = s.alt /\ v.out = s.out
      /\ v.recv_tinyusb = s.recv_tinyusb /\ v.busy_out = s.busy_out
      /\ RecvBlocks(v) = RecvBlocks(s) /\ XmitBlocks(v) = XmitBlocks(s)
  BY <1>1 DEF Device, SameBus, SameIn, RecvBlocks, XmitBlocks, Emptied
<1> HIDE DEF v
<1>4. Kept(v, spoilt) BY <1>3 DEF Sound, Kept
<1>5. v.mounted => Received(v, R, spoilt)
  BY <1>3 DEF Sound, Configured, Received, SameBus
<1>6. v.mounted => Sent(v, R) BY <1>3 DEF Sound, Configured, Sent, SameBus, SameIn
<1>7. Configured(v, R, spoilt) BY <1>3, <1>5, <1>6 DEF Sound, Configured, SameBus
<1>8. GoesOn(v, R, spoilt, TRUE) BY <1>3 DEF Sound, GoesOn
<1> QED BY <1>2, <1>3, <1>4, <1>7, <1>8 DEF Sound, SameBus, v

-----------------------------------------------------------------------------
(* One event of the queue.                                                   *)

Stages == {"default", "addressed", "configured", "up"}

\* What is queued agrees with what the host knows and with the device.
Told(q, stage, mounted, suspended) ==
  /\ Ordered(q) /\ Suited(q, stage)
  /\ "reset" \in Range(q) => stage = "default"
  /\ stage \in {"configured", "up"} => mounted
  /\ suspended \/ Sleeps(q, mounted)

LEMMA ToldLess ==
  ASSUME NEW q \in Seq(Events), q # <<>>, NEW stage, NEW m \in BOOLEAN,
         NEW sus \in BOOLEAN, Told(q, stage, m, sus)
  PROVE  Told(Tail(q), stage, m, sus)
<1>1. Range(q) = {Head(q)} \cup Range(Tail(q)) BY Popped
<1>2. Ordered(Tail(q)) BY PoppedOrder DEF Told
<1>3. Suited(Tail(q), stage) BY PoppedSuited DEF Told
<1>4. sus \/ Sleeps(Tail(q), m) BY PoppedSleeps DEF Told
<1> QED BY <1>1, <1>2, <1>3, <1>4 DEF Told

\* A request that is handled is the last one queued.
LEMMA LastRequest ==
  ASSUME NEW q \in Seq(Events), q # <<>>, Head(q) \in Requests,
         ~Skipped(Head(q), Tail(q))
  PROVE  Sleeps(Tail(q), FALSE) /\ \A stage : Suited(Tail(q), stage)
<1> DEFINE p == Tail(q)
<1>1. p \in Seq(Events) BY Popped
<1>2. \A k \in DOMAIN p : p[k] \notin Requests BY DEF Skipped
<1>3. "config" \notin Range(p) BY <1>2 DEF Range, Requests
<1> HIDE DEF p
<1>4. Sleeps(p, FALSE) BY <1>1, <1>3, NoneSleeps
<1>5. \A stage : Suited(p, stage) BY <1>2 DEF Suited
<1> QED BY <1>4, <1>5 DEF p

LEMMA RequestHandled ==
  ASSUME NEW s, NEW q \in Seq(Events), q # <<>>, NEW stage,
         NEW spoilt \in BOOLEAN, NEW hand \in BOOLEAN,
         Sound(s, Range(q), spoilt, hand), Told(q, stage, s.mounted, s.suspended),
         Head(q) \in Requests, ~Skipped(Head(q), Tail(q))
  PROVE  LET e == Head(q)
             v == Setup(s, e)
             stage2 == IF "reset" \in Range(Tail(q)) THEN stage ELSE Answered(stage, e)
         IN  /\ Sound(v, Range(Tail(q)),
                      IF e = "deselect" /\ s.mounted THEN FALSE
                      ELSE spoilt \/ (e = "clear_out" /\ s.mounted /\ s.out = "armed"), hand)
             /\ Told(Tail(q), stage2, v.mounted, v.suspended)
<1> DEFINE e == Head(q)
           P == Range(Tail(q))
           R == Range(q)
           c == [s EXCEPT !.connected = TRUE]
           v == Setup(s, e)
           stage2 == Answered(stage, e)
           spoilt2 == IF e = "deselect" /\ s.mounted THEN FALSE
                      ELSE spoilt \/ (e = "clear_out" /\ s.mounted /\ s.out = "armed")
<1>1. R = {e} \cup P BY Popped
<1>2. s \in Device /\ s.mounted \in BOOLEAN /\ s.suspended \in BOOLEAN
  <2>1. s \in Device BY DEF Sound
  <2> QED BY <2>1, DeviceTypes
<1>3. /\ c \in Device /\ SameIn(s, c) /\ SameOut(s, c) /\ c.mounted = s.mounted
      /\ c.connected /\ c.link = s.link /\ c.suspended = s.suspended /\ c.open = s.open
  BY <1>2 DEF Device, SameIn, SameOut
<1>4. R \cap {"out", "bad", "reset", "resume"} \subseteq P BY <1>1 DEF Requests
<1>5. Sound(c, P, spoilt, hand)
  <2>1. s.mounted /\ ~s.link /\ ~s.suspended => "resume" \in R
    BY DEF Sound, Configured
  <2>2. c.mounted /\ ~c.link /\ ~c.suspended => "resume" \in P BY <1>3, <1>4, <2>1
  <2>3. P \subseteq R \cup {"suspend", "resume"} BY <1>1
  <2>4. R \cap {"out", "bad", "reset"} \subseteq P BY <1>4
  <2>5. Sound(s, R, spoilt, hand) OBVIOUS
  <2>6. s.connected => c.connected BY <1>3
  <2> HIDE DEF c, P, R
  <2> QED BY <1>3, <2>2, <2>3, <2>4, <2>5, <2>6, SoundBus
<1>6. "reset" \notin P => Suits(e, stage) BY PoppedSuited DEF Told
<1>7. stage \in {"configured", "up"} => s.mounted BY DEF Told
\* It is enough to say what is mounted, and that the stage agrees with it.
<1>8. ASSUME v.mounted \in BOOLEAN, v.suspended \in BOOLEAN,
             "reset" \notin P /\ stage2 \in {"configured", "up"} => v.mounted,
             v.mounted => (s.mounted \/ e = "config") /\ v.suspended = s.suspended
      PROVE  Told(Tail(q), IF "reset" \in P THEN stage ELSE stage2, v.mounted, v.suspended)
  <2>1. Sleeps(Tail(q), FALSE) /\ \A st : Suited(Tail(q), st) BY LastRequest
  <2>2. Ordered(Tail(q)) BY PoppedOrder DEF Told
  <2>3. "reset" \in P => stage = "default" BY <1>1 DEF Told
  <2> HIDE DEF v, stage2
  <2>4. v.suspended \/ Sleeps(Tail(q), v.mounted)
    <3>1. CASE v.mounted = FALSE BY <2>1, <3>1
    <3>2. CASE v.mounted = TRUE /\ ~s.suspended
      <4>1. Sleeps(q, s.mounted) BY <3>2 DEF Told
      <4>2. Sleeps(Tail(q), s.mounted) /\ (e = "config" => Sleeps(Tail(q), TRUE))
        BY <1>2, <4>1, PoppedSleeps
      <4>3. s.mounted = TRUE \/ e = "config" BY <1>2, <1>8, <3>2
      <4> QED BY <3>2, <4>2, <4>3
    <3>3. CASE v.mounted = TRUE /\ s.suspended BY <1>8, <3>3
    <3> QED BY <1>2, <1>8, <3>1, <3>2, <3>3
  <2> QED BY <1>8, <2>1, <2>2, <2>3, <2>4 DEF Told
<1>9. CASE v = c /\ spoilt2 = spoilt
           /\ ("reset" \notin P /\ stage2 \in {"configured", "up"} => s.mounted)
  <2>1. v.mounted = s.mounted /\ v.suspended = s.suspended BY <1>3, <1>9
  <2>2. Sound(v, P, spoilt2, hand) BY <1>5, <1>9
  <2>3. Told(Tail(q), IF "reset" \in P THEN stage ELSE stage2, v.mounted, v.suspended)
    <3> HIDE DEF v, stage2, P, c
    <3> QED BY <1>2, <1>8, <1>9, <2>1
  <2> HIDE DEF v, stage2, spoilt2
  <2> QED BY <2>2, <2>3 DEF v, stage2, spoilt2
<1>10. CASE e = "address"
  <2>1. v = c BY <1>10 DEF Setup
  <2>2. spoilt2 = spoilt BY <1>10
  <2>3. "reset" \notin P /\ stage2 \in {"configured", "up"} => s.mounted
    BY <1>6, <1>7, <1>10 DEF Answered, Suits
  <2> QED BY <1>9, <2>1, <2>2, <2>3
<1>11. CASE e = "config" /\ s.mounted
  <2>1. v = c BY <1>3, <1>11 DEF Setup
  <2>2. spoilt2 = spoilt BY <1>11
  <2> QED BY <1>9, <1>11, <2>1, <2>2
<1>12. CASE e = "config" /\ ~s.mounted
  <2> DEFINE w == Opened(s)
  <2>1. v = w
    <3>1. v = [c EXCEPT !.mounted = TRUE, !.open = TRUE, !.out = "idle", !.in = "idle",
                        !.link = TRUE]
      BY <1>3, <1>12 DEF Setup
    <3> QED BY <1>2, <3>1 DEF Device, Opened
  <2>2. P \cap (OutEvents \cup InEvents) = {}
    <3>1. \A b \in P : Follows(e, b) BY PoppedOrder DEF Told
    <3> QED BY <1>12, <3>1 DEF Follows
  <2>3. Sound(w, P, spoilt, hand) /\ w.mounted /\ w.suspended = s.suspended
    <3>1. w.suspended = s.suspended BY <1>2 DEF Device, Opened
    <3>2. Sound(s, R, spoilt, hand) OBVIOUS
    <3> HIDE DEF P, R
    <3> QED BY <1>12, <2>2, <3>1, <3>2, SoundConfigured
  <2> HIDE DEF w
  <2>4. v.mounted = TRUE /\ v.mounted \in BOOLEAN
    <3>1. w \in Device BY <2>3 DEF Sound
    <3>2. w.mounted \in BOOLEAN BY <3>1, DeviceTypes
    <3> QED BY <2>1, <2>3, <3>2
  <2>5. Told(Tail(q), IF "reset" \in P THEN stage ELSE stage2, v.mounted, v.suspended)
    <3> HIDE DEF v, stage2, P
    <3> QED BY <1>2, <1>8, <1>12, <2>1, <2>3, <2>4
  <2>6. spoilt2 = spoilt BY <1>12
  <2> HIDE DEF v, stage2, spoilt2
  <2> QED BY <2>1, <2>3, <2>5, <2>6 DEF v, stage2, spoilt2
<1>13. CASE e = "deselect" /\ s.mounted
  <2>1. v = Cleared BY <1>3, <1>13 DEF Setup
  <2>2. Sound(v, P, FALSE, hand) BY <2>1, SoundCleared
  <2>3. v.mounted = FALSE /\ v.suspended = FALSE BY <2>1 DEF Cleared
  <2>4. stage2 = "addressed" BY <1>13 DEF Answered
  <2>5. Told(Tail(q), IF "reset" \in P THEN stage ELSE stage2, v.mounted, v.suspended)
    <3> HIDE DEF v, P
    <3> QED BY <1>8, <2>3, <2>4
  <2>6. spoilt2 = FALSE BY <1>13
  <2> HIDE DEF v, stage2, spoilt2
  <2> QED BY <2>2, <2>5, <2>6 DEF v, stage2, spoilt2
<1>14. CASE e = "deselect" /\ ~s.mounted
  <2>1. v = c BY <1>3, <1>14 DEF Setup
  <2>2. spoilt2 = spoilt BY <1>14
  <2>3. stage2 = "addressed" BY <1>14 DEF Answered
  <2> QED BY <1>9, <2>1, <2>2, <2>3
<1>15. CASE e = "alt0" /\ s.mounted
  <2>1. v = Deactivate(c) BY <1>3, <1>15 DEF Setup
  <2>2. Sound(v, P, spoilt, hand) /\ v.mounted = c.mounted
    <3> HIDE DEF v, P, c
    <3> QED BY <1>5, <2>1, SoundDeactivated
  <2>3. v.suspended = c.suspended BY <1>3, <2>1 DEF Deactivate, Device
  <2>4. Told(Tail(q), IF "reset" \in P THEN stage ELSE stage2, v.mounted, v.suspended)
    <3> HIDE DEF v, stage2, P, c
    <3> QED BY <1>2, <1>3, <1>8, <1>15, <2>2, <2>3
  <2>5. spoilt2 = spoilt BY <1>15
  <2> HIDE DEF v, stage2, spoilt2
  <2> QED BY <2>2, <2>4, <2>5 DEF v, stage2, spoilt2
<1>16. CASE e = "alt0" /\ ~s.mounted
  <2>1. v = c BY <1>3, <1>16 DEF Setup
  <2>2. spoilt2 = spoilt BY <1>16
  <2>3. "reset" \in P BY <1>6, <1>7, <1>16 DEF Suits
  <2> QED BY <1>9, <2>1, <2>2, <2>3
<1>17. CASE e = "alt1" /\ s.mounted
  <2> DEFINE t == [c EXCEPT !.alt = 1]
  <2>1. v = Renew(t) BY <1>3, <1>17 DEF Setup
  <2>2. t \in Device /\ SameBus(c, t) /\ SameIn(c, t)
        /\ t.recv_tinyusb = c.recv_tinyusb /\ t.out = c.out /\ t.busy_out = c.busy_out
        /\ RecvBlocks(t) = RecvBlocks(c) /\ XmitBlocks(t) = XmitBlocks(c)
    <3> HIDE DEF c
    <3>1. t \in Device BY <1>3 DEF Device
    <3> QED BY <1>3, <3>1 DEF Device, SameBus, SameIn, RecvBlocks, XmitBlocks
  <2> HIDE DEF t, c
  <2>3. Kept(t, spoilt) BY <1>5, <2>2 DEF Sound, Kept
  <2>4. t.mounted /\ t.connected /\ t.suspended = s.suspended BY <1>3, <1>17, <2>2 DEF SameBus
  <2>5. Received(t, P, spoilt) /\ Sent(t, P)
    <3>1. Received(c, P, spoilt) /\ Sent(c, P) BY <1>3, <1>5, <1>17 DEF Sound, Configured
    <3> QED BY <2>2, <3>1 DEF Received, Sent, SameIn
  <2>6. Configured(t, P, spoilt)
    BY <1>5, <2>2, <2>4, <2>5 DEF Sound, Configured, SameBus
  <2>7. \/ spoilt \/ t.recv_tinyusb = None \/ t.out = "armed"
        \/ P \cap {"out", "bad", "reset"} # {}
    BY <1>5, <2>2 DEF Sound, GoesOn
  <2>8. /\ Sound(Renew(t), P, spoilt, hand)
        /\ Renew(t).mounted = t.mounted /\ Renew(t).suspended = t.suspended
    <3> HIDE DEF P
    <3> QED BY <2>2, <2>3, <2>6, <2>7, SoundRenewed
  <2>9. Told(Tail(q), IF "reset" \in P THEN stage ELSE stage2, v.mounted, v.suspended)
    <3>1. v.mounted = s.mounted /\ v.suspended = s.suspended
      <4>1. t.mounted = s.mounted BY <1>3, <2>2 DEF SameBus
      <4> HIDE DEF v
      <4> QED BY <2>1, <2>4, <2>8, <4>1
    <3> HIDE DEF v, stage2, P
    <3> QED BY <1>2, <1>8, <1>17, <3>1
  <2>10. spoilt2 = spoilt BY <1>17
  <2> HIDE DEF v, stage2, spoilt2
  <2> QED BY <2>1, <2>8, <2>9, <2>10 DEF v, stage2, spoilt2
<1>18. CASE e = "alt1" /\ ~s.mounted
  <2>1. v = c BY <1>3, <1>18 DEF Setup
  <2>2. spoilt2 = spoilt BY <1>18
  <2>3. "reset" \in P BY <1>6, <1>7, <1>18 DEF Suits
  <2> QED BY <1>9, <2>1, <2>2, <2>3
<1>19. CASE e = "clear_out" /\ s.mounted
  <2> DEFINE w == Unhalted(c)
  <2>1. v = w BY <1>3, <1>19 DEF Setup, Unhalted
  <2>2. Sound(w, P, spoilt \/ c.out = "armed", hand) /\ w.mounted = c.mounted
    <3> HIDE DEF P, c
    <3> QED BY <1>5, SoundUnhalted
  <2>3. w.suspended = c.suspended BY <1>3 DEF Device, Unhalted
  <2>4. spoilt2 = (spoilt \/ c.out = "armed")
    <3>1. c.out = s.out BY <1>3 DEF SameOut
    <3> HIDE DEF c
    <3> QED BY <1>19, <3>1
  <2>5. Told(Tail(q), IF "reset" \in P THEN stage ELSE stage2, v.mounted, v.suspended)
    <3>1. v.mounted = s.mounted /\ v.suspended = s.suspended BY <1>3, <2>1, <2>2, <2>3
    <3> HIDE DEF v, stage2, P
    <3> QED BY <1>2, <1>8, <1>19, <3>1
  <2> HIDE DEF v, w, stage2, spoilt2
  <2> QED BY <2>1, <2>2, <2>4, <2>5 DEF v, stage2, spoilt2
<1>20. CASE e = "clear_out" /\ ~s.mounted
  <2>1. v = c BY <1>3, <1>20 DEF Setup
  <2>2. spoilt2 = spoilt BY <1>20
  <2>3. "reset" \in P BY <1>6, <1>7, <1>20 DEF Suits
  <2> QED BY <1>9, <2>1, <2>2, <2>3
<1> QED
  BY <1>10, <1>11, <1>12, <1>13, <1>14, <1>15, <1>16, <1>17, <1>18, <1>19, <1>20
     DEF Requests

LEMMA SoundUnmounted ==
  ASSUME NEW s, NEW R, NEW P, NEW spoilt \in BOOLEAN, NEW hand \in BOOLEAN,
         Sound(s, R, spoilt, hand), ~s.mounted
  PROVE  /\ Sound(FreeOut(s), P, spoilt, hand) /\ Sound(FreeIn(s), P, spoilt, hand)
         /\ ~FreeOut(s).mounted /\ ~FreeIn(s).mounted
         /\ FreeOut(s).suspended = s.suspended /\ FreeIn(s).suspended = s.suspended
<1>1. s \in Device /\ s.alt = 0 /\ s.recv_tinyusb = None /\ ~s.busy_out
  BY DEF Sound, Configured
<1>2. ASSUME NEW v \in {FreeOut(s), FreeIn(s)}
      PROVE  Sound(v, P, spoilt, hand) /\ ~v.mounted /\ v.suspended = s.suspended
  <2>1. v \in Device
    <3>0. s \in Device BY <1>1
    <3>1. FreeOut(s) \in Device BY <3>0 DEF Device, FreeOut
    <3>2. FreeIn(s) \in Device BY <3>0 DEF Device, FreeIn
    <3> QED BY <3>1, <3>2
  <2>2. /\ ~v.mounted /\ v.suspended = s.suspended /\ v.alt = 0
        /\ v.recv_tinyusb = None /\ ~v.busy_out
        /\ RecvBlocks(v) = RecvBlocks(s) /\ XmitBlocks(v) = XmitBlocks(s)
    BY SMTT(40), <1>1 DEF Device, FreeOut, FreeIn, RecvBlocks, XmitBlocks
  <2>3. Kept(v, spoilt) BY <2>2 DEF Sound, Kept
  <2>4. Configured(v, P, spoilt) BY <2>2 DEF Configured
  <2>5. GoesOn(v, P, spoilt, hand) BY <2>2 DEF GoesOn
  <2> QED BY <2>1, <2>2, <2>3, <2>4, <2>5 DEF Sound
<1> QED BY <1>2

Restarted(s, q) == \/ Head(q) = "reset"
                   \/ Head(q) = "deselect" /\ s.mounted /\ ~Skipped(Head(q), Tail(q))
Spoilt(s, q) == Head(q) = "clear_out" /\ s.mounted /\ s.out = "armed"
                  /\ ~Skipped(Head(q), Tail(q))
Handled(s, q) == IF Skipped(Head(q), Tail(q)) THEN s ELSE After(s, Head(q))
StageAfter(stage, q) ==
  IF "reset" \in Range(Tail(q)) \/ Skipped(Head(q), Tail(q)) THEN stage
  ELSE Answered(stage, Head(q))

LEMMA EventHandled ==
  ASSUME NEW s, NEW q \in Seq(Events), q # <<>>, NEW stage,
         NEW spoilt \in BOOLEAN, NEW hand \in BOOLEAN,
         Sound(s, Range(q), spoilt, hand), Told(q, stage, s.mounted, s.suspended)
  PROVE  LET v == Handled(s, q) IN
         /\ Sound(v, Range(Tail(q)),
                  IF Restarted(s, q) THEN FALSE ELSE spoilt \/ Spoilt(s, q), hand)
         /\ Told(Tail(q), StageAfter(stage, q), v.mounted, v.suspended)
<1> DEFINE e == Head(q)
           P == Range(Tail(q))
           R == Range(q)
           v == Handled(s, q)
           spoilt2 == IF Restarted(s, q) THEN FALSE ELSE spoilt \/ Spoilt(s, q)
           stage2 == StageAfter(stage, q)
<1>1. R = {e} \cup P /\ e \in Events BY Popped
<1>2. s \in Device /\ s.mounted \in BOOLEAN /\ s.suspended \in BOOLEAN
  <2>1. s \in Device BY DEF Sound
  <2> QED BY <2>1, DeviceTypes
<1>3. Sound(s, R, spoilt, hand) OBVIOUS
<1>4. \A b \in P : Follows(e, b) BY PoppedOrder DEF Told
<1>5. Told(Tail(q), stage, s.mounted, s.suspended) BY <1>2, ToldLess
\* Most events leave the host and the session alone.
<1>6. ASSUME Sound(v, P, spoilt, hand), v.mounted = s.mounted,
             v.suspended = s.suspended, stage2 = stage, spoilt2 = spoilt
      PROVE  Sound(v, P, spoilt2, hand) /\ Told(Tail(q), stage2, v.mounted, v.suspended)
  <2> HIDE DEF v, P, spoilt2, stage2
  <2> QED BY <1>5, <1>6
<1>7. CASE Skipped(e, Tail(q))
  <2>1. e \in Requests BY <1>7 DEF Skipped
  <2>2. v = s /\ stage2 = stage BY <1>7 DEF Handled, StageAfter
  <2>3. spoilt2 = spoilt BY <1>7, <2>1 DEF Restarted, Spoilt, Requests
  <2>4. Sound(s, P, spoilt, hand)
    <3>1. P \subseteq R BY <1>1
    <3>2. R \cap {"out", "bad", "reset", "resume"} \subseteq P BY <1>1, <2>1 DEF Requests
    <3> HIDE DEF P, R
    <3> QED BY <1>3, <3>1, <3>2, SoundLess
  <2> QED BY <1>6, <2>2, <2>3, <2>4
<1>8. CASE e \in Requests /\ ~Skipped(e, Tail(q))
  <2>1. v = Setup(s, e) BY <1>8 DEF Handled, After, Requests
  <2>2. stage2 = IF "reset" \in P THEN stage ELSE Answered(stage, e)
    BY <1>8 DEF StageAfter
  <2>3. spoilt2 = IF e = "deselect" /\ s.mounted THEN FALSE
                  ELSE spoilt \/ (e = "clear_out" /\ s.mounted /\ s.out = "armed")
    BY <1>8 DEF Restarted, Spoilt, Requests
  <2> QED BY <1>8, <2>1, <2>2, <2>3, RequestHandled
<1>9. CASE e = "reset"
  <2>1. ~Skipped(e, Tail(q)) BY <1>9 DEF Skipped, Requests
  <2>2. v = Reset(s) BY <1>9, <2>1 DEF Handled, After, Requests
  <2>3. stage2 = stage BY <1>9 DEF StageAfter, Answered
  <2>4. spoilt2 = FALSE BY <1>9 DEF Restarted
  <2>5. Sound(v, P, FALSE, hand) /\ v.mounted = FALSE /\ v.suspended = FALSE
    <3>1. Sound(Reset(s), P, FALSE, hand) /\ ~Reset(s).mounted /\ ~Reset(s).suspended
      BY <1>2, SoundReset
    <3>2. Reset(s) \in Device BY <3>1 DEF Sound
    <3>3. Reset(s).mounted \in BOOLEAN /\ Reset(s).suspended \in BOOLEAN
      BY <3>2, DeviceTypes
    <3> QED BY <2>2, <3>1, <3>3
  <2>6. stage = "default" BY <1>1, <1>9 DEF Told
  <2>7. Sleeps(Tail(q), FALSE)
    <3>1. "config" \notin P BY <1>4, <1>9 DEF Follows
    <3>2. Tail(q) \in Seq(Events) BY Popped
    <3> QED BY <3>1, <3>2, NoneSleeps
  <2>8. Told(Tail(q), stage, FALSE, FALSE) BY <1>5, <2>6, <2>7 DEF Told
  <2> HIDE DEF v, P, spoilt2, stage2
  <2> QED BY <2>3, <2>4, <2>5, <2>8 DEF v, P, spoilt2, stage2
<1>10. CASE e \in OutEvents
  <2>1. ~Skipped(e, Tail(q)) BY <1>10 DEF Skipped, Requests, OutEvents
  <2>2. stage2 = stage BY <1>10 DEF StageAfter, Answered, OutEvents
  <2>3. spoilt2 = spoilt BY <1>10 DEF Restarted, Spoilt, OutEvents
  <2>4. v = IF s.mounted THEN BlockReceived(FreeOut(s), e = "out") ELSE FreeOut(s)
    BY <1>10, <2>1 DEF Handled, After, OutEvents, FreeOut, Requests
  <2>5. CASE s.mounted
    <3>1. P \subseteq R /\ P \cap OutEvents = {} /\ e \in R
      BY <1>1, <1>4, <1>10 DEF Follows
    <3>2. "resume" \in R => "resume" \in P BY <1>1, <1>10 DEF OutEvents
    <3>3. v = BlockReceived(FreeOut(s), e = "out") BY <2>4, <2>5
    <3> HIDE DEF v, P, R, e
    <3>4. Sound(v, P, spoilt, hand) /\ v.mounted /\ v.suspended = s.suspended
      BY <1>3, <1>10, <2>5, <3>1, <3>2, <3>3, SoundReceived
    <3>5. v \in Device BY <3>4 DEF Sound
    <3>6. v.mounted = s.mounted BY <1>2, <2>5, <3>4, <3>5, DeviceTypes
    <3> QED BY <1>6, <2>2, <2>3, <3>4, <3>6 DEF v, P
  <2>6. CASE ~s.mounted
    <3>1. v = FreeOut(s) BY <2>4, <2>6
    <3> HIDE DEF v, P, R, e
    <3>2. Sound(v, P, spoilt, hand) /\ ~v.mounted /\ v.suspended = s.suspended
      BY <1>3, <2>6, <3>1, SoundUnmounted
    <3>3. v \in Device BY <3>2 DEF Sound
    <3>4. v.mounted = s.mounted BY <1>2, <2>6, <3>2, <3>3, DeviceTypes
    <3> QED BY <1>6, <2>2, <2>3, <3>2, <3>4 DEF v, P
  <2> QED BY <2>5, <2>6
<1>11. CASE e \in InEvents
  <2>1. ~Skipped(e, Tail(q)) BY <1>11 DEF Skipped, Requests, InEvents
  <2>2. stage2 = stage BY <1>11 DEF StageAfter, Answered, InEvents
  <2>3. spoilt2 = spoilt BY <1>11 DEF Restarted, Spoilt, InEvents
  <2>4. v = IF s.mounted THEN BlockSent(FreeIn(s), e = "in_full") ELSE FreeIn(s)
    BY <1>11, <2>1 DEF Handled, After, InEvents, FreeIn, Requests
  <2>5. CASE s.mounted
    <3>1. P \subseteq R /\ P \cap InEvents = {} /\ e \in R
      BY <1>1, <1>4, <1>11 DEF Follows
    <3>2. \A x \in {"out", "bad", "reset", "resume"} : x \in R => x \in P
      BY <1>1, <1>11 DEF InEvents
    <3>3. v = BlockSent(FreeIn(s), e = "in_full") BY <2>4, <2>5
    <3> HIDE DEF v, P, R, e
    <3>4. Sound(v, P, spoilt, hand) /\ v.mounted /\ v.suspended = s.suspended
      BY <1>3, <1>11, <2>5, <3>1, <3>2, <3>3, SoundSent
    <3>5. v \in Device BY <3>4 DEF Sound
    <3>6. v.mounted = s.mounted BY <1>2, <2>5, <3>4, <3>5, DeviceTypes
    <3> QED BY <1>6, <2>2, <2>3, <3>4, <3>6 DEF v, P
  <2>6. CASE ~s.mounted
    <3>1. v = FreeIn(s) BY <2>4, <2>6
    <3> HIDE DEF v, P, R, e
    <3>2. Sound(v, P, spoilt, hand) /\ ~v.mounted /\ v.suspended = s.suspended
      BY <1>3, <2>6, <3>1, SoundUnmounted
    <3>3. v \in Device BY <3>2 DEF Sound
    <3>4. v.mounted = s.mounted BY <1>2, <2>6, <3>2, <3>3, DeviceTypes
    <3> QED BY <1>6, <2>2, <2>3, <3>2, <3>4 DEF v, P
  <2> QED BY <2>5, <2>6
<1>12. CASE e \in {"suspend", "resume"}
  <2>1. ~Skipped(e, Tail(q)) BY <1>12 DEF Skipped, Requests
  <2>2. stage2 = stage BY <1>12 DEF StageAfter, Answered
  <2>3. spoilt2 = spoilt BY <1>12 DEF Restarted, Spoilt
  <2>4. v = IF e = "suspend" THEN (IF s.connected THEN [s EXCEPT !.link = FALSE] ELSE s)
            ELSE (IF s.connected /\ s.mounted THEN [s EXCEPT !.link = TRUE] ELSE s)
    BY <1>12, <2>1 DEF Handled, After, Resumed, Requests
  <2>5. /\ v \in Device /\ SameIn(s, v) /\ SameOut(s, v) /\ v.mounted = s.mounted
        /\ v.connected = s.connected /\ v.suspended = s.suspended
    <3>1. CASE v = s BY <1>2, <3>1 DEF SameIn, SameOut
    <3>2. CASE v = [s EXCEPT !.link = FALSE]
      <4> HIDE DEF v
      <4> QED BY <1>2, <3>2 DEF Device, SameIn, SameOut
    <3>3. CASE v = [s EXCEPT !.link = TRUE]
      <4> HIDE DEF v
      <4> QED BY <1>2, <3>3 DEF Device, SameIn, SameOut
    <3> HIDE DEF v
    <3> QED BY <2>4, <3>1, <3>2, <3>3
  <2>6. v.mounted /\ ~v.link /\ ~v.suspended => "resume" \in P
    <3>1. CASE e = "suspend"
      <4>1. s.mounted /\ ~s.suspended => Sleeps(q, s.mounted) BY DEF Told
      <4>2. s.mounted /\ ~s.suspended => "resume" \in P BY <1>2, <3>1, <4>1, PoppedSleeps
      <4> HIDE DEF v
      <4> QED BY <2>5, <4>2
    <3>2. CASE e = "resume"
      <4>1. s.mounted => s.connected BY DEF Sound, Configured
      <4>2. s.mounted => v = [s EXCEPT !.link = TRUE] BY <2>4, <3>2, <4>1
      <4>3. s.mounted => v.link
        <5> HIDE DEF v
        <5> QED BY <1>2, <4>2 DEF Device
      <4> HIDE DEF v
      <4> QED BY <2>5, <4>3
    <3> QED BY <1>12, <3>1, <3>2
  <2>7. P \subseteq R \cup {"suspend", "resume"} BY <1>1
  <2>8. R \cap {"out", "bad", "reset"} \subseteq P BY <1>1, <1>12
  <2>9. Sound(v, P, spoilt, hand)
    <3> HIDE DEF v, P, R, e
    <3> QED BY <1>3, <2>5, <2>6, <2>7, <2>8, SoundBus
  <2> QED BY <1>6, <2>2, <2>3, <2>5, <2>9
<1> QED
  BY <1>1, <1>7, <1>8, <1>9, <1>10, <1>11, <1>12 DEF Events, OutEvents, InEvents

-----------------------------------------------------------------------------
(* The steps.                                                                *)

IInv ==
  /\ TypeOK
  /\ Sound(dev, Range(events), link.spoilt, InHand)
  /\ Told(events, host.stage, dev.mounted, dev.suspended)
  /\ InHand => handled < Budget

LEMMA ToldQueued ==
  ASSUME NEW q \in Seq(Events), NEW e \in Events, NEW stage, NEW m \in BOOLEAN,
         NEW sus \in BOOLEAN, Told(q, stage, m, sus), NEW stage2, NEW sus2 \in BOOLEAN,
         \A a \in Range(q) : Follows(a, e),
         \/ e = "reset" /\ stage2 = "default"
         \/ stage2 = stage /\ e # "reset" /\ (e \in Requests => Suits(e, stage)),
         sus2 \/ e = "resume" \/ (e # "suspend" /\ sus2 = sus)
  PROVE  Told(Append(q, e), stage2, m, sus2)
<1>1. Ordered(Append(q, e)) BY QueuedOrder DEF Told
<1>2. Suited(Append(q, e), stage2)
  <2>1. Suited(q, stage) BY DEF Told
  <2>2. \/ e = "reset"
        \/ Suited(q, stage) /\ stage2 = stage /\ (e \in Requests => Suits(e, stage))
    BY <2>1
  <2> QED BY <2>2, QueuedSuited
<1>3. Range(Append(q, e)) = Range(q) \cup {e} BY Queued
<1>4. sus2 \/ Sleeps(Append(q, e), m) BY QueuedSleeps DEF Told
<1>5. "reset" \in Range(Append(q, e)) => stage2 = "default" BY <1>3 DEF Told
<1>6. stage2 \in {"configured", "up"} => m BY DEF Told
<1> QED BY <1>1, <1>2, <1>4, <1>5, <1>6 DEF Told

LEMMA Types ==
  IInv => /\ dev \in Device /\ dev.mounted \in BOOLEAN /\ dev.suspended \in BOOLEAN
          /\ events \in Seq(Events) /\ link.spoilt \in BOOLEAN /\ InHand \in BOOLEAN
          /\ host.stage \in Stages /\ host.asleep \in BOOLEAN
          /\ Sound(dev, Range(events), link.spoilt, InHand)
          /\ Told(events, host.stage, dev.mounted, dev.suspended)
          /\ RecvBlocks(dev) <= RecvN
<1> SUFFICES ASSUME IInv PROVE /\ dev \in Device
          /\ dev.mounted \in BOOLEAN /\ dev.suspended \in BOOLEAN
          /\ events \in Seq(Events) /\ link.spoilt \in BOOLEAN /\ InHand \in BOOLEAN
          /\ host.stage \in Stages /\ host.asleep \in BOOLEAN
          /\ Sound(dev, Range(events), link.spoilt, InHand)
          /\ Told(events, host.stage, dev.mounted, dev.suspended)
          /\ RecvBlocks(dev) <= RecvN
  OBVIOUS
<1>1. dev \in Device BY DEF IInv, Sound
<1>2. dev.mounted \in BOOLEAN /\ dev.suspended \in BOOLEAN BY <1>1, DeviceTypes
<1>3. events \in Seq(Events) /\ link.spoilt \in BOOLEAN
      /\ host.stage \in Stages /\ host.asleep \in BOOLEAN
  BY DEF IInv, TypeOK, Stages
<1>4. InHand \in BOOLEAN BY DEF InHand
<1>5. RecvBlocks(dev) <= RecvN BY DEF IInv, Sound, Kept
<1> QED BY <1>1, <1>2, <1>3, <1>4, <1>5 DEF IInv

LEMMA InitHolds == Init => IInv
<1> SUFFICES ASSUME Init PROVE IInv OBVIOUS
<1>1. /\ dev = Cleared /\ events = <<>> /\ pc = "usb" /\ caller = "timers"
      /\ handled = 0 /\ attempt = 0 /\ replied = FALSE
      /\ host = [stage |-> "default", asleep |-> FALSE]
      /\ link = [in |-> 0, out |-> 0, lwip |-> None, host |-> None,
                 spoilt |-> FALSE, session |-> FALSE]
  BY DEF Init, NewLink
<1>2. ~InHand BY <1>1 DEF InHand
<1>3. dev \in Device /\ Sound(dev, Range(events), FALSE, InHand) BY <1>1, SoundCleared
<1>4. TypeOK
  <2>1. events \in Seq(Events) /\ Len(events) <= MaxEvents BY <1>1, Sizes
  <2>2. handled \in 0 .. Budget /\ attempt \in 0 .. Attempts BY <1>1, Sizes
  <2>3. host \in [stage : {"default", "addressed", "configured", "up"}, asleep : BOOLEAN]
    BY <1>1
  <2>4. link \in [in : Frames, out : Frames, lwip : Frames \cup {None},
                  host : Frames \cup {None}, spoilt : BOOLEAN, session : BOOLEAN]
    BY <1>1, Sizes
  <2> QED BY <1>1, <1>3, <2>1, <2>2, <2>3, <2>4 DEF TypeOK
<1>5. Told(events, host.stage, dev.mounted, dev.suspended)
  <2>1. host.stage = "default" BY <1>1
  <2>2. dev.mounted = FALSE BY <1>1 DEF Cleared
  <2>3. Ordered(events) /\ Suited(events, host.stage) /\ Sleeps(events, FALSE)
    BY <1>1 DEF Ordered, Suited, Sleeps
  <2> QED BY <2>1, <2>2, <2>3 DEF Told
<1>6. link.spoilt = FALSE BY <1>1
<1> QED BY <1>2, <1>3, <1>4, <1>5, <1>6 DEF IInv

LEMMA EventStep == IInv /\ tud_task => IInv'
<1> SUFFICES ASSUME IInv, tud_task PROVE IInv' OBVIOUS
<1> DEFINE e == Head(events)
           rest == Tail(events)
<1>1. /\ pc \in {"usb", "nested"} /\ events # <<>> /\ events' = rest
      /\ dev' = Handled(dev, events)
      /\ link' = IF Restarted(dev, events) THEN NewLink(~link.session)
                 ELSE [link EXCEPT !.spoilt = @ \/ Spoilt(dev, events)]
      /\ host' = IF "reset" \in Range(rest) \/ Skipped(e, rest) THEN host
                 ELSE [host EXCEPT !.stage = Answered(@, e)]
      /\ pc' = IF ~Leaves(dev, e) THEN pc
               ELSE IF pc = "usb" THEN "rx" ELSE "output"
      /\ UNCHANGED <<caller, handled, attempt, replied>>
  BY DEF tud_task, Handled, Restarted, Restarts, Spoilt, Spoils
<1>2. InHand' = InHand BY <1>1 DEF InHand
<1>3. events' \in Seq(Events) /\ Len(events') <= MaxEvents
  <2>1. events \in Seq(Events) /\ Len(events) <= MaxEvents BY DEF IInv, TypeOK
  <2>2. rest \in Seq(Events) /\ Len(events) = Len(rest) + 1 /\ Len(rest) \in Nat
    BY <1>1, <2>1, Popped
  <2> HIDE DEF rest
  <2> QED BY <1>1, <2>1, <2>2, Sizes
<1>4. host'.stage = StageAfter(host.stage, events) /\ host'.stage \in Stages
      /\ host'.asleep \in BOOLEAN
      /\ host' \in [stage : {"default", "addressed", "configured", "up"}, asleep : BOOLEAN]
  <2>1. host \in [stage : {"default", "addressed", "configured", "up"}, asleep : BOOLEAN]
    BY DEF IInv, TypeOK
  <2>2. Answered(host.stage, e) \in Stages BY <2>1 DEF Answered, Stages
  <2> HIDE DEF e
  <2> QED BY <1>1, <2>1, <2>2 DEF StageAfter, Stages, e
<1>5. /\ link'.spoilt = IF Restarted(dev, events) THEN FALSE
                         ELSE link.spoilt \/ Spoilt(dev, events)
      /\ link' \in [in : Frames, out : Frames, lwip : Frames \cup {None},
               host : Frames \cup {None}, spoilt : BOOLEAN, session : BOOLEAN]
  <2>1. link \in [in : Frames, out : Frames, lwip : Frames \cup {None},
               host : Frames \cup {None}, spoilt : BOOLEAN, session : BOOLEAN]
    BY DEF IInv, TypeOK
  <2>2. Spoilt(dev, events) \in BOOLEAN BY DEF Spoilt
  <2>3. CASE Restarted(dev, events)
    BY <1>1, <2>1, <2>3, Sizes DEF NewLink
  <2>4. CASE ~Restarted(dev, events)
    <3>1. link' = [link EXCEPT !.spoilt = @ \/ Spoilt(dev, events)] BY <1>1, <2>4
    <3>2. (link.spoilt \/ Spoilt(dev, events)) \in BOOLEAN OBVIOUS
    <3> QED BY <2>1, <2>4, <3>1, <3>2
  <2> QED BY <2>3, <2>4
<1>6. /\ Sound(dev', Range(rest),
               IF Restarted(dev, events) THEN FALSE
               ELSE link.spoilt \/ Spoilt(dev, events), InHand)
      /\ Told(rest, StageAfter(host.stage, events), dev'.mounted, dev'.suspended)
  BY <1>1, Types, EventHandled
<1>7. Sound(dev', Range(events'), link'.spoilt, InHand') BY <1>1, <1>2, <1>5, <1>6
<1>8. Told(events', host'.stage, dev'.mounted, dev'.suspended) BY <1>1, <1>4, <1>6
<1>9. TypeOK'
  <2>1. dev' \in Device BY <1>7 DEF Sound
  <2>2. pc' \in {"usb", "nested", "rx", "input", "output", "timers"} BY <1>1
  <2> HIDE DEF e, rest
  <2> QED BY <1>1, <1>3, <1>4, <1>5, <2>1, <2>2 DEF IInv, TypeOK
<1>10. InHand' => handled' < Budget BY <1>1, <1>2 DEF IInv
<1> QED BY <1>7, <1>8, <1>9, <1>10 DEF IInv

\* What a step of the main loop has to keep, with the queue as it is.
LEMMA MainStep ==
  ASSUME IInv, events' = events, host' = host, link'.spoilt = link.spoilt,
         Sound(dev', Range(events), link.spoilt, InHand'),
         dev'.mounted = dev.mounted, dev'.suspended = dev.suspended,
         pc' \in {"usb", "nested", "rx", "input", "output", "timers"},
         caller' \in {"input", "timers"}, replied' \in BOOLEAN,
         handled' \in 0 .. Budget, attempt' \in 0 .. Attempts,
         link' \in [in : Frames, out : Frames, lwip : Frames \cup {None},
                    host : Frames \cup {None}, spoilt : BOOLEAN, session : BOOLEAN],
         InHand' => handled' < Budget
  PROVE  IInv'
<1>1. dev' \in Device BY DEF Sound
<1>2. TypeOK' BY <1>1 DEF IInv, TypeOK
<1>3. Told(events', host'.stage, dev'.mounted, dev'.suspended) BY DEF IInv
<1> QED BY <1>2, <1>3 DEF IInv

LEMMA IdleSteps == IInv /\ (tud_task_done \/ rx_done \/ send \/ output_refused) => IInv'
<1> SUFFICES ASSUME IInv, tud_task_done \/ rx_done \/ send \/ output_refused PROVE IInv'
  OBVIOUS
<1>1. /\ dev' = dev /\ events' = events /\ host' = host /\ link' = link
      /\ handled' = handled
  BY DEF tud_task_done, rx_done, send, output_refused
<1>2. InHand' = InHand
  BY DEF tud_task_done, rx_done, send, output_refused, InHand, IInv, TypeOK
<1>3. /\ pc' \in {"usb", "nested", "rx", "input", "output", "timers"}
      /\ caller' \in {"input", "timers"} /\ replied' \in BOOLEAN
      /\ attempt' \in 0 .. Attempts
  <2>0. /\ caller \in {"input", "timers"} /\ replied \in BOOLEAN
        /\ attempt \in 0 .. Attempts /\ 0 \in 0 .. Attempts
    BY Sizes DEF IInv, TypeOK
  <2>1. CASE tud_task_done BY <2>0, <2>1 DEF tud_task_done
  <2>2. CASE rx_done BY <2>0, <2>2 DEF rx_done
  <2>3. CASE send BY <2>0, <2>3 DEF send
  <2>4. CASE output_refused BY <2>0, <2>4 DEF output_refused
  <2> QED BY <2>1, <2>2, <2>3, <2>4
<1>4. /\ handled \in 0 .. Budget
      /\ link \in [in : Frames, out : Frames, lwip : Frames \cup {None},
                   host : Frames \cup {None}, spoilt : BOOLEAN, session : BOOLEAN]
  BY DEF IInv, TypeOK
<1>5. Sound(dev', Range(events), link.spoilt, InHand') BY <1>1, <1>2 DEF IInv
<1>6. InHand' => handled' < Budget BY <1>1, <1>2 DEF IInv
<1> QED BY <1>1, <1>3, <1>4, <1>5, <1>6, MainStep

LEMMA TakeStep == IInv /\ take_frame => IInv'
<1> SUFFICES ASSUME IInv, take_frame PROVE IInv' OBVIOUS
<1>1. /\ pc = "rx" /\ handled < Budget /\ dev.received_frame # None
      /\ dev' = Emptied(dev)
      /\ link' = [link EXCEPT !.lwip = dev.received_frame]
      /\ pc' = "input" /\ replied' = FALSE
      /\ events' = events /\ caller' = caller /\ handled' = handled
      /\ attempt' = attempt /\ host' = host
  BY DEF take_frame, Emptied
<1>2. InHand' = TRUE BY <1>1 DEF InHand
<1>3. /\ Sound(dev', Range(events), link.spoilt, TRUE)
      /\ dev'.mounted = dev.mounted /\ dev'.suspended = dev.suspended
  BY <1>1, Types, SoundInHand
<1>4. /\ link'.spoilt = link.spoilt
      /\ link' \in [in : Frames, out : Frames, lwip : Frames \cup {None},
                    host : Frames \cup {None}, spoilt : BOOLEAN, session : BOOLEAN]
  <2>1. dev.received_frame \in Frames \cup {None} BY Types, DeviceTypes
  <2>2. link \in [in : Frames, out : Frames, lwip : Frames \cup {None},
                  host : Frames \cup {None}, spoilt : BOOLEAN, session : BOOLEAN]
    BY DEF IInv, TypeOK
  <2> QED BY <1>1, <2>1, <2>2
<1>5. /\ handled \in 0 .. Budget /\ attempt \in 0 .. Attempts
      /\ caller \in {"input", "timers"}
  BY DEF IInv, TypeOK
<1> QED BY <1>1, <1>2, <1>3, <1>4, <1>5, MainStep

LEMMA RenewStep == IInv /\ input_done => IInv'
<1> SUFFICES ASSUME IInv, input_done PROVE IInv' OBVIOUS
<1>1. /\ pc = "input" /\ dev' = Renew(dev) /\ handled' = handled + 1 /\ pc' = "rx"
      /\ events' = events /\ caller' = caller /\ replied' = replied
      /\ attempt' = attempt /\ host' = host /\ link' = link
  BY DEF input_done
<1>2. InHand' = FALSE BY <1>1 DEF InHand
<1>3. handled < Budget BY <1>1 DEF IInv, InHand
<1>4. /\ handled \in 0 .. Budget /\ attempt \in 0 .. Attempts /\ replied \in BOOLEAN
      /\ caller \in {"input", "timers"}
      /\ link \in [in : Frames, out : Frames, lwip : Frames \cup {None},
                   host : Frames \cup {None}, spoilt : BOOLEAN, session : BOOLEAN]
  BY DEF IInv, TypeOK
<1>5. handled' \in 0 .. Budget BY <1>1, <1>3, <1>4, Sizes
<1>6. /\ Sound(dev', Range(events), link.spoilt, FALSE)
      /\ dev'.mounted = dev.mounted /\ dev'.suspended = dev.suspended
  <2>1. Kept(dev, link.spoilt) /\ Configured(dev, Range(events), link.spoilt)
    BY Types DEF Sound
  <2>2. \/ link.spoilt \/ dev.recv_tinyusb = None \/ dev.out = "armed"
        \/ Range(events) \cap {"out", "bad", "reset"} # {}
    BY Types DEF Sound, GoesOn
  <2> QED BY <1>1, <2>1, <2>2, Types, SoundRenewed
<1> QED BY <1>1, <1>2, <1>4, <1>5, <1>6, MainStep

LEMMA FlushStep == IInv /\ flush => IInv'
<1> SUFFICES ASSUME IInv, flush PROVE IInv' OBVIOUS
<1>1. /\ pc = "timers" /\ dev' = StartTransmission(dev) /\ pc' = "usb" /\ handled' = 0
      /\ events' = events /\ caller' = caller /\ replied' = replied
      /\ attempt' = attempt /\ host' = host /\ link' = link
  BY DEF flush
<1>2. InHand' = InHand /\ InHand' = FALSE BY <1>1 DEF InHand
<1>3. /\ attempt \in 0 .. Attempts /\ replied \in BOOLEAN
      /\ caller \in {"input", "timers"}
      /\ link \in [in : Frames, out : Frames, lwip : Frames \cup {None},
                   host : Frames \cup {None}, spoilt : BOOLEAN, session : BOOLEAN]
  BY DEF IInv, TypeOK
<1>4. /\ Sound(dev', Range(events), link.spoilt, InHand')
      /\ dev'.mounted = dev.mounted /\ dev'.suspended = dev.suspended
  BY <1>1, <1>2, Types, SoundTransmitting
<1>5. handled' \in 0 .. Budget BY <1>1, Sizes
<1> QED BY <1>1, <1>2, <1>3, <1>4, <1>5, MainStep

LEMMA SubmitStep == IInv /\ output_submit => IInv'
<1> SUFFICES ASSUME IInv, output_submit PROVE IInv' OBVIOUS
<1>1. /\ pc = "output" /\ Room(dev).xmit_glue # None
      /\ dev' = [Room(dev) EXCEPT !.xmit_glue = Append(@, link.out)]
      /\ link' = [link EXCEPT !.out = Following(@)] /\ pc' = caller
      /\ events' = events /\ caller' = caller /\ replied' = replied
      /\ attempt' = attempt /\ host' = host /\ handled' = handled
  BY DEF output_submit
<1>2. /\ handled \in 0 .. Budget /\ attempt \in 0 .. Attempts /\ replied \in BOOLEAN
      /\ caller \in {"input", "timers"}
      /\ link \in [in : Frames, out : Frames, lwip : Frames \cup {None},
                   host : Frames \cup {None}, spoilt : BOOLEAN, session : BOOLEAN]
  BY DEF IInv, TypeOK
<1>3. InHand' = InHand BY <1>1, <1>2 DEF InHand
<1>4. /\ link'.spoilt = link.spoilt
      /\ link' \in [in : Frames, out : Frames, lwip : Frames \cup {None},
                    host : Frames \cup {None}, spoilt : BOOLEAN, session : BOOLEAN]
  <2>1. Following(link.out) \in Frames
    <3>1. link.out \in Nat BY <1>2, Sizes
    <3>2. link.out + 1 \in Nat BY <3>1
    <3> QED BY <3>2, Sizes DEF Following
  <2> QED BY <1>1, <1>2, <2>1
<1>5. /\ Sound(dev', Range(events), link.spoilt, InHand')
      /\ dev'.mounted = dev.mounted /\ dev'.suspended = dev.suspended
  <2>1. link.out \in Frames BY <1>2
  <2>2. /\ dev' \in Device /\ SameBus(dev, dev') /\ SameOut(dev, dev')
        /\ XmitBlocks(dev') = XmitBlocks(dev)
        /\ dev'.xmit_tinyusb = dev.xmit_tinyusb
        /\ dev'.busy_in = dev.busy_in /\ dev'.in = dev.in
    BY <1>1, <2>1, Types, Submitted
  <2>3. Sound(dev', Range(events), link.spoilt, InHand)
    BY <2>2, Types, SoundFilled
  <2> QED BY <1>3, <2>2, <2>3 DEF SameBus
<1>6. InHand' => handled' < Budget BY <1>1, <1>3 DEF IInv
<1>7. pc' \in {"usb", "nested", "rx", "input", "output", "timers"} BY <1>1, <1>2
<1> QED BY <1>1, <1>2, <1>4, <1>5, <1>6, <1>7, MainStep

LEMMA WaitStep == IInv /\ output_wait => IInv'
<1> SUFFICES ASSUME IInv, output_wait PROVE IInv' OBVIOUS
<1> DEFINE s == Room(dev)
<1>1. /\ pc = "output" /\ attempt < Attempts /\ s.xmit_glue = None
      /\ dev' = StartTransmission(s) /\ attempt' = attempt + 1 /\ pc' = "nested"
      /\ events' = events /\ caller' = caller /\ replied' = replied
      /\ host' = host /\ handled' = handled /\ link' = link
  BY DEF output_wait
<1>2. /\ handled \in 0 .. Budget /\ attempt \in 0 .. Attempts /\ replied \in BOOLEAN
      /\ caller \in {"input", "timers"}
      /\ link \in [in : Frames, out : Frames, lwip : Frames \cup {None},
                   host : Frames \cup {None}, spoilt : BOOLEAN, session : BOOLEAN]
  BY DEF IInv, TypeOK
<1>3. InHand' = InHand BY <1>1 DEF InHand
<1>4. /\ s \in Device /\ SameBus(dev, s) /\ SameOut(dev, s)
      /\ XmitBlocks(s) = XmitBlocks(dev) /\ s.xmit_tinyusb = dev.xmit_tinyusb
      /\ s.busy_in = dev.busy_in /\ s.in = dev.in
  BY <1>1, Types, NoRoom
<1> HIDE DEF s
<1>5. Sound(s, Range(events), link.spoilt, InHand) BY <1>4, Types, SoundFilled
<1>6. /\ Sound(dev', Range(events), link.spoilt, InHand)
      /\ dev'.mounted = s.mounted /\ dev'.suspended = s.suspended
  BY <1>1, <1>5, Types, SoundTransmitting
<1>7. dev'.mounted = dev.mounted /\ dev'.suspended = dev.suspended
  BY <1>4, <1>6 DEF SameBus
<1>8. attempt' \in 0 .. Attempts BY <1>1, <1>2, Sizes
<1>9. InHand' => handled' < Budget BY <1>1, <1>3 DEF IInv
<1>10. Sound(dev', Range(events), link.spoilt, InHand') BY <1>3, <1>6
<1> QED BY <1>1, <1>2, <1>7, <1>8, <1>9, <1>10, MainStep

\* What the interrupt has to keep: it posts an event, or nothing.
LEMMA PostStep ==
  ASSUME IInv, UNCHANGED mainVars, NEW e \in Events, Post(e),
         Sound(dev', Range(events) \cup {e}, link'.spoilt, InHand),
         dev'.mounted = dev.mounted,
         \A a \in Range(events) : Follows(a, e),
         \/ e = "reset" /\ host'.stage = "default"
         \/ /\ host'.stage = host.stage /\ e # "reset"
            /\ e \in Requests => Suits(e, host.stage),
         dev'.suspended \/ e = "resume" \/ (e # "suspend" /\ dev'.suspended = dev.suspended),
         host' \in [stage : {"default", "addressed", "configured", "up"}, asleep : BOOLEAN],
         link' \in [in : Frames, out : Frames, lwip : Frames \cup {None},
                    host : Frames \cup {None}, spoilt : BOOLEAN, session : BOOLEAN]
  PROVE  IInv'
<1>1. events \in Seq(Events) /\ events' = Append(events, e) /\ Len(events) < MaxEvents
  BY Types DEF Post
<1>2. /\ events' \in Seq(Events) /\ Range(events') = Range(events) \cup {e}
      /\ Len(events') = Len(events) + 1 /\ Len(events) \in Nat
  BY <1>1, Queued
<1>3. Len(events') <= MaxEvents BY <1>1, <1>2, Sizes
<1>4. dev' \in Device BY DEF Sound
<1>5. TypeOK' BY <1>2, <1>3, <1>4 DEF IInv, TypeOK, mainVars
<1>6. InHand' = InHand BY DEF InHand, mainVars
<1>7. dev'.suspended \in BOOLEAN BY <1>4, DeviceTypes
<1>8. Told(Append(events, e), host'.stage, dev.mounted, dev'.suspended)
  BY <1>7, Types, ToldQueued
<1>9. InHand' => handled' < Budget BY <1>6 DEF IInv, mainVars
<1>10. Sound(dev', Range(events'), link'.spoilt, InHand') BY <1>2, <1>6
<1> QED BY <1>1, <1>5, <1>8, <1>9, <1>10 DEF IInv

LEMMA ResetStep == IInv /\ bus_reset => IInv'
<1> SUFFICES ASSUME IInv, bus_reset PROVE IInv' OBVIOUS
<1>1. /\ Post("reset") /\ dev' = Controller(dev) /\ UNCHANGED mainVars /\ link' = link
      /\ host' = [stage |-> "default", asleep |-> FALSE]
  BY DEF bus_reset
<1>2. /\ Sound(dev', Range(events) \cup {"reset"}, link.spoilt, InHand)
      /\ dev'.mounted = dev.mounted /\ dev'.suspended = dev.suspended
  BY <1>1, Types, SoundControllerReset
<1>3. \A a \in Range(events) : Follows(a, "reset")
  BY DEF Follows, OutEvents, InEvents
<1>4. "reset" \in Events BY DEF Events
<1>5. /\ host'.stage = "default"
      /\ host' \in [stage : {"default", "addressed", "configured", "up"}, asleep : BOOLEAN]
  BY <1>1
<1>6. link' \in [in : Frames, out : Frames, lwip : Frames \cup {None},
                 host : Frames \cup {None}, spoilt : BOOLEAN, session : BOOLEAN]
  BY <1>1 DEF IInv, TypeOK
<1> QED BY <1>1, <1>2, <1>3, <1>4, <1>5, <1>6, PostStep

\* While the device is up no reset and no configuration is queued.
LEMMA UpIsConfigured ==
  ASSUME IInv, host.stage = "up"
  PROVE  /\ dev.mounted /\ "reset" \notin Range(events) /\ "config" \notin Range(events)
<1>1. dev.mounted /\ "reset" \notin Range(events) BY Types DEF Told
<1>2. Suited(events, "up") BY Types DEF Told
<1> QED BY <1>1, <1>2, Types, NothingToConfigure

LEMMA ArrivedStep == IInv /\ (out_done \/ out_bad) => IInv'
<1> SUFFICES ASSUME IInv, out_done \/ out_bad PROVE IInv' OBVIOUS
<1>1. /\ host.stage = "up" /\ dev.out = "armed" /\ UNCHANGED mainVars /\ host' = host
  BY DEF out_done, out_bad
<1>2. /\ dev.mounted /\ "reset" \notin Range(events) /\ "config" \notin Range(events)
  BY <1>1, UpIsConfigured
<1>3. dev.recv_tinyusb # None /\ Range(events) \cap OutEvents = {}
  BY <1>1, <1>2, Types DEF Sound, Configured, Received
<1>4. \A e \in OutEvents : \A a \in Range(events) : Follows(a, e)
  BY <1>2, <1>3 DEF Follows, OutEvents, InEvents
<1>5. /\ link \in [in : Frames, out : Frames, lwip : Frames \cup {None},
                   host : Frames \cup {None}, spoilt : BOOLEAN, session : BOOLEAN]
      /\ host \in [stage : {"default", "addressed", "configured", "up"}, asleep : BOOLEAN]
  BY DEF IInv, TypeOK
<1>6. OutEvents \subseteq Events /\ \A e \in OutEvents : e \notin {"reset", "suspend", "resume"}
      /\ e \notin Requests
  BY DEF OutEvents, Events, Requests
<1>7. dev.recv_tinyusb \in FromHost \cup {<<>>, None} BY Types, DeviceTypes
<1>8. CASE out_done
  <2>1. PICK n \in 1 .. 2 :
          LET block == [k \in 1 .. n |-> (link.in + k - 1) % Cardinality(Frames)] IN
          /\ dev' = [dev EXCEPT !.out = "idle",
                                !.recv_tinyusb = IF @ = None THEN None ELSE block]
          /\ link' = [link EXCEPT !.in = (@ + n) % Cardinality(Frames)]
    BY <1>8 DEF out_done
  <2> DEFINE block == [k \in 1 .. n |-> (link.in + k - 1) % Cardinality(Frames)]
  <2>2. link.in \in Nat BY <1>5, Sizes
  <2>3. block \in FromHost
    <3>1. \A k \in 1 .. n : (link.in + k - 1) \in Nat BY <2>2
    <3>2. \A k \in 1 .. n : (link.in + k - 1) % Cardinality(Frames) \in Frames
      BY <3>1, Sizes
    <3>3. block \in [1 .. n -> Frames] BY <3>2
    <3>4. n \in Nat /\ n # 0 OBVIOUS
    <3> HIDE DEF block
    <3>5. block \in Seq(Frames) /\ Len(block) = n BY <3>3, <3>4
    <3> QED BY <3>4, <3>5 DEF FromHost
  <2>4. dev' = Arrived(dev, block)
    <3>1. dev' = [dev EXCEPT !.out = "idle",
                             !.recv_tinyusb = IF dev.recv_tinyusb = None THEN None ELSE block]
      BY <2>1
    <3> HIDE DEF block
    <3> QED BY <1>3, <3>1 DEF Arrived
  <2>5. link'.spoilt = link.spoilt
        /\ link' \in [in : Frames, out : Frames, lwip : Frames \cup {None},
                      host : Frames \cup {None}, spoilt : BOOLEAN, session : BOOLEAN]
    <3>1. link.in + n \in Nat BY <2>2
    <3>2. (link.in + n) % Cardinality(Frames) \in Frames BY <3>1, Sizes
    <3>3. link' = [link EXCEPT !.in = (link.in + n) % Cardinality(Frames)] BY <2>1
    <3> QED BY <1>5, <3>2, <3>3
  <2> HIDE DEF block
  <2>6. "out" \in OutEvents /\ Post("out") BY <1>8 DEF out_done, OutEvents
  <2>7. Sound(dev', Range(events) \cup {"out"}, link.spoilt, InHand)
    <3>1. block # <<>> BY <2>3 DEF FromHost
    <3>2. Sound(Arrived(dev, block), Range(events) \cup {"out"},
                link.spoilt \/ "out" = "bad", InHand)
      BY ZenonT(60), <1>1, <1>2, <2>3, <2>6, <3>1, Types, SoundArrived
    <3>3. (link.spoilt \/ "out" = "bad") = link.spoilt BY Types
    <3> QED BY <2>4, <3>2, <3>3
  <2>8. dev'.mounted = dev.mounted /\ dev'.suspended = dev.suspended
    BY <2>4, Types DEF Arrived, Device
  <2> QED BY <1>1, <1>4, <1>5, <1>6, <2>5, <2>6, <2>7, <2>8, PostStep
<1>9. CASE out_bad
  <2>1. /\ dev' = [dev EXCEPT !.out = "idle"] /\ Post("bad")
        /\ link' = [link EXCEPT !.spoilt = TRUE]
    BY <1>9 DEF out_bad
  <2>2. dev' = Arrived(dev, dev.recv_tinyusb) BY <2>1, Types DEF Arrived, Device
  <2>3. dev.recv_tinyusb \in FromHost \cup {<<>>} BY <1>3, <1>7
  <2>4. link'.spoilt = TRUE
        /\ link' \in [in : Frames, out : Frames, lwip : Frames \cup {None},
                      host : Frames \cup {None}, spoilt : BOOLEAN, session : BOOLEAN]
    BY <1>5, <2>1
  <2>5. "bad" \in OutEvents BY DEF OutEvents
  <2>6. Sound(dev', Range(events) \cup {"bad"}, TRUE, InHand)
    <3> DEFINE block == dev.recv_tinyusb
    <3>1. PICK e \in OutEvents : e = "bad" BY <2>5
    <3>2. e = "out" => block # <<>> BY <3>1
    <3>3. block \in FromHost \cup {<<>>} BY <2>3
    <3>4. dev' = Arrived(dev, block) BY <2>2
    <3> HIDE DEF block
    <3>5. Sound(Arrived(dev, block), Range(events) \cup {e}, link.spoilt \/ e = "bad", InHand)
      BY ZenonT(60), <1>1, <1>2, <3>2, <3>3, Types, SoundArrived
    <3>6. (link.spoilt \/ e = "bad") = TRUE BY <3>1
    <3> QED BY <3>1, <3>4, <3>5, <3>6
  <2>7. dev'.mounted = dev.mounted /\ dev'.suspended = dev.suspended
    BY <2>1, Types DEF Device
  <2> QED BY <1>1, <1>4, <1>5, <1>6, <2>1, <2>4, <2>5, <2>6, <2>7, PostStep
<1> QED BY <1>8, <1>9

LEMMA TakenStep == IInv /\ in_done => IInv'
<1> SUFFICES ASSUME IInv, in_done PROVE IInv' OBVIOUS
<1>1. /\ host.stage = "up" /\ dev.in = "armed" /\ UNCHANGED mainVars /\ host' = host
      /\ dev' = TakenOff(dev)
      /\ link' = IF dev.xmit_tinyusb = None \/ Taken THEN link
                 ELSE [link EXCEPT !.host = Last(dev.xmit_tinyusb)]
  BY DEF in_done, TakenOff
<1>2. PICK e \in InEvents : Post(e) /\ (e = "in_full" => dev.xmit_tinyusb # None)
  <2>1. Post("in") \/ (dev.xmit_tinyusb # None /\ Post("in_full")) BY DEF in_done
  <2> QED BY <2>1 DEF InEvents
<1>3. /\ dev.mounted /\ "reset" \notin Range(events) /\ "config" \notin Range(events)
  BY <1>1, UpIsConfigured
<1>4. Sound(dev', Range(events) \cup {e}, link.spoilt, InHand) /\ Range(events) \cap InEvents = {}
  BY <1>1, <1>2, <1>3, Types, SoundTaken
<1>5. \A a \in Range(events) : Follows(a, e)
  BY <1>2, <1>3, <1>4 DEF Follows, OutEvents, InEvents
<1>6. /\ link \in [in : Frames, out : Frames, lwip : Frames \cup {None},
                   host : Frames \cup {None}, spoilt : BOOLEAN, session : BOOLEAN]
      /\ host \in [stage : {"default", "addressed", "configured", "up"}, asleep : BOOLEAN]
  BY DEF IInv, TypeOK
<1>7. link'.spoilt = link.spoilt
      /\ link' \in [in : Frames, out : Frames, lwip : Frames \cup {None},
                    host : Frames \cup {None}, spoilt : BOOLEAN, session : BOOLEAN]
  <2>1. CASE link' = link BY <1>6, <2>1
  <2>2. CASE dev.xmit_tinyusb # None /\ link' = [link EXCEPT !.host = Last(dev.xmit_tinyusb)]
    <3>1. dev.xmit_tinyusb \in ToHost BY <2>2, Types, DeviceTypes
    <3>2. dev.xmit_tinyusb \in Seq(Frames) /\ Len(dev.xmit_tinyusb) \in 1 .. Datagrams
      BY <3>1 DEF ToHost
    <3>3. Last(dev.xmit_tinyusb) \in Frames
      <4> DEFINE b == dev.xmit_tinyusb
      <4>1. b \in Seq(Frames) /\ Len(b) \in 1 .. Datagrams BY <3>2
      <4>2. Last(b) = b[Len(b)] BY DEF Last
      <4> HIDE DEF b
      <4>3. b[Len(b)] \in Frames BY <4>1, Sizes
      <4> QED BY <4>2, <4>3 DEF b
    <3> QED BY <1>6, <2>2, <3>3
  <2> QED BY <1>1, <2>1, <2>2
<1>8. dev'.mounted = dev.mounted /\ dev'.suspended = dev.suspended
  BY <1>1, Types DEF TakenOff, Device
<1>9. /\ e \in Events /\ e \notin {"reset", "suspend", "resume"} /\ e \notin Requests
  BY <1>2 DEF InEvents, Events, Requests
<1> QED BY <1>1, <1>2, <1>4, <1>5, <1>6, <1>7, <1>8, <1>9, PostStep

LEMMA SleepStep == IInv /\ (bus_suspend \/ bus_resume) => IInv'
<1> SUFFICES ASSUME IInv, bus_suspend \/ bus_resume PROVE IInv' OBVIOUS
<1>1. /\ UNCHANGED mainVars /\ link' = link /\ host'.stage = host.stage
      /\ host' \in [stage : {"default", "addressed", "configured", "up"}, asleep : BOOLEAN]
  <2>1. host \in [stage : {"default", "addressed", "configured", "up"}, asleep : BOOLEAN]
    BY DEF IInv, TypeOK
  <2>2. host' = [host EXCEPT !.asleep = TRUE] \/ host' = [host EXCEPT !.asleep = FALSE]
    BY DEF bus_suspend, bus_resume
  <2> QED BY <2>1, <2>2 DEF bus_suspend, bus_resume
<1>2. link' \in [in : Frames, out : Frames, lwip : Frames \cup {None},
                 host : Frames \cup {None}, spoilt : BOOLEAN, session : BOOLEAN]
  BY <1>1 DEF IInv, TypeOK
<1>3. CASE dev' = dev /\ events' = events
  <2>1. InHand' = InHand BY <1>1 DEF InHand, mainVars
  <2>2. TypeOK' BY <1>1, <1>2, <1>3 DEF IInv, TypeOK, mainVars
  <2> QED BY <1>1, <1>3, <2>1, <2>2 DEF IInv, mainVars
\* Only the sleep of the device changes.
<1>4. ASSUME NEW e \in {"suspend", "resume"}, NEW b \in BOOLEAN, Post(e),
             dev' = [dev EXCEPT !.suspended = b], b \/ e = "resume"
      PROVE  IInv'
  <2>1. /\ dev' \in Device /\ SameIn(dev, dev') /\ SameOut(dev, dev')
        /\ dev'.mounted = dev.mounted /\ dev'.connected = dev.connected
        /\ dev'.suspended = b
    BY <1>4, Types DEF Device, SameIn, SameOut
  <2>2. Sound(dev', Range(events) \cup {e}, link.spoilt, InHand)
    <3>1. Range(events) \cup {e} \subseteq Range(events) \cup {"suspend", "resume"}
      OBVIOUS
    <3>2. Range(events) \cap {"out", "bad", "reset"} \subseteq Range(events) \cup {e}
      OBVIOUS
    <3>3. dev'.mounted /\ ~dev'.link /\ ~dev'.suspended => "resume" \in Range(events) \cup {e}
      BY <1>4, <2>1
    <3> QED BY <2>1, <3>1, <3>2, <3>3, Types, SoundBus
  <2>3. \A a \in Range(events) : Follows(a, e)
    BY DEF Follows, OutEvents, InEvents
  <2>4. e \in Events /\ e # "reset" /\ e \notin Requests BY DEF Events, Requests
  <2>5. dev'.suspended \/ e = "resume" BY <1>4, <2>1
  <2> QED BY <1>1, <1>2, <1>4, <2>1, <2>2, <2>3, <2>4, <2>5, PostStep
<1>5. CASE bus_suspend
  BY <1>3, <1>4, <1>5 DEF bus_suspend
<1>6. CASE bus_resume
  BY <1>3, <1>4, <1>6 DEF bus_resume
<1> QED BY <1>5, <1>6

LEMMA RequestStep == IInv /\ request => IInv'
<1> SUFFICES ASSUME IInv, request PROVE IInv' OBVIOUS
<1>1. /\ dev' = dev /\ UNCHANGED mainVars /\ host' = host /\ link' = link
  BY DEF request
<1>2. PICK r \in Requests : (Enumerates(r) \/ Disturbs(r)) /\ Post(r) BY DEF request
<1>3. Suits(r, host.stage) BY <1>2 DEF Enumerates, Disturbs, Suits
<1>4. \A a \in Range(events) : Follows(a, r)
  <2>1. r \notin OutEvents \cup InEvents BY <1>2 DEF Requests, OutEvents, InEvents
  <2>2. "reset" \in Range(events) => r = "address"
    <3>1. "reset" \in Range(events) => host.stage = "default" BY Types DEF Told
    <3> QED BY <1>3, <3>1 DEF Suits
  <2> QED BY <2>1, <2>2 DEF Follows
<1>5. r \in Events /\ r \notin {"reset", "suspend", "resume", "out", "bad", "in", "in_full"}
  BY <1>2 DEF Events, Requests
<1>6. Sound(dev', Range(events) \cup {r}, link.spoilt, InHand)
  <2>1. Configured(dev, Range(events) \cup {r}, link.spoilt)
    <3>1. dev.mounted => Received(dev, Range(events) \cup {r}, link.spoilt)
      BY <1>5, Types DEF Sound, Configured, Received, OutEvents
    <3>2. dev.mounted => Sent(dev, Range(events) \cup {r})
      BY <1>5, Types DEF Sound, Configured, Sent, InEvents
    <3> QED BY <3>1, <3>2, Types DEF Sound, Configured
  <2>2. GoesOn(dev, Range(events) \cup {r}, link.spoilt, InHand)
    BY Types DEF Sound, GoesOn
  <2> QED BY <1>1, <2>1, <2>2, Types DEF Sound
<1>7. /\ host' \in [stage : {"default", "addressed", "configured", "up"}, asleep : BOOLEAN]
      /\ link' \in [in : Frames, out : Frames, lwip : Frames \cup {None},
                    host : Frames \cup {None}, spoilt : BOOLEAN, session : BOOLEAN]
  BY <1>1 DEF IInv, TypeOK
<1> QED BY <1>1, <1>2, <1>3, <1>4, <1>5, <1>6, <1>7, PostStep

\* The driver, the controller and what is queued between them always agree.
THEOREM Inductive == Spec => []IInv
<1>1. IInv /\ [Next]_vars => IInv'
  <2> SUFFICES ASSUME IInv, [Next]_vars PROVE IInv' OBVIOUS
  <2>1. CASE Next
    BY <2>1, EventStep, IdleSteps, TakeStep, RenewStep, FlushStep, SubmitStep, WaitStep,
       ResetStep, ArrivedStep, TakenStep, SleepStep, RequestStep
       DEF Next, Main, Interrupt
  <2>2. CASE UNCHANGED vars
    <3>1. InHand' = InHand BY <2>2 DEF vars, InHand
    <3>2. TypeOK' BY <2>2 DEF vars, IInv, TypeOK
    <3> QED BY <2>2, <3>1, <3>2 DEF vars, IInv
  <2> QED BY <2>1, <2>2
<1> QED BY InitHolds, <1>1, PTL DEF Spec

\* Every word of the driver keeps its type and every block is in one place: free,
\* ready, with the controller or with the glue (recv_*, xmit_* of ncm_device.c).
THEOREM ConsistentInterface == Spec => []Consistent
<1>1. IInv => Consistent
  BY Types DEF IInv, Sound, Kept, Consistent, BlocksAreKept, RecvBlocksAreKept
<1> QED BY Inductive, <1>1, PTL

\* The next event is a queued one.
LEMMA HeadIsQueued == \A q \in Seq(Events) : q # <<>> => Head(q) \in Range(q)
<1> SUFFICES ASSUME NEW q \in Seq(Events), q # <<>> PROVE Head(q) \in Range(q)
  OBVIOUS
<1> QED BY Popped

\* netd_xfer_cb never gets a completion without the block it is about, however
\* many resets and requests were handled between the transfer and its event.
THEOREM CompletionsHaveBlocks == Spec => []CompletionHasBlock
<1>1. IInv => CompletionHasBlock
  <2> SUFFICES ASSUME IInv, events # <<>>, dev.mounted
               PROVE  /\ Head(events) \in {"out", "bad"} => dev.recv_tinyusb # None
                      /\ Head(events) = "in_full" => dev.xmit_tinyusb # None
    BY DEF CompletionHasBlock
  <2>1. Received(dev, Range(events), link.spoilt) /\ Sent(dev, Range(events))
    BY Types DEF Sound, Configured
  <2>2. Head(events) \in Range(events) BY Types, HeadIsQueued
  <2> QED BY <2>1, <2>2 DEF Received, Sent, OutEvents
<1> QED BY Inductive, <1>1, PTL

\* In a session the host does not spoil, a posted reception is served, and while
\* none is posted lwIP has a frame to take, after which it renews: reception
\* never stands still by itself.
THEOREM Reception == Spec => []ReceptionGoesOn
<1>1. IInv => ReceptionGoesOn
  BY Types DEF Sound, GoesOn, ReceptionGoesOn, RenewalIsOwed, ReceptionIsServed
<1> QED BY Inductive, <1>1, PTL

\* When all events are handled, a mounted and awake interface has its link up
\* (no call of tud_mount_cb or tud_resume_cb is lost).
THEOREM LinkIsUp == Spec => []LinkFollowsBus
<1>1. IInv => LinkFollowsBus
  <2> SUFFICES ASSUME IInv, events = <<>>, dev.mounted, ~dev.suspended PROVE dev.link
    BY DEF LinkFollowsBus
  <2>1. Range(events) = {} BY DEF Range
  <2>2. "resume" \in Range(events) \/ dev.link BY Types DEF Sound, Configured
  <2> QED BY <2>1, <2>2
<1> QED BY Inductive, <1>1, PTL
-----------------------------------------------------------------------------
(* The contents of the blocks: two queues of frames.                         *)

\* Frames one behind the other.
LEMMA Joined ==
  /\ <<>> \in Seq(Frames)
  /\ \A a, b \in Seq(Frames) : a \o b \in Seq(Frames)
  /\ \A a \in Seq(Frames) : a \o <<>> = a /\ <<>> \o a = a
<1>1. <<>> \in Seq(Frames) OBVIOUS
<1>2. \A a, b \in Seq(Frames) : a \o b \in Seq(Frames) BY ConcatProperties
<1>3. \A a \in Seq(Frames) : a \o <<>> = a /\ <<>> \o a = a BY ConcatEmptySeq
<1> QED BY <1>1, <1>2, <1>3

LEMMA Regrouped ==
  ASSUME NEW a \in Seq(Frames), NEW b \in Seq(Frames), NEW c \in Seq(Frames)
  PROVE  (a \o b) \o c = a \o (b \o c)
BY ConcatAssociative

\* A block is its first frame, then the others.
LEMMA HeadFirst ==
  ASSUME NEW a \in Seq(Frames), a # <<>>
  PROVE  /\ Head(a) \in Frames /\ Tail(a) \in Seq(Frames)
         /\ <<Head(a)>> \o Tail(a) = a
<1>1. /\ Head(a) \in Frames /\ Tail(a) \in Seq(Frames)
      /\ Len(Tail(a)) = Len(a) - 1 /\ Head(a) = a[1]
      /\ \A i \in 1 .. Len(Tail(a)) : Tail(a)[i] = a[i + 1]
      /\ Len(a) \in Nat
  BY HeadTailProperties, LenProperties
<1> DEFINE h == <<Head(a)>>
           t == Tail(a)
<1>2. h \in Seq(Frames) /\ Len(h) = 1 /\ h[1] = a[1] BY <1>1
<1>3. t \in Seq(Frames) /\ Len(t) = Len(a) - 1 /\ \A i \in 1 .. Len(t) : t[i] = a[i + 1]
  BY <1>1
<1> HIDE DEF h, t
<1>4. /\ h \o t \in Seq(Frames) /\ Len(h \o t) = Len(a)
      /\ \A i \in 1 .. Len(a) : (h \o t)[i] = a[i]
  <2>1. /\ h \o t \in Seq(Frames) /\ Len(h \o t) = Len(h) + Len(t)
        /\ \A i \in 1 .. Len(h) + Len(t) :
             (h \o t)[i] = IF i <= Len(h) THEN h[i] ELSE t[i - Len(h)]
    <3>1. h \in Seq(Frames) /\ t \in Seq(Frames) BY <1>2, <1>3
    <3> QED BY Zenon, <3>1, ConcatProperties
  <2>2. Len(h) + Len(t) = Len(a) BY <1>1, <1>2, <1>3
  <2>3. ASSUME NEW i \in 1 .. Len(a) PROVE (h \o t)[i] = a[i]
    <3>1. CASE i = 1 BY <1>1, <1>2, <2>1, <2>2, <3>1
    <3>2. CASE i # 1
      <4>1. i - 1 \in 1 .. Len(t) /\ ~(i <= 1) /\ (i - 1) + 1 = i BY <1>1, <1>3, <3>2
      <4>2. (h \o t)[i] = t[i - 1] BY <1>2, <2>1, <2>2, <4>1
      <4> QED BY <1>3, <4>1, <4>2
    <3> QED BY <3>1, <3>2
  <2> QED BY <2>1, <2>2, <2>3
<1>5. h \o t = a BY <1>4, SeqEqual
<1> QED BY <1>1, <1>5 DEF h, t

\* Induction over the naturals, for FlattenSeq.
LEMMA SetInduction ==
  ASSUME NEW S, 0 \in S, \A n \in Nat : n \in S => n + 1 \in S
  PROVE  Nat \subseteq S
<1> DEFINE T == Nat \ S
           R == OpToRel(<, Nat)
<1> SUFFICES ASSUME T # {} PROVE FALSE OBVIOUS
<1>1. \A x, y \in Nat : y < x => <<y, x>> \in R BY DEF OpToRel
<1>2. IsWellFoundedOn(R, Nat) BY NatLessThanWellFounded
<1> HIDE DEF R
<1>3. T \subseteq Nat OBVIOUS
<1> HIDE DEF T
<1>4. PICK x \in T : \A y \in T : ~(<<y, x>> \in R) BY <1>2, <1>3, WFMin
<1>5. x \in Nat /\ x # 0 BY <1>3, <1>4 DEF T
<1>6. x - 1 \in Nat /\ x - 1 < x /\ (x - 1) + 1 = x BY <1>5
<1>7. x - 1 \in T BY <1>4, <1>5, <1>6 DEF T
<1> QED BY <1>1, <1>4, <1>5, <1>6, <1>7

Blocks == Seq(Seq(Frames))

\* The first n blocks of q joined, block by block: the function of FlattenSeq.
Joins(g, q, n) ==
  g = [i \in 1 .. n |-> IF i = 1 THEN q[i] ELSE g[i - 1] \o q[i]]

LEMMA JoinsOne ==
  ASSUME NEW q \in Blocks, NEW n \in 1 .. Len(q), NEW g, Joins(g, q, n)
  PROVE  \A i \in 1 .. n : /\ g[i] \in Seq(Frames)
                           /\ g[i] = IF i = 1 THEN q[1] ELSE g[i - 1] \o q[i]
<1>1. \A i \in 1 .. n : g[i] = IF i = 1 THEN q[1] ELSE g[i - 1] \o q[i] BY DEF Joins
<1>2. n \in Nat /\ \A i \in 1 .. n : q[i] \in Seq(Frames) BY LenProperties DEF Blocks
<1> DEFINE X == {k \in Nat : k \in 1 .. n => g[k] \in Seq(Frames)}
<1>3. 0 \in X BY <1>2
<1>4. ASSUME NEW k \in Nat, k \in X, k + 1 \in 1 .. n PROVE g[k + 1] \in Seq(Frames)
  <2>1. CASE k = 0 BY <1>1, <1>2, <1>4, <2>1
  <2>2. CASE k # 0
    <3>1. k \in 1 .. n /\ k + 1 # 1 /\ (k + 1) - 1 = k BY <1>4, <1>2, <2>2
    <3>2. g[k] \in Seq(Frames) BY <1>4, <3>1
    <3>3. g[k + 1] = g[k] \o q[k + 1] BY <1>1, <1>4, <3>1
    <3> QED BY <1>2, <1>4, <3>2, <3>3, Joined
  <2> QED BY <2>1, <2>2
<1>5. \A k \in Nat : k \in X => k + 1 \in X BY <1>4
<1> HIDE DEF X
<1>6. Nat \subseteq X BY <1>3, <1>5, SetInduction
<1>7. \A i \in 1 .. n : i \in Nat BY <1>2
<1> QED BY <1>1, <1>6, <1>7 DEF X

\* There is one such function.
LEMMA JoinsSame ==
  ASSUME NEW q \in Blocks, NEW n \in 1 .. Len(q), NEW g, NEW h,
         Joins(g, q, n), Joins(h, q, n)
  PROVE  \A i \in 1 .. n : g[i] = h[i]
<1>1. \A i \in 1 .. n : /\ g[i] = IF i = 1 THEN q[1] ELSE g[i - 1] \o q[i]
                        /\ h[i] = IF i = 1 THEN q[1] ELSE h[i - 1] \o q[i]
  BY JoinsOne
<1> DEFINE X == {k \in Nat : k \in 1 .. n => g[k] = h[k]}
<1>2. n \in Nat BY LenProperties DEF Blocks
<1>3. 0 \in X BY <1>2
<1>4. ASSUME NEW k \in Nat, k \in X, k + 1 \in 1 .. n PROVE g[k + 1] = h[k + 1]
  <2>1. CASE k = 0 BY <1>1, <1>4, <2>1
  <2>2. CASE k # 0
    <3>1. k \in 1 .. n /\ k + 1 # 1 /\ (k + 1) - 1 = k BY <1>4, <1>2, <2>2
    <3> QED BY <1>1, <1>4, <3>1
  <2> QED BY <2>1, <2>2
<1>5. \A k \in Nat : k \in X => k + 1 \in X BY <1>4
<1> HIDE DEF X
<1>6. Nat \subseteq X BY <1>3, <1>5, SetInduction
<1>7. \A i \in 1 .. n : i \in Nat BY <1>2
<1> QED BY <1>6, <1>7 DEF X

LEMMA JoinsExists ==
  ASSUME NEW q \in Blocks, q # <<>>
  PROVE  \E g : Joins(g, q, Len(q)) /\ FlattenSeq(q) = g[Len(q)]
<1> DEFINE X == {n \in Nat : \E g : Joins(g, q, n)}
           m == Len(q)
<1>1. m \in Nat /\ m # 0 BY LenProperties, EmptySeq DEF Blocks
<1>2. 0 \in X
  <2>1. Joins([i \in 1 .. 0 |-> q[i]], q, 0) BY DEF Joins
  <2> QED BY <2>1
<1>3. ASSUME NEW n \in Nat, n \in X PROVE n + 1 \in X
  <2>1. PICK g : Joins(g, q, n) BY <1>3
  <2> DEFINE y == IF n + 1 = 1 THEN q[n + 1] ELSE g[n] \o q[n + 1]
             h == [i \in 1 .. n + 1 |-> IF i = n + 1 THEN y ELSE g[i]]
  <2>2. ASSUME NEW i \in 1 .. n + 1
        PROVE  h[i] = IF i = 1 THEN q[i] ELSE h[i - 1] \o q[i]
    <3>1. CASE i = n + 1
      <4>1. h[i] = y BY <3>1
      <4>2. CASE n = 0 BY <3>1, <4>1, <4>2
      <4>3. CASE n # 0
        <5>1. i - 1 = n /\ i # 1 /\ n \in 1 .. n + 1 /\ n # n + 1 BY <3>1, <4>3
        <5>2. h[i - 1] = g[n] BY <5>1
        <5> HIDE DEF h
        <5> QED BY <3>1, <4>1, <5>1, <5>2
      <4> QED BY <4>2, <4>3
    <3>2. CASE i # n + 1
      <4>1. i \in 1 .. n /\ h[i] = g[i] BY <3>2
      <4>2. g[i] = IF i = 1 THEN q[i] ELSE g[i - 1] \o q[i] BY <2>1, <4>1 DEF Joins
      <4>3. CASE i = 1 BY <4>1, <4>2, <4>3
      <4>4. CASE i # 1
        <5>1. i - 1 \in 1 .. n + 1 /\ i - 1 # n + 1 BY <4>1, <4>4
        <5>2. h[i - 1] = g[i - 1] BY <5>1
        <5> HIDE DEF h
        <5> QED BY <4>1, <4>2, <4>4, <5>2
      <4> QED BY <4>3, <4>4
    <3> QED BY <3>1, <3>2
  <2>3. Joins(h, q, n + 1)
    <3>1. h = [i \in 1 .. n + 1 |-> h[i]] OBVIOUS
    <3> HIDE DEF h
    <3> QED BY <2>2, <3>1 DEF Joins
  <2> QED BY <2>3
<1>4. m \in X
  <2> HIDE DEF X, m
  <2> QED BY <1>1, <1>2, <1>3, SetInduction
<1> DEFINE f == CHOOSE g : Joins(g, q, m)
<1>5. FlattenSeq(q) = f[m] BY <1>1 DEF FlattenSeq, Joins
<1>6. Joins(f, q, m) BY <1>4
<1> HIDE DEF f
<1> QED BY <1>5, <1>6

\* What FlattenSeq does with the last and with the first block.
LEMMA FlattenEmpty == FlattenSeq(<<>>) = <<>>
BY DEF FlattenSeq

LEMMA FlattenType == \A q \in Blocks : FlattenSeq(q) \in Seq(Frames)
<1> SUFFICES ASSUME NEW q \in Blocks PROVE FlattenSeq(q) \in Seq(Frames) OBVIOUS
<1>1. CASE q = <<>> BY <1>1, FlattenEmpty, Joined
<1>2. CASE q # <<>>
  <2>1. PICK g : Joins(g, q, Len(q)) /\ FlattenSeq(q) = g[Len(q)] BY <1>2, JoinsExists
  <2>2. Len(q) \in 1 .. Len(q) BY <1>2, LenProperties, EmptySeq DEF Blocks
  <2> QED BY <2>1, <2>2, JoinsOne
<1> QED BY <1>1, <1>2

LEMMA FlattenAppend ==
  ASSUME NEW q \in Blocks, NEW b \in Seq(Frames)
  PROVE  FlattenSeq(Append(q, b)) = FlattenSeq(q) \o b
<1> DEFINE p == Append(q, b)
           n == Len(q)
<1>1. /\ p \in Blocks /\ Len(p) = n + 1 /\ p[n + 1] = b /\ n \in Nat
      /\ \A i \in 1 .. n : p[i] = q[i]
  BY AppendProperties, LenProperties DEF Blocks
<1>2. q = <<>> <=> n = 0 BY EmptySeq DEF Blocks
<1> HIDE DEF p
<1>3. p # <<>> BY <1>1, EmptySeq DEF Blocks
<1>4. PICK h : Joins(h, p, n + 1) /\ FlattenSeq(p) = h[n + 1] BY <1>1, <1>3, JoinsExists
<1>5. n + 1 \in 1 .. Len(p) BY <1>1
<1>6. \A i \in 1 .. n + 1 : h[i] = IF i = 1 THEN p[1] ELSE h[i - 1] \o p[i]
  BY <1>1, <1>4, <1>5, JoinsOne
<1>7. CASE n = 0 BY <1>1, <1>2, <1>4, <1>6, <1>7, FlattenEmpty, Joined DEF p
<1>8. CASE n # 0
  <2>1. PICK g : Joins(g, q, n) /\ FlattenSeq(q) = g[n] BY <1>2, <1>8, JoinsExists
  <2>2. n \in 1 .. Len(q) BY <1>1, <1>8
  <2> DEFINE k == [i \in 1 .. n |-> h[i]]
  <2>3. Joins(k, q, n)
    <3>1. ASSUME NEW i \in 1 .. n PROVE k[i] = IF i = 1 THEN q[i] ELSE k[i - 1] \o q[i]
      <4>1. i \in 1 .. n + 1 /\ p[i] = q[i] /\ k[i] = h[i] BY <1>1
      <4>2. i # 1 => i - 1 \in 1 .. n /\ k[i - 1] = h[i - 1] BY <1>1
      <4> HIDE DEF k
      <4> QED BY <1>6, <4>1, <4>2
    <3>2. k = [i \in 1 .. n |-> k[i]] OBVIOUS
    <3> HIDE DEF k
    <3> QED BY <3>1, <3>2 DEF Joins
  <2>4. k[n] = h[n] BY <2>2
  <2> HIDE DEF k
  <2>5. h[n] = g[n] BY <2>1, <2>2, <2>3, <2>4, JoinsSame
  <2>6. h[n + 1] = h[n] \o p[n + 1]
    <3>1. n + 1 \in 1 .. n + 1 /\ n + 1 # 1 /\ (n + 1) - 1 = n BY <1>1, <1>8
    <3> QED BY <1>6, <3>1
  <2> QED BY <1>1, <1>4, <2>1, <2>5, <2>6 DEF p
<1> QED BY <1>7, <1>8

LEMMA FlattenHead ==
  ASSUME NEW q \in Blocks, q # <<>>
  PROVE  FlattenSeq(q) = Head(q) \o FlattenSeq(Tail(q))
<1> DEFINE p == Tail(q)
           n == Len(p)
<1>1. /\ Head(q) = q[1] /\ q[1] \in Seq(Frames) /\ p \in Blocks /\ Len(q) = n + 1
      /\ n \in Nat /\ \A i \in 1 .. n : p[i] = q[i + 1]
  BY HeadTailProperties, LenProperties, EmptySeq DEF Blocks
<1>2. p = <<>> <=> n = 0 BY <1>1, EmptySeq DEF Blocks
<1> HIDE DEF p
<1>3. PICK g : Joins(g, q, n + 1) /\ FlattenSeq(q) = g[n + 1] BY <1>1, JoinsExists
<1>4. n + 1 \in 1 .. Len(q) BY <1>1
<1>5. \A i \in 1 .. n + 1 : g[i] = IF i = 1 THEN q[1] ELSE g[i - 1] \o q[i]
  BY <1>1, <1>3, <1>4, JoinsOne
<1>6. CASE n = 0
  <2>1. 1 \in 1 .. n + 1 /\ n + 1 = 1 BY <1>6
  <2>2. FlattenSeq(q) = q[1] BY <1>3, <1>5, <2>1
  <2>3. FlattenSeq(p) = <<>> BY <1>2, <1>6, FlattenEmpty
  <2>4. q[1] \o <<>> = q[1] BY <1>1, Joined
  <2> QED BY <1>1, <2>2, <2>3, <2>4 DEF p
<1>7. CASE n # 0
  <2>1. PICK h : Joins(h, p, n) /\ FlattenSeq(p) = h[n] BY <1>1, <1>2, <1>7, JoinsExists
  <2>2. n \in 1 .. Len(p) BY <1>1, <1>7
  <2>3. \A i \in 1 .. n : /\ h[i] \in Seq(Frames)
                          /\ h[i] = IF i = 1 THEN p[1] ELSE h[i - 1] \o p[i]
    BY <1>1, <2>1, <2>2, JoinsOne
  <2> DEFINE X == {k \in Nat : k \in 1 .. n => g[k + 1] = q[1] \o h[k]}
  <2>4. 0 \in X BY <1>1
  <2>5. ASSUME NEW k \in Nat, k \in X, k + 1 \in 1 .. n
        PROVE  g[(k + 1) + 1] = q[1] \o h[k + 1]
    <3>1. /\ (k + 1) + 1 \in 1 .. n + 1 /\ (k + 1) + 1 # 1 /\ ((k + 1) + 1) - 1 = k + 1
          /\ p[k + 1] = q[(k + 1) + 1] /\ k + 1 \in 1 .. n + 1
      BY <1>1, <2>5
    <3>2. g[(k + 1) + 1] = g[k + 1] \o p[k + 1] BY <1>5, <3>1
    <3>3. CASE k = 0
      <4>1. g[k + 1] = q[1] /\ h[k + 1] = p[k + 1] BY <1>5, <2>3, <2>5, <3>1, <3>3
      <4> QED BY <3>2, <4>1
    <3>4. CASE k # 0
      <4>1. k \in 1 .. n /\ k + 1 # 1 /\ (k + 1) - 1 = k BY <1>1, <2>5, <3>4
      <4>2. g[k + 1] = q[1] \o h[k] BY <2>5, <4>1
      <4>3. h[k + 1] = h[k] \o p[k + 1] /\ h[k] \in Seq(Frames) BY <2>3, <2>5, <4>1
      <4>4. p[k + 1] \in Seq(Frames) BY <1>1, <2>5, ElementOfSeq DEF Blocks
      <4>5. (q[1] \o h[k]) \o p[k + 1] = q[1] \o (h[k] \o p[k + 1])
        BY <1>1, <4>3, <4>4, Regrouped
      <4> QED BY <3>2, <4>2, <4>3, <4>5
    <3> QED BY <3>3, <3>4
  <2>6. ASSUME NEW k \in Nat, k \in X PROVE k + 1 \in X
    <3>1. k + 1 \in Nat OBVIOUS
    <3>2. k + 1 \in 1 .. n => g[(k + 1) + 1] = q[1] \o h[k + 1] BY <2>5, <2>6
    <3> DEFINE j == k + 1
    <3>3. j \in Nat /\ (j \in 1 .. n => g[j + 1] = q[1] \o h[j]) BY <3>1, <3>2
    <3> HIDE DEF j
    <3>4. j \in X BY <3>3
    <3> QED BY <3>4 DEF j
  <2> HIDE DEF X
  <2>7. n \in X BY <1>1, <2>4, <2>6, SetInduction
  <2>8. g[n + 1] = q[1] \o h[n] BY <2>2, <2>7 DEF X
  <2> QED BY <1>1, <1>3, <2>1, <2>8 DEF p
<1> QED BY <1>6, <1>7

\* What waits on its way to lwIP, and on its way to the host: a block the host
\* has taken waits no more, although tud_task is still to hear of it.
Incoming(s) ==
  (IF s.received_frame = None THEN <<>> ELSE <<s.received_frame>>)
    \o s.recv_glue \o FlattenSeq(s.recv_ready) \o Some(s.recv_tinyusb)
Gathered(s) == FlattenSeq(s.xmit_ready) \o Some(s.xmit_glue)
Outgoing(s, R) ==
  (IF R \cap InEvents # {} THEN <<>> ELSE Some(s.xmit_tinyusb))
    \o FlattenSeq(s.xmit_ready) \o Some(s.xmit_glue)

\* A block that is not yet received is empty, and so is one that is not valid; a
\* device without a configuration transmits nothing.
Posted(s, R) ==
  /\ s.out = "armed" \/ "bad" \in R => s.recv_tinyusb \in {<<>>, None}
  /\ ~s.mounted => s.xmit_tinyusb = None

SameFrames(s, v) ==
  /\ v.received_frame = s.received_frame /\ v.recv_glue = s.recv_glue
  /\ v.recv_ready = s.recv_ready /\ v.recv_tinyusb = s.recv_tinyusb
  /\ v.xmit_tinyusb = s.xmit_tinyusb /\ v.xmit_ready = s.xmit_ready
  /\ v.xmit_glue = s.xmit_glue

LEMMA BlocksOfFrames ==
  /\ Seq(FromHost) \subseteq Blocks /\ Seq(ToHost) \subseteq Blocks
  /\ \A b \in FromHost \cup ToHost \cup {<<>>} : b \in Seq(Frames) /\ Some(b) = b
  /\ Some(None) = <<>>
<1>1. FromHost \subseteq Seq(Frames) /\ ToHost \subseteq Seq(Frames)
  BY DEF FromHost, ToHost
<1>2. \A S, T : S \subseteq T => Seq(S) \subseteq Seq(T) BY SeqMonotonic
<1>3. Seq(FromHost) \subseteq Blocks /\ Seq(ToHost) \subseteq Blocks
  BY <1>1, <1>2 DEF Blocks
<1>4. \A b \in FromHost \cup ToHost \cup {<<>>} : b \in Seq(Frames) /\ Some(b) = b
  <2>1. \A b \in FromHost \cup ToHost \cup {<<>>} : b # None BY Sizes
  <2> QED BY <1>1, <2>1, Joined DEF Some
<1> QED BY <1>3, <1>4 DEF Some

\* The parts of the two queues.
LEMMA PartsOf ==
  ASSUME NEW s \in Device
  PROVE  /\ (IF s.received_frame = None THEN <<>> ELSE <<s.received_frame>>) \in Seq(Frames)
         /\ s.recv_glue \in Seq(Frames) /\ s.recv_ready \in Blocks
         /\ FlattenSeq(s.recv_ready) \in Seq(Frames)
         /\ Some(s.recv_tinyusb) \in Seq(Frames)
         /\ s.xmit_ready \in Blocks /\ FlattenSeq(s.xmit_ready) \in Seq(Frames)
         /\ Some(s.xmit_tinyusb) \in Seq(Frames) /\ Some(s.xmit_glue) \in Seq(Frames)
         /\ Gathered(s) \in Seq(Frames)
<1>1. /\ s.recv_ready \in Seq(FromHost) /\ s.recv_glue \in FromHost \cup {<<>>}
      /\ s.recv_tinyusb \in FromHost \cup {<<>>, None}
      /\ s.xmit_ready \in Seq(ToHost) /\ s.xmit_tinyusb \in ToHost \cup {None}
      /\ s.xmit_glue \in ToHost \cup {None} /\ s.received_frame \in Frames \cup {None}
  BY DeviceTypes
<1>2. (IF s.received_frame = None THEN <<>> ELSE <<s.received_frame>>) \in Seq(Frames)
  <2>1. \A f \in Frames : <<f>> \in Seq(Frames) OBVIOUS
  <2> QED BY <1>1, <2>1, Joined
<1>3. s.recv_ready \in Blocks /\ s.xmit_ready \in Blocks BY <1>1, BlocksOfFrames
<1>4. Some(s.recv_tinyusb) \in Seq(Frames) /\ s.recv_glue \in Seq(Frames)
  BY <1>1, BlocksOfFrames, Joined
<1>5. Some(s.xmit_tinyusb) \in Seq(Frames) /\ Some(s.xmit_glue) \in Seq(Frames)
  BY <1>1, BlocksOfFrames, Joined
<1>6. FlattenSeq(s.recv_ready) \in Seq(Frames) /\ FlattenSeq(s.xmit_ready) \in Seq(Frames)
  BY <1>3, FlattenType
<1> QED BY <1>2, <1>3, <1>4, <1>5, <1>6, Joined DEF Gathered

LEMMA OutgoingParts ==
  ASSUME NEW s \in Device, NEW R
  PROVE  Outgoing(s, R) = IF R \cap InEvents # {} THEN Gathered(s)
                          ELSE Some(s.xmit_tinyusb) \o Gathered(s)
<1> DEFINE x == Some(s.xmit_tinyusb)
           f == FlattenSeq(s.xmit_ready)
           g == Some(s.xmit_glue)
<1>1. f \in Seq(Frames) /\ x \in Seq(Frames) /\ g \in Seq(Frames) BY PartsOf
<1>2. Outgoing(s, R) = ((IF R \cap InEvents # {} THEN <<>> ELSE x) \o f) \o g
  BY DEF Outgoing
<1>3. Gathered(s) = f \o g BY DEF Gathered
<1> HIDE DEF x, f, g
<1>4. (x \o f) \o g = x \o (f \o g) BY <1>1, Regrouped
<1>5. <<>> \o f = f
  <2>1. f \in Seq(Frames) BY <1>1
  <2> QED BY <2>1, Joined
<1> QED BY <1>2, <1>3, <1>4, <1>5 DEF x

LEMMA SameFramesKept ==
  ASSUME NEW s, NEW v, SameFrames(s, v)
  PROVE  /\ Incoming(v) = Incoming(s)
         /\ \A R : Outgoing(v, R) = Outgoing(s, R)
BY DEF SameFrames, Incoming, Outgoing

\* No frame gets lost between the controller and the glue, and none overtakes.
LEMMA ReceptionKeeps ==
  ASSUME NEW s \in Device
  PROVE  Incoming(StartReception(s)) = Incoming(s)
<1> DEFINE t == [s EXCEPT !.recv_tinyusb = <<>>, !.recv_free = @ - 1,
                          !.busy_out = TRUE, !.out = "armed"]
<1>1. CASE StartReception(s) = s BY <1>1
<1>2. CASE StartReception(s) # s
  <2>1. StartReception(s) = t /\ s.recv_tinyusb = None BY <1>2 DEF StartReception
  <2>2. /\ t.received_frame = s.received_frame /\ t.recv_glue = s.recv_glue
        /\ t.recv_ready = s.recv_ready /\ t.recv_tinyusb = <<>>
    BY DEF Device
  <2> HIDE DEF t
  <2>3. Some(t.recv_tinyusb) = Some(s.recv_tinyusb) BY <2>1, <2>2, BlocksOfFrames
  <2> QED BY <2>1, <2>2, <2>3 DEF Incoming
<1> QED BY <1>1, <1>2

LEMMA TransferKeeps ==
  ASSUME NEW s \in Device
  PROVE  Incoming(Transfer(s)) = Incoming(s)
<1> DEFINE fetch == s.recv_glue = <<>> /\ s.recv_ready # <<>>
           block == IF fetch THEN Head(s.recv_ready) ELSE s.recv_glue
           ready == IF fetch THEN Tail(s.recv_ready) ELSE s.recv_ready
           r == IF s.received_frame = None THEN <<>> ELSE <<s.received_frame>>
           f == FlattenSeq(ready)
           x == Some(s.recv_tinyusb)
<1>1. /\ r \in Seq(Frames) /\ s.recv_glue \in Seq(Frames) /\ x \in Seq(Frames)
      /\ s.recv_ready \in Blocks /\ FlattenSeq(s.recv_ready) \in Seq(Frames)
  BY PartsOf
<1>2. block \in Seq(Frames) /\ ready \in Blocks
  <2>1. CASE fetch
    <3>1. Head(s.recv_ready) \in Seq(Frames) /\ Tail(s.recv_ready) \in Blocks
      BY <1>1, <2>1, HeadTailProperties DEF Blocks
    <3> QED BY <2>1, <3>1
  <2>2. CASE ~fetch BY <1>1, <2>2
  <2> QED BY <2>1, <2>2
<1>3. f \in Seq(Frames) BY <1>2, FlattenType
<1>4. s.recv_glue \o FlattenSeq(s.recv_ready) = block \o f
  <2>1. CASE fetch
    <3>1. s.recv_glue = <<>> /\ s.recv_ready # <<>> /\ block = Head(s.recv_ready)
          /\ ready = Tail(s.recv_ready)
      BY <2>1
    <3>2. FlattenSeq(s.recv_ready) = Head(s.recv_ready) \o FlattenSeq(Tail(s.recv_ready))
      BY <1>1, <3>1, FlattenHead
    <3> HIDE DEF block, ready, fetch
    <3> QED BY <1>1, <3>1, <3>2, Joined
  <2>2. CASE ~fetch BY <2>2
  <2> QED BY <2>1, <2>2
<1> HIDE DEF f
<1>5. Incoming(s) = r \o (block \o (f \o x))
  <2> DEFINE g == s.recv_glue
             h == FlattenSeq(s.recv_ready)
  <2>1. Incoming(s) = ((r \o g) \o h) \o x BY DEF Incoming
  <2>2. g \in Seq(Frames) /\ h \in Seq(Frames) /\ g \o h = block \o f BY <1>1, <1>4
  <2> HIDE DEF r, g, h, x, block
  <2>3. ((r \o g) \o h) \o x = (r \o (g \o h)) \o x
    <3>1. r \in Seq(Frames) /\ g \in Seq(Frames) /\ h \in Seq(Frames) BY <1>1, <2>2
    <3>2. (r \o g) \o h = r \o (g \o h) BY <3>1, Regrouped
    <3> QED BY <3>2
  <2>4. r \in Seq(Frames) /\ block \in Seq(Frames) /\ f \in Seq(Frames) /\ x \in Seq(Frames)
    BY <1>1, <1>2, <1>3
  <2>5. (r \o (block \o f)) \o x = r \o (block \o (f \o x))
    <3>1. block \in Seq(Frames) /\ f \in Seq(Frames) /\ x \in Seq(Frames) BY <2>4
    <3>2. (block \o f) \o x = block \o (f \o x) BY <3>1, Regrouped
    <3>3. PICK z \in Seq(Frames) : z = block \o f BY <3>1, Joined
    <3>4. r \in Seq(Frames) /\ x \in Seq(Frames) BY <2>4
    <3>5. (r \o z) \o x = r \o (z \o x) BY <3>4, Regrouped
    <3> QED BY <3>2, <3>3, <3>5
  <2>6. g \o h = block \o f BY <2>2
  <2> QED BY <2>1, <2>3, <2>5, <2>6
<1>6. CASE block = <<>> BY <1>6 DEF Transfer
<1>7. CASE block # <<>> /\ s.received_frame # None
  <2> DEFINE t == [s EXCEPT !.recv_glue = block, !.recv_ready = ready]
  <2>1. Transfer(s) = t BY <1>7 DEF Transfer, Accepted
  <2> HIDE DEF fetch, block, ready
  <2>2. /\ t.recv_tinyusb = s.recv_tinyusb /\ t.recv_glue = block /\ t.recv_ready = ready
        /\ t.received_frame = s.received_frame
    BY DEF Device
  <2> HIDE DEF t
  <2>3. Incoming(t) = ((r \o block) \o f) \o x BY <2>2 DEF Incoming, f
  <2> HIDE DEF r, x
  <2>4. r \in Seq(Frames) /\ block \in Seq(Frames) /\ f \in Seq(Frames) /\ x \in Seq(Frames)
    BY <1>1, <1>2, <1>3
  <2>5. ((r \o block) \o f) \o x = r \o (block \o (f \o x))
    <3>1. PICK y \in Seq(Frames) : y = f \o x BY <2>4, Joined
    <3>2. PICK z \in Seq(Frames) : z = r \o block BY <2>4, Joined
    <3>3. (z \o f) \o x = z \o (f \o x)
      <4>1. f \in Seq(Frames) /\ x \in Seq(Frames) BY <2>4
      <4> QED BY <4>1, Regrouped
    <3>4. (r \o block) \o y = r \o (block \o y)
      <4>1. r \in Seq(Frames) /\ block \in Seq(Frames) BY <2>4
      <4> QED BY <4>1, Regrouped
    <3> QED BY <3>1, <3>2, <3>3, <3>4
  <2> QED BY <1>5, <2>1, <2>3, <2>4, <2>5
<1>8. CASE block # <<>> /\ s.received_frame = None
  <2> DEFINE free == IF Len(block) = 1 THEN s.recv_free + 1 ELSE s.recv_free
             t == [s EXCEPT !.recv_glue = Tail(block), !.recv_ready = ready,
                       !.recv_free = free, !.received_frame = Head(block)]
  <2>1. Transfer(s) = t BY <1>8 DEF Transfer, Accepted
  <2>2. r = <<>> BY <1>8
  <2> HIDE DEF fetch, block, ready, free
  <2>3. /\ Head(block) \in Frames /\ Tail(block) \in Seq(Frames)
        /\ <<Head(block)>> \o Tail(block) = block
    BY <1>2, <1>8, HeadFirst
  <2>4. /\ t.recv_tinyusb = s.recv_tinyusb /\ t.recv_glue = Tail(block)
        /\ t.recv_ready = ready /\ t.received_frame = Head(block)
    BY DEF Device
  <2> HIDE DEF t
  <2>5. t.received_frame # None BY <2>3, <2>4, Sizes
  <2>6. Incoming(t) = ((<<Head(block)>> \o Tail(block)) \o f) \o x
    BY <2>4, <2>5 DEF Incoming, f
  <2>7. Incoming(t) = (block \o f) \o x BY <2>3, <2>6
  <2> HIDE DEF r, x
  <2>8. block \in Seq(Frames) /\ f \in Seq(Frames) /\ x \in Seq(Frames)
    BY <1>1, <1>2, <1>3
  <2>12. (block \o f) \o x = block \o (f \o x) BY <2>8, Regrouped
  <2>9. f \o x \in Seq(Frames) BY <1>1, <1>3, Joined
  <2>10. block \o (f \o x) \in Seq(Frames) BY <1>2, <2>9, Joined
  <2>11. <<>> \o (block \o (f \o x)) = block \o (f \o x) BY <2>10, Joined
  <2> QED BY <1>5, <2>1, <2>2, <2>7, <2>11, <2>12
<1> QED BY <1>6, <1>7, <1>8

\* A renewal keeps the frames, and leaves alone what is not its business.
LEMMA RenewKeeps ==
  ASSUME NEW s \in Device, RecvBlocks(s) <= RecvN
  PROVE  /\ Incoming(Renew(s)) = Incoming(s)
         /\ \A R : Outgoing(Renew(s), R) = Outgoing(s, R)
         /\ \A R : Posted(s, R) => Posted(Renew(s), R)
<1> DEFINE v == Renew(s)
<1>1. Transfer(s) \in Device BY Transferred
<1>2. Incoming(v) = Incoming(s) BY <1>1, TransferKeeps, ReceptionKeeps DEF Renew
<1>3. /\ SameBus(s, v) /\ SameIn(s, v)
      /\ \/ v.recv_tinyusb = s.recv_tinyusb /\ v.out = s.out /\ v.busy_out = s.busy_out
         \/ /\ s.alt = 1 /\ s.recv_tinyusb = None /\ s.out = "idle"
            /\ v.recv_tinyusb = <<>> /\ v.out = "armed"
  BY Renewed
<1> HIDE DEF v
<1>4. \A R : Outgoing(v, R) = Outgoing(s, R) BY <1>3 DEF SameIn, Outgoing
<1>5. \A R : Posted(s, R) => Posted(v, R) BY <1>3 DEF Posted, SameBus, SameIn
<1> QED BY <1>2, <1>4, <1>5 DEF v

\* A block that was received is queued as it came; one that is not valid held
\* no frame.
LEMMA ReceivedKeeps ==
  ASSUME NEW s \in Device, RecvBlocks(s) <= RecvN, NEW valid \in BOOLEAN,
         s.recv_tinyusb # None,
         valid => s.recv_tinyusb # <<>>, ~valid => s.recv_tinyusb = <<>>,
         ~s.busy_out, s.out = "idle"
  PROVE  LET v == BlockReceived(s, valid)
         IN  /\ Incoming(v) = Incoming(s)
             /\ \A R : Outgoing(v, R) = Outgoing(s, R)
             /\ \A R : s.mounted \/ s.xmit_tinyusb = None => Posted(v, R)
<1> DEFINE ready == IF valid THEN Append(s.recv_ready, s.recv_tinyusb) ELSE s.recv_ready
           t == [s EXCEPT !.recv_tinyusb = None, !.recv_ready = ready]
<1>1. BlockReceived(s, valid) = Renew(t) BY DEF BlockReceived
<1>2. /\ s.recv_ready \in Seq(FromHost) /\ s.recv_ready \in Blocks
      /\ s.recv_tinyusb \in FromHost \cup {<<>>} /\ s.recv_tinyusb \in Seq(Frames)
      /\ Some(s.recv_tinyusb) = s.recv_tinyusb
  BY DeviceTypes, PartsOf, BlocksOfFrames
<1>3. ready \in Seq(FromHost)
  <2>1. CASE valid BY <1>2, <2>1, AppendProperties
  <2>2. CASE ~valid BY <1>2, <2>2
  <2> QED BY <2>1, <2>2
<1>4. FlattenSeq(ready) = FlattenSeq(s.recv_ready) \o Some(s.recv_tinyusb)
  <2>1. CASE valid BY <1>2, <2>1, FlattenAppend
  <2>2. CASE ~valid
    <3>1. s.recv_tinyusb = <<>> /\ ready = s.recv_ready BY <2>2
    <3> HIDE DEF ready
    <3> QED BY <1>2, <3>1, FlattenType, Joined
  <2> QED BY <2>1, <2>2
<1> HIDE DEF ready
<1>5. t \in Device BY <1>3 DEF Device
<1>6. /\ SameBus(s, t) /\ SameIn(s, t) /\ t.alt = s.alt /\ t.recv_tinyusb = None
      /\ t.busy_out = s.busy_out /\ t.out = s.out /\ t.recv_ready = ready
      /\ t.recv_free = s.recv_free /\ t.recv_glue = s.recv_glue
      /\ t.received_frame = s.received_frame
  BY DEF Device, SameBus, SameIn
<1> HIDE DEF t
<1>7. Incoming(t) = Incoming(s)
  <2> DEFINE r == IF s.received_frame = None THEN <<>> ELSE <<s.received_frame>>
             g == s.recv_glue
             f == FlattenSeq(s.recv_ready)
             x == Some(s.recv_tinyusb)
  <2>1. r \in Seq(Frames) /\ g \in Seq(Frames) /\ f \in Seq(Frames) /\ x \in Seq(Frames)
    BY PartsOf
  <2>2. Incoming(s) = ((r \o g) \o f) \o x BY DEF Incoming
  <2>3. Incoming(t) = ((r \o g) \o (f \o x)) \o <<>>
    BY <1>4, <1>6, BlocksOfFrames DEF Incoming
  <2> HIDE DEF r, g, f, x
  <2>4. (r \o g) \in Seq(Frames) BY <2>1, Joined
  <2>5. ((r \o g) \o f) \o x = (r \o g) \o (f \o x) BY <2>1, <2>4, Regrouped
  <2>6. (f \o x) \in Seq(Frames) BY <2>1, Joined
  <2>7. (r \o g) \o (f \o x) \in Seq(Frames) BY <2>4, <2>6, Joined
  <2> QED BY <2>2, <2>3, <2>5, <2>7, Joined
<1>8. RecvBlocks(t) <= RecvN
  <2>1. RecvBlocks(t) = IF valid THEN RecvBlocks(s) ELSE RecvBlocks(s) - 1
    <3>1. /\ s.recv_free \in Nat /\ Len(s.recv_ready) \in Nat BY DeviceTypes
    <3>2. Len(ready) = IF valid THEN Len(s.recv_ready) + 1 ELSE Len(s.recv_ready)
      BY <1>2, AppendProperties DEF ready
    <3> QED BY <1>6, <3>1, <3>2 DEF RecvBlocks
  <2>2. RecvBlocks(s) \in Nat BY CountsAreNumbers
  <2> QED BY <2>1, <2>2, Sizes
<1>9. /\ Incoming(Renew(t)) = Incoming(t)
      /\ \A R : Outgoing(Renew(t), R) = Outgoing(t, R)
      /\ \A R : Posted(t, R) => Posted(Renew(t), R)
  BY <1>5, <1>8, RenewKeeps
<1>10. \A R : Outgoing(t, R) = Outgoing(s, R) BY <1>6 DEF SameIn, Outgoing
<1>11. \A R : s.mounted \/ s.xmit_tinyusb = None => Posted(t, R)
  BY <1>6 DEF Posted, SameBus, SameIn
<1> QED BY <1>1, <1>7, <1>9, <1>10, <1>11

\* What is handed to the controller is what was gathered first.
LEMMA TransmissionKeeps ==
  ASSUME NEW s \in Device, s.alt = 1 /\ s.in = "armed" => s.busy_in
  PROVE  LET v == StartTransmission(s)
         IN  /\ v \in Device /\ SameBus(s, v) /\ SameOut(s, v)
             /\ Some(v.xmit_tinyusb) \o Gathered(v) = Some(s.xmit_tinyusb) \o Gathered(s)
             /\ v = s \/ (s.alt = 1 /\ ~s.busy_in)
<1> DEFINE ready == s.xmit_ready # <<>>
           block == IF ready THEN Head(s.xmit_ready) ELSE s.xmit_glue
           rest == IF ready THEN Tail(s.xmit_ready) ELSE <<>>
           glue == IF ready THEN s.xmit_glue ELSE None
           stays == \/ s.xmit_tinyusb # None \/ s.alt # 1 \/ s.busy_in
                    \/ block = None \/ block = <<>>
           t == [s EXCEPT !.xmit_tinyusb = block, !.xmit_ready = rest,
                          !.xmit_glue = glue,
                          !.busy_in = (s.in = "idle"), !.in = "armed"]
           v == StartTransmission(s)
<1>1. v \in Device /\ SameBus(s, v) /\ SameOut(s, v) BY TransmissionStarted
<1>2. CASE stays
  <2>1. v = s BY <1>2 DEF StartTransmission
  <2> QED BY <1>1, <2>1
<1>3. CASE ~stays
  <2>1. v = t BY <1>3 DEF StartTransmission, Device
  <2>2. s.xmit_tinyusb = None /\ s.alt = 1 /\ ~s.busy_in /\ block # None BY <1>3
  <2>3. /\ s.xmit_ready \in Blocks /\ Some(s.xmit_glue) \in Seq(Frames)
        /\ FlattenSeq(s.xmit_ready) \in Seq(Frames) /\ s.xmit_glue \in ToHost \cup {None}
    BY PartsOf, DeviceTypes
  <2>4. block \o (FlattenSeq(rest) \o Some(glue)) = Gathered(s)
    <3>1. CASE ready
      <4>1. /\ block = Head(s.xmit_ready) /\ rest = Tail(s.xmit_ready) /\ glue = s.xmit_glue
            /\ s.xmit_ready # <<>>
        BY <3>1
      <4>2. Head(s.xmit_ready) \in Seq(Frames) /\ Tail(s.xmit_ready) \in Blocks
        BY <2>3, <4>1, HeadTailProperties DEF Blocks
      <4>3. FlattenSeq(s.xmit_ready) = Head(s.xmit_ready) \o FlattenSeq(Tail(s.xmit_ready))
        BY <2>3, <4>1, FlattenHead
      <4>4. FlattenSeq(Tail(s.xmit_ready)) \in Seq(Frames) BY <4>2, FlattenType
      <4> HIDE DEF block, rest, glue, ready
      <4>5. Gathered(s) = FlattenSeq(s.xmit_ready) \o Some(s.xmit_glue) BY DEF Gathered
      <4> DEFINE h == Head(s.xmit_ready)
                 f == FlattenSeq(Tail(s.xmit_ready))
                 g == Some(s.xmit_glue)
      <4>6. h \in Seq(Frames) /\ f \in Seq(Frames) /\ g \in Seq(Frames)
        BY <2>3, <4>2, <4>4
      <4>7. (h \o f) \o g = h \o (f \o g)
        <5> HIDE DEF h, f, g
        <5> QED BY <4>6, Regrouped
      <4> QED BY <4>1, <4>3, <4>5, <4>7
    <3>2. CASE ~ready
      <4>1. /\ block = s.xmit_glue /\ rest = <<>> /\ glue = None /\ s.xmit_ready = <<>>
        BY <3>2
      <4>2. block \in Seq(Frames) /\ Some(block) = block
        BY <2>2, <2>3, <4>1, BlocksOfFrames
      <4> HIDE DEF block, rest, glue, ready
      <4>3. Gathered(s) = <<>> \o block
        BY <4>1, <4>2, FlattenEmpty DEF Gathered
      <4>4. FlattenSeq(rest) \o Some(glue) = <<>> \o <<>>
        BY <4>1, FlattenEmpty, BlocksOfFrames
      <4> QED BY <4>2, <4>3, <4>4, Joined
    <3> QED BY <3>1, <3>2
  <2> HIDE DEF ready, block, rest, glue, stays
  <2>5. t.xmit_tinyusb = block /\ t.xmit_ready = rest /\ t.xmit_glue = glue BY DEF Device
  <2> HIDE DEF t, v
  <2>6. Some(v.xmit_tinyusb) \o Gathered(v) = block \o (FlattenSeq(rest) \o Some(glue))
    BY <2>1, <2>2, <2>5 DEF Gathered, Some
  <2>7. Some(s.xmit_tinyusb) \o Gathered(s) = Gathered(s)
    BY <2>2, PartsOf, BlocksOfFrames, Joined
  <2> QED BY <1>1, <2>2, <2>4, <2>6, <2>7 DEF v
<1> QED BY <1>2, <1>3

\* Whether or not tud_task knows that the block before was taken.
LEMMA TransmissionWaits ==
  ASSUME NEW s \in Device, NEW R, s.alt = 1 => Sent(s, R)
  PROVE  LET v == StartTransmission(s)
         IN  /\ Incoming(v) = Incoming(s) /\ Outgoing(v, R) = Outgoing(s, R)
             /\ (s.alt = 1 => s.mounted) /\ Posted(s, R) => Posted(v, R)
<1> DEFINE v == StartTransmission(s)
<1>1. s.alt = 1 /\ s.in = "armed" => s.busy_in BY DEF Sent
<1>2. /\ v \in Device /\ SameBus(s, v) /\ SameOut(s, v)
      /\ Some(v.xmit_tinyusb) \o Gathered(v) = Some(s.xmit_tinyusb) \o Gathered(s)
      /\ v = s \/ (s.alt = 1 /\ ~s.busy_in)
  BY <1>1, TransmissionKeeps
<1> HIDE DEF v
<1>3. Incoming(v) = Incoming(s) BY <1>2 DEF SameOut, Incoming
<1>4. Outgoing(v, R) = Outgoing(s, R)
  <2>1. CASE v = s BY <2>1
  <2>2. CASE s.alt = 1 /\ ~s.busy_in
    <3>1. R \cap InEvents = {} BY <2>2 DEF Sent
    <3> QED BY <1>2, <3>1, OutgoingParts
  <2> QED BY <1>2, <2>1, <2>2
<1>5. (s.alt = 1 => s.mounted) /\ Posted(s, R) => Posted(v, R)
  BY <1>2 DEF Posted, SameBus, SameOut
<1> QED BY <1>3, <1>4, <1>5 DEF v

\* The block that was sent is gone, and nothing else.
LEMMA SentKeeps ==
  ASSUME NEW s \in Device, XmitBlocks(s) = XmitN, NEW full \in BOOLEAN,
         ~s.busy_in, s.in = "idle"
  PROVE  LET v == BlockSent(s, full)
         IN  /\ v \in Device /\ SameBus(s, v) /\ SameOut(s, v)
             /\ Some(v.xmit_tinyusb) \o Gathered(v) = Gathered(s)
<1> DEFINE free == IF s.xmit_tinyusb = None THEN s.xmit_free ELSE s.xmit_free + 1
           t == [s EXCEPT !.xmit_tinyusb = None, !.xmit_free = free]
           u == [t EXCEPT !.busy_in = (s.in = "idle"), !.in = "armed"]
<1>1. BlockSent(s, full) = IF full /\ s.alt = 1 /\ ~s.busy_in THEN u
                           ELSE StartTransmission(t)
  BY DEF BlockSent, Device
<1>2. free \in 0 .. XmitN BY BlockFreed
<1> HIDE DEF free
<1>3. t \in Device /\ u \in Device BY ZenonT(60), <1>2 DEF Device
<1>4. /\ SameBus(s, t) /\ SameOut(s, t) /\ t.xmit_tinyusb = None
      /\ t.xmit_ready = s.xmit_ready /\ t.xmit_glue = s.xmit_glue
      /\ t.busy_in = s.busy_in /\ t.in = s.in
  BY DEF Device, SameBus, SameOut
<1>5. /\ SameBus(s, u) /\ SameOut(s, u) /\ u.xmit_tinyusb = None
      /\ u.xmit_ready = s.xmit_ready /\ u.xmit_glue = s.xmit_glue
  BY DEF Device, SameBus, SameOut
<1> HIDE DEF t, u
<1>6. Gathered(t) = Gathered(s) /\ Gathered(u) = Gathered(s)
  BY <1>4, <1>5 DEF Gathered
<1>7. Some(None) \o Gathered(s) = Gathered(s) BY PartsOf, BlocksOfFrames, Joined
<1> DEFINE v == StartTransmission(t)
<1>8. t.alt = 1 /\ t.in = "armed" => t.busy_in BY <1>4
<1>9. /\ v \in Device /\ SameBus(t, v) /\ SameOut(t, v)
      /\ Some(v.xmit_tinyusb) \o Gathered(v) = Some(t.xmit_tinyusb) \o Gathered(t)
  BY <1>3, <1>8, TransmissionKeeps
<1> HIDE DEF v
<1>10. SameBus(s, v) /\ SameOut(s, v) BY <1>4, <1>9 DEF SameBus, SameOut
<1> QED BY <1>1, <1>3, <1>4, <1>5, <1>6, <1>7, <1>9, <1>10 DEF v

\* A full block is put behind those that wait.
LEMMA RoomKeeps ==
  ASSUME NEW s \in Device
  PROVE  LET v == Room(s)
         IN  /\ SameBus(s, v) /\ SameOut(s, v) /\ v.xmit_tinyusb = s.xmit_tinyusb
             /\ v.busy_in = s.busy_in /\ v.in = s.in
             /\ v.xmit_ready \in Blocks /\ Some(v.xmit_glue) \in Seq(Frames)
             /\ Gathered(v) = Gathered(s)
<1> DEFINE v == Room(s)
           full == IF s.xmit_glue = None THEN s.xmit_ready
                   ELSE Append(s.xmit_ready, s.xmit_glue)
<1>1. /\ s.xmit_ready \in Blocks /\ s.xmit_ready \in Seq(ToHost)
      /\ s.xmit_glue \in ToHost \cup {None}
      /\ Some(s.xmit_glue) \in Seq(Frames) /\ Gathered(s) \in Seq(Frames)
      /\ FlattenSeq(s.xmit_ready) \in Seq(Frames)
  BY PartsOf, DeviceTypes
<1>2. full \in Blocks /\ FlattenSeq(full) = Gathered(s)
  <2>1. CASE s.xmit_glue = None
    BY <1>1, <2>1, BlocksOfFrames, Joined DEF Gathered
  <2>2. CASE s.xmit_glue # None
    <3>1. s.xmit_glue \in Seq(Frames) /\ Some(s.xmit_glue) = s.xmit_glue
      BY <1>1, <2>2, BlocksOfFrames
    <3>2. full = Append(s.xmit_ready, s.xmit_glue) BY <2>2
    <3> HIDE DEF full
    <3>3. full \in Blocks BY <1>1, <3>1, <3>2, AppendProperties DEF Blocks
    <3>4. FlattenSeq(full) = FlattenSeq(s.xmit_ready) \o s.xmit_glue
      BY <1>1, <3>1, <3>2, FlattenAppend
    <3> QED BY <3>1, <3>3, <3>4 DEF Gathered
  <2> QED BY <2>1, <2>2
<1>3. CASE Fits(s)
  <2>1. v = s BY <1>3 DEF Room
  <2> QED BY <1>1, <2>1 DEF SameBus, SameOut
<1>4. CASE ~Fits(s)
  <2>1. /\ SameBus(s, v) /\ SameOut(s, v) /\ v.xmit_tinyusb = s.xmit_tinyusb
        /\ v.busy_in = s.busy_in /\ v.in = s.in
        /\ v.xmit_ready = full /\ v.xmit_glue \in {<<>>, None}
    <3> HIDE DEF full
    <3>1. CASE s.xmit_free = 0
      <4>1. v = [s EXCEPT !.xmit_ready = full, !.xmit_glue = None]
        BY <1>4, <3>1 DEF Room, SetupNext, full
      <4> QED BY <4>1 DEF Device, SameBus, SameOut
    <3>2. CASE s.xmit_free # 0
      <4>1. v = [s EXCEPT !.xmit_ready = full, !.xmit_glue = <<>>, !.xmit_free = @ - 1]
        BY <1>4, <3>2 DEF Room, SetupNext, full
      <4> QED BY <4>1 DEF Device, SameBus, SameOut
    <3> QED BY <3>1, <3>2
  <2>2. Some(v.xmit_glue) = <<>> BY <2>1, BlocksOfFrames
  <2> HIDE DEF v, full
  <2>3. Gathered(v) = FlattenSeq(full) \o <<>> BY <2>1, <2>2 DEF Gathered
  <2> QED BY <1>1, <1>2, <2>1, <2>2, <2>3, Joined DEF v
<1> QED BY <1>3, <1>4

\* The frame lwIP sends is the last.
LEMMA SubmitKeeps ==
  ASSUME NEW s \in Device, Room(s).xmit_glue # None, NEW n \in Frames
  PROVE  LET w == [Room(s) EXCEPT !.xmit_glue = Append(@, n)]
         IN  /\ Incoming(w) = Incoming(s)
             /\ \A R : Outgoing(w, R) = Append(Outgoing(s, R), n)
             /\ \A R : Posted(s, R) => Posted(w, R)
<1> DEFINE v == Room(s)
           w == [v EXCEPT !.xmit_glue = Append(@, n)]
<1>1. /\ SameBus(s, v) /\ SameOut(s, v) /\ v.xmit_tinyusb = s.xmit_tinyusb
      /\ v.xmit_ready \in Blocks /\ Some(v.xmit_glue) \in Seq(Frames)
      /\ Gathered(v) = Gathered(s)
  BY RoomKeeps
<1>2. Some(v.xmit_glue) = v.xmit_glue BY DEF Some
<1> DEFINE block == Append(v.xmit_glue, n)
<1>3. block = v.xmit_glue \o <<n>> /\ block \in Seq(Frames) /\ <<n>> \in Seq(Frames)
  BY <1>1, <1>2, AppendIsConcat, AppendProperties
<1>4. w \in Device /\ SameBus(s, w) /\ SameOut(s, w) /\ w.xmit_tinyusb = s.xmit_tinyusb
  BY Submitted
<1>5. w.xmit_ready = v.xmit_ready /\ w.xmit_glue = block
  <2>1. PICK free \in 0 .. XmitN, ready \in Seq(ToHost),
             glue \in {b \in Seq(Frames) : Len(b) < Datagrams} \cup {None} :
          /\ v = [s EXCEPT !.xmit_ready = ready, !.xmit_glue = glue, !.xmit_free = free]
          /\ free + Len(ready) + (IF glue = None THEN 0 ELSE 1)
              = s.xmit_free + Len(s.xmit_ready) + (IF s.xmit_glue = None THEN 0 ELSE 1)
    BY RoomMade
  <2> HIDE DEF v
  <2> QED BY <2>1 DEF Device
<1> HIDE DEF v, w
<1>6. Some(w.xmit_glue) = block
  <2>1. block # None BY <1>3, Sizes
  <2> QED BY <1>5, <2>1 DEF Some
<1> DEFINE f == FlattenSeq(v.xmit_ready)
           g == v.xmit_glue
<1>7. f \in Seq(Frames) /\ g \in Seq(Frames) BY <1>1, <1>2, FlattenType
<1>8. Gathered(w) = Gathered(s) \o <<n>>
  <2>1. Gathered(w) = f \o (g \o <<n>>) BY <1>3, <1>5, <1>6 DEF Gathered
  <2>2. Gathered(s) = f \o g BY <1>1, <1>2 DEF Gathered
  <2> HIDE DEF f, g
  <2> QED BY <1>3, <1>7, <2>1, <2>2, Regrouped
<1>9. ASSUME NEW R PROVE Outgoing(w, R) = Append(Outgoing(s, R), n)
  <2> DEFINE o == Outgoing(s, R)
             x == Some(s.xmit_tinyusb)
             z == Gathered(s)
  <2>1. x \in Seq(Frames) /\ z \in Seq(Frames) /\ x \o z \in Seq(Frames)
    BY PartsOf, Joined
  <2>2. o = (IF R \cap InEvents # {} THEN z ELSE x \o z) BY OutgoingParts
  <2>3. Outgoing(w, R) = IF R \cap InEvents # {} THEN z \o <<n>> ELSE x \o (z \o <<n>>)
    BY <1>4, <1>8, OutgoingParts
  <2> HIDE DEF x, z, o
  <2>4. x \o (z \o <<n>>) = (x \o z) \o <<n>> BY <1>3, <2>1, Regrouped
  <2>5. o \in Seq(Frames) /\ Outgoing(w, R) = o \o <<n>> BY <2>1, <2>2, <2>3, <2>4
  <2>6. Append(o, n) = o \o <<n>> BY <2>5, AppendIsConcat
  <2> QED BY <2>5, <2>6 DEF o
<1>10. Incoming(w) = Incoming(s) BY <1>4 DEF SameOut, Incoming
<1>11. \A R : Posted(s, R) => Posted(w, R) BY <1>4 DEF Posted, SameBus, SameOut
<1> QED BY <1>9, <1>10, <1>11 DEF w, v

\* The first frames of a queue and the others.
LEMMA FrontTaken ==
  ASSUME NEW a \in Seq(Frames), NEW b \in Seq(Frames), a # <<>>
  PROVE  /\ a \o b \in Seq(Frames) /\ a \o b # <<>> /\ Len(a) \in 1 .. Len(a \o b)
         /\ (a \o b)[Len(a)] = a[Len(a)]
         /\ SubSeq(a \o b, Len(a) + 1, Len(a \o b)) = b
<1> DEFINE c == a \o b
<1>1. /\ Len(a) \in Nat /\ Len(b) \in Nat /\ Len(a) # 0
      /\ \A i \in 1 .. Len(b) : b[i] \in Frames
  BY EmptySeq, LenProperties
<1>2. /\ c \in Seq(Frames) /\ Len(c) = Len(a) + Len(b)
      /\ \A i \in 1 .. Len(a) + Len(b) : c[i] = IF i <= Len(a) THEN a[i] ELSE b[i - Len(a)]
  BY ConcatProperties
<1> HIDE DEF c
<1>3. c # <<>> /\ Len(a) \in 1 .. Len(c) BY <1>1, <1>2
<1>4. c[Len(a)] = a[Len(a)] BY <1>1, <1>2
<1> DEFINE t == SubSeq(c, Len(a) + 1, Len(c))
<1>5. \A i \in Len(a) + 1 .. Len(c) : c[i] \in Frames
  <2> TAKE i \in Len(a) + 1 .. Len(c)
  <2>1. i \in 1 .. Len(a) + Len(b) /\ ~(i <= Len(a)) /\ i - Len(a) \in 1 .. Len(b)
    BY <1>1, <1>2
  <2> QED BY <1>1, <1>2, <2>1
<1>6. Len(a) + 1 \in Int /\ Len(c) \in Int BY <1>1, <1>2
<1>7. /\ t \in Seq(Frames)
      /\ Len(t) = IF Len(a) + 1 <= Len(c) THEN Len(c) - (Len(a) + 1) + 1 ELSE 0
      /\ \A i \in 1 .. Len(c) - (Len(a) + 1) + 1 : t[i] = c[(Len(a) + 1) + i - 1]
  BY <1>5, <1>6, SubSeqProperties
<1> HIDE DEF t
<1>8. Len(t) = Len(b) /\ \A i \in 1 .. Len(b) : t[i] = b[i]
  <2>1. Len(t) = Len(b) BY <1>1, <1>2, <1>7
  <2>2. ASSUME NEW i \in 1 .. Len(b) PROVE t[i] = b[i]
    <3>1. i \in 1 .. Len(c) - (Len(a) + 1) + 1 /\ (Len(a) + 1) + i - 1 = Len(a) + i
      BY <1>1, <1>2
    <3>2. /\ Len(a) + i \in 1 .. Len(a) + Len(b) /\ ~(Len(a) + i <= Len(a))
          /\ (Len(a) + i) - Len(a) = i
      BY <1>1
    <3> QED BY <1>2, <1>7, <3>1, <3>2
  <2> QED BY <2>1, <2>2
<1>9. t = b BY <1>7, <1>8, SeqEqual
<1> QED BY <1>2, <1>3, <1>4, <1>9 DEF c, t

LEMMA FirstTaken ==
  ASSUME NEW f \in Frames, NEW b \in Seq(Frames)
  PROVE  LET c == <<f>> \o b
         IN  c # <<>> /\ Head(c) = f /\ Tail(c) = b /\ SubSeq(c, 1, 1) = <<f>>
<1> DEFINE a == <<f>>
           c == a \o b
<1>1. a \in Seq(Frames) /\ a # <<>> /\ Len(a) = 1 /\ a[1] = f OBVIOUS
<1> HIDE DEF a
<1>2. /\ c \in Seq(Frames) /\ c # <<>> /\ c[1] = f /\ SubSeq(c, 2, Len(c)) = b
  BY <1>1, FrontTaken
<1> HIDE DEF c
<1>3. Head(c) = f BY <1>2, HeadTailProperties
<1>4. Tail(c) = b BY <1>2, TailIsSubSeq
<1> DEFINE h == SubSeq(c, 1, 1)
<1>5. h = a
  <2>1. \A i \in 1 .. 1 : c[i] \in Frames BY <1>2
  <2>2. /\ h \in Seq(Frames) /\ Len(h) = IF 1 <= 1 THEN 1 - 1 + 1 ELSE 0
        /\ \A i \in 1 .. 1 - 1 + 1 : h[i] = c[1 + i - 1]
    BY <2>1, SubSeqProperties
  <2> HIDE DEF h
  <2>3. Len(h) = 1 /\ h[1] = c[1] BY <2>2
  <2>4. \A i \in 1 .. Len(h) : h[i] = a[i] BY <1>1, <1>2, <2>3
  <2> QED BY <1>1, <2>2, <2>3, <2>4, SeqEqual
<1> QED BY <1>2, <1>3, <1>4, <1>5 DEF a, c

\* The frame that waits for lwIP is the first of those on their way to it.
LEMMA FirstWaits ==
  ASSUME NEW s \in Device, s.received_frame # None
  PROVE  LET rest == Incoming(Emptied(s))
         IN  /\ s.received_frame \in Frames /\ rest \in Seq(Frames)
             /\ Incoming(s) = <<s.received_frame>> \o rest
<1> DEFINE r == <<s.received_frame>>
           g == s.recv_glue
           f == FlattenSeq(s.recv_ready)
           x == Some(s.recv_tinyusb)
           v == Emptied(s)
<1>1. s.received_frame \in Frames BY DeviceTypes
<1>2. r \in Seq(Frames) /\ g \in Seq(Frames) /\ f \in Seq(Frames) /\ x \in Seq(Frames)
  BY <1>1, PartsOf
<1>3. /\ v.received_frame = None /\ v.recv_glue = s.recv_glue
      /\ v.recv_ready = s.recv_ready /\ v.recv_tinyusb = s.recv_tinyusb
  BY DEF Device, Emptied
<1> HIDE DEF v
<1>4. Incoming(s) = ((r \o g) \o f) \o x BY DEF Incoming
<1>5. Incoming(v) = ((<<>> \o g) \o f) \o x BY <1>3 DEF Incoming
<1> HIDE DEF r, g, f, x
<1>6. <<>> \o g = g BY <1>2, Joined
<1>7. PICK y \in Seq(Frames) : y = g \o f BY <1>2, Joined
<1>8. (r \o g) \o f = r \o y
  <2>1. r \in Seq(Frames) /\ g \in Seq(Frames) /\ f \in Seq(Frames) BY <1>2
  <2> QED BY <1>7, <2>1, Regrouped
<1>9. (r \o y) \o x = r \o (y \o x)
  <2>1. r \in Seq(Frames) /\ x \in Seq(Frames) BY <1>2
  <2> QED BY <2>1, Regrouped
<1>10. y \o x \in Seq(Frames) BY <1>2, Joined
<1> QED BY <1>1, <1>4, <1>5, <1>6, <1>7, <1>8, <1>9, <1>10 DEF v, r

\* What an event leaves of the queues when it is no restart, and when it is one.
Delivers(s, R, v, P) ==
  Incoming(v) = Incoming(s) /\ Outgoing(v, P) = Outgoing(s, R) /\ Posted(v, P)
StartsAnew(s, v, P) ==
  /\ Outgoing(v, P) = <<>> /\ Posted(v, P)
  /\ Incoming(v) = <<>> \/ Incoming(v) = SubSeq(Incoming(s), 1, 1)

LEMMA FramesStay ==
  ASSUME NEW s, NEW v, NEW R, NEW P, SameFrames(s, v), Posted(s, R),
         R \cap InEvents = P \cap InEvents \/ s.xmit_tinyusb = None,
         v.out = "armed" => s.out = "armed", "bad" \in P => "bad" \in R,
         s.mounted => v.mounted
  PROVE  Delivers(s, R, v, P)
<1>1. Incoming(v) = Incoming(s) /\ Outgoing(v, P) = Outgoing(s, P)
  BY SameFramesKept
<1>2. Outgoing(s, P) = Outgoing(s, R) BY BlocksOfFrames DEF Outgoing
<1>3. Posted(v, P) BY DEF SameFrames, Posted
<1> QED BY <1>1, <1>2, <1>3 DEF Delivers

LEMMA FramesGone ==
  ASSUME NEW s \in Device, NEW v \in {Cleared, Reset(s)}, NEW P
  PROVE  StartsAnew(s, v, P)
<1>1. /\ v.recv_glue = <<>> /\ v.recv_ready = <<>> /\ v.recv_tinyusb = None
      /\ v.xmit_tinyusb = None /\ v.xmit_ready = <<>> /\ v.xmit_glue = None
      /\ v.received_frame = None \/ v.received_frame = s.received_frame
  <2>1. CASE v = Cleared BY <2>1 DEF Cleared
  <2>2. CASE v = Reset(s) BY <2>2 DEF Device, Reset, Usbd, Driver
  <2> QED BY <2>1, <2>2
<1> HIDE DEF Cleared, Reset
<1>2. Outgoing(v, P) = <<>>
  <2>1. Outgoing(v, P) = (<<>> \o <<>>) \o <<>>
    BY <1>1, FlattenEmpty, BlocksOfFrames DEF Outgoing
  <2> QED BY <2>1, Joined
<1>3. Posted(v, P) BY <1>1 DEF Posted
<1> DEFINE r == IF v.received_frame = None THEN <<>> ELSE <<v.received_frame>>
<1>4. Incoming(v) = r
  <2>1. Incoming(v) = ((r \o <<>>) \o <<>>) \o <<>>
    BY <1>1, FlattenEmpty, BlocksOfFrames DEF Incoming
  <2>2. r \in Seq(Frames)
    <3>1. v.received_frame \in Frames \cup {None} BY <1>1, DeviceTypes
    <3>2. \A f \in Frames : <<f>> \in Seq(Frames) OBVIOUS
    <3> QED BY <3>1, <3>2, Joined
  <2> HIDE DEF r
  <2> QED BY <2>1, <2>2, Joined
<1>5. CASE v.received_frame = None BY <1>2, <1>3, <1>4, <1>5 DEF StartsAnew
<1>6. CASE v.received_frame # None
  <2>1. s.received_frame # None /\ r = <<s.received_frame>> BY <1>1, <1>6
  <2>2. SubSeq(Incoming(s), 1, 1) = <<s.received_frame>>
    BY <2>1, FirstWaits, FirstTaken
  <2> QED BY <1>2, <1>3, <1>4, <2>1, <2>2 DEF StartsAnew
<1> QED BY <1>5, <1>6

\* A request moves no frame, unless it ends the configuration.
LEMMA RequestKeeps ==
  ASSUME NEW s, NEW q \in Seq(Events), q # <<>>, NEW stage,
         NEW spoilt \in BOOLEAN, NEW hand \in BOOLEAN,
         Sound(s, Range(q), spoilt, hand), Told(q, stage, s.mounted, s.suspended),
         Posted(s, Range(q)), Head(q) \in Requests
  PROVE  LET v == Setup(s, Head(q)) IN
         IF Head(q) = "deselect" /\ s.mounted THEN StartsAnew(s, v, Range(Tail(q)))
         ELSE Delivers(s, Range(q), v, Range(Tail(q)))
<1> DEFINE e == Head(q)
           P == Range(Tail(q))
           R == Range(q)
           c == [s EXCEPT !.connected = TRUE]
           v == Setup(s, e)
<1>1. R = {e} \cup P BY Popped
<1>2. s \in Device /\ s.mounted \in BOOLEAN
  <2>1. s \in Device BY DEF Sound
  <2> QED BY <2>1, DeviceTypes
<1>3. c \in Device /\ SameFrames(s, c) /\ c.mounted = s.mounted /\ c.out = s.out
      /\ RecvBlocks(c) = RecvBlocks(s)
  BY <1>2 DEF Device, SameFrames, RecvBlocks
<1>4. R \cap InEvents = P \cap InEvents /\ ("bad" \in P => "bad" \in R)
  BY <1>1 DEF Requests, InEvents
<1> HIDE DEF c, P, R
<1>5. Delivers(s, R, c, P) BY <1>3, <1>4, FramesStay DEF R
<1>6. CASE e = "config" /\ ~s.mounted
  <2> DEFINE w == Opened(s)
  <2>1. v = [c EXCEPT !.mounted = TRUE, !.open = TRUE, !.out = "idle", !.in = "idle",
                      !.link = TRUE]
    BY <1>3, <1>6 DEF Setup, c
  <2>2. SameFrames(c, v) /\ v.mounted = TRUE /\ v.out = "idle"
    BY <1>3, <2>1 DEF Device, SameFrames
  <2>3. SameFrames(s, v) BY <1>3, <2>2 DEF SameFrames
  <2> HIDE DEF v
  <2>4. Delivers(s, R, v, P) BY <1>4, <2>2, <2>3, FramesStay DEF R
  <2> QED BY <1>6, <2>4 DEF v, P, R
<1>7. CASE e = "deselect" /\ s.mounted
  <2>1. v = Cleared BY <1>3, <1>7 DEF Setup, c
  <2> QED BY <1>2, <1>7, <2>1, FramesGone DEF P
<1>8. CASE e = "alt0" /\ s.mounted
  <2>1. v = Deactivate(c) BY <1>3, <1>8 DEF Setup, c
  <2>2. SameFrames(c, v) /\ v.mounted = c.mounted /\ v.out = c.out
    BY <1>3, <2>1 DEF Device, SameFrames, Deactivate
  <2>3. SameFrames(s, v) BY <1>3, <2>2 DEF SameFrames
  <2> HIDE DEF v
  <2>4. Delivers(s, R, v, P) BY <1>3, <1>4, <2>2, <2>3, FramesStay DEF R
  <2> QED BY <1>8, <2>4 DEF v, P, R
<1>9. CASE e = "alt1" /\ s.mounted
  <2> DEFINE t == [c EXCEPT !.alt = 1]
  <2>1. v = Renew(t) BY <1>3, <1>9 DEF Setup, c
  <2>2. t \in Device /\ SameFrames(c, t) /\ t.mounted = c.mounted /\ t.out = c.out
        /\ RecvBlocks(t) = RecvBlocks(c)
    <3>1. t \in Device BY <1>3 DEF Device
    <3> QED BY <1>3, <3>1 DEF Device, SameFrames, RecvBlocks
  <2> HIDE DEF t
  <2>3. SameFrames(s, t) BY <1>3, <2>2 DEF SameFrames
  <2>4. Delivers(s, R, t, P) BY <1>3, <1>4, <2>2, <2>3, FramesStay DEF R
  <2>5. RecvBlocks(t) <= RecvN BY <1>3, <2>2 DEF Sound, Kept
  <2>6. Delivers(s, R, Renew(t), P) BY <2>2, <2>4, <2>5, RenewKeeps DEF Delivers
  <2> HIDE DEF v
  <2> QED BY <1>9, <2>1, <2>6 DEF v, P, R
<1>10. CASE e = "clear_out" /\ s.mounted
  <2>1. v = Unhalted(c) BY <1>3, <1>10 DEF Setup, Unhalted, c
  <2>2. /\ SameFrames(c, v) /\ v.mounted = c.mounted
        /\ v.out = IF c.out = "armed" THEN "refusing" ELSE c.out
    BY <1>3, <2>1 DEF Device, SameFrames, Unhalted
  <2>3. SameFrames(s, v) BY <1>3, <2>2 DEF SameFrames
  <2> HIDE DEF v
  <2>4. Delivers(s, R, v, P) BY <1>3, <1>4, <2>2, <2>3, FramesStay DEF R
  <2> QED BY <1>10, <2>4 DEF v, P, R
<1>11. CASE \/ e = "address" \/ (e = "config" /\ s.mounted)
            \/ (e # "config" /\ ~s.mounted)
  <2>1. v = c BY <1>3, <1>11 DEF Setup, c
  <2>2. ~(e = "deselect" /\ s.mounted) BY <1>11
  <2> HIDE DEF v
  <2> QED BY <1>5, <2>1, <2>2 DEF v, P, R
<1> QED
  BY <1>6, <1>7, <1>8, <1>9, <1>10, <1>11 DEF Requests

\* One event of the queue.
LEMMA HandledKeeps ==
  ASSUME NEW s, NEW q \in Seq(Events), q # <<>>, NEW stage,
         NEW spoilt \in BOOLEAN, NEW hand \in BOOLEAN,
         Sound(s, Range(q), spoilt, hand), Told(q, stage, s.mounted, s.suspended),
         Posted(s, Range(q))
  PROVE  LET v == Handled(s, q) IN
         IF Restarted(s, q) THEN StartsAnew(s, v, Range(Tail(q)))
         ELSE Delivers(s, Range(q), v, Range(Tail(q)))
<1> DEFINE e == Head(q)
           P == Range(Tail(q))
           R == Range(q)
           v == Handled(s, q)
<1>1. R = {e} \cup P /\ e \in Events BY Popped
<1>2. s \in Device /\ s.mounted \in BOOLEAN
  <2>1. s \in Device BY DEF Sound
  <2> QED BY <2>1, DeviceTypes
<1>3. \A b \in P : Follows(e, b) BY PoppedOrder DEF Told
<1>4. ~s.mounted => s.xmit_tinyusb = None /\ s.recv_tinyusb = None
  BY DEF Posted, Sound, Configured
<1>5. RecvBlocks(s) <= RecvN /\ XmitBlocks(s) = XmitN BY DEF Sound, Kept
<1>6. s.mounted => Received(s, R, spoilt) /\ Sent(s, R) BY DEF Sound, Configured
<1>7. CASE Skipped(e, Tail(q))
  <2>1. e \in Requests BY <1>7 DEF Skipped
  <2>2. v = s /\ ~Restarted(s, q) BY <1>7, <2>1 DEF Handled, Restarted, Requests
  <2>3. R \cap InEvents = P \cap InEvents BY <1>1, <2>1 DEF Requests, InEvents
  <2>4. SameFrames(s, s) BY DEF SameFrames
  <2>5. Delivers(s, R, s, P) BY <1>1, <2>3, <2>4, FramesStay
  <2> QED BY <2>2, <2>5
<1>8. CASE e \in Requests /\ ~Skipped(e, Tail(q))
  <2>1. v = Setup(s, e) BY <1>8 DEF Handled, After, Requests
  <2>2. Restarted(s, q) = (e = "deselect" /\ s.mounted)
    BY <1>8 DEF Restarted, Requests
  <2> QED BY <1>8, <2>1, <2>2, RequestKeeps
<1>9. CASE e = "reset"
  <2>1. ~Skipped(e, Tail(q)) BY <1>9 DEF Skipped, Requests
  <2>2. v = Reset(s) BY <1>9, <2>1 DEF Handled, After, Requests
  <2>3. Restarted(s, q) BY <1>9 DEF Restarted
  <2> QED BY <1>2, <2>2, <2>3, FramesGone
<1>10. CASE e \in OutEvents
  <2> DEFINE t == FreeOut(s)
  <2>1. ~Skipped(e, Tail(q)) /\ ~Restarted(s, q)
    BY <1>10 DEF Skipped, Restarted, Requests, OutEvents
  <2>2. v = IF s.mounted THEN BlockReceived(t, e = "out") ELSE t
    BY <1>10, <2>1 DEF Handled, After, OutEvents, FreeOut, Requests
  <2>3. /\ t \in Device /\ SameFrames(s, t) /\ t.mounted = s.mounted /\ t.out = s.out
        /\ ~t.busy_out /\ RecvBlocks(t) = RecvBlocks(s)
        /\ t.recv_tinyusb = s.recv_tinyusb
    BY <1>2 DEF Device, SameFrames, RecvBlocks, FreeOut
  <2>4. R \cap InEvents = P \cap InEvents BY <1>1, <1>10 DEF OutEvents, InEvents
  <2> HIDE DEF t, v, P, R, e
  <2>5. Delivers(s, R, t, P) BY <1>1, <2>3, <2>4, FramesStay DEF R
  <2>6. CASE s.mounted
    <3> DEFINE valid == e = "out"
    <3>1. e \in R BY <1>1
    <3>2. /\ s.recv_tinyusb # None /\ s.out = "idle" /\ (valid => s.recv_tinyusb # <<>>)
      BY <1>6, <1>10, <2>6, <3>1 DEF Received
    <3>3. ~valid => s.recv_tinyusb = <<>>
      BY <1>10, <3>1, <3>2 DEF Posted, OutEvents, R
    <3>4. valid \in BOOLEAN OBVIOUS
    <3> HIDE DEF valid
    <3> DEFINE w == BlockReceived(t, valid)
    <3>5. Incoming(w) = Incoming(t) /\ Outgoing(w, P) = Outgoing(t, P) /\ Posted(w, P)
      BY <1>5, <2>3, <2>6, <3>2, <3>3, <3>4, ReceivedKeeps
    <3>6. v = w BY <2>2, <2>6 DEF valid
    <3> HIDE DEF w
    <3>7. Delivers(s, R, v, P) BY <2>5, <3>5, <3>6 DEF Delivers
    <3> QED BY <2>1, <3>7 DEF v, P, R
  <2>7. CASE ~s.mounted BY <2>1, <2>2, <2>5, <2>7 DEF v, P, R
  <2> QED BY <2>6, <2>7
<1>11. CASE e \in InEvents
  <2> DEFINE t == FreeIn(s)
  <2>1. ~Skipped(e, Tail(q)) /\ ~Restarted(s, q)
    BY <1>11 DEF Skipped, Restarted, Requests, InEvents
  <2>2. v = IF s.mounted THEN BlockSent(t, e = "in_full") ELSE t
    BY <1>11, <2>1 DEF Handled, After, InEvents, FreeIn, Requests
  <2>3. /\ t \in Device /\ SameFrames(s, t) /\ t.mounted = s.mounted /\ t.out = s.out
        /\ ~t.busy_in /\ t.in = s.in /\ XmitBlocks(t) = XmitBlocks(s)
        /\ SameBus(s, t) /\ SameOut(s, t)
    BY <1>2 DEF Device, SameFrames, SameBus, SameOut, XmitBlocks, FreeIn
  <2>4. "bad" \in P => "bad" \in R BY <1>1
  <2>5. P \cap InEvents = {} /\ R \cap InEvents # {}
    BY <1>1, <1>3, <1>11 DEF Follows
  <2> HIDE DEF t, v, P, R, e
  <2>6. CASE s.mounted
    <3> DEFINE full == e = "in_full"
               w == BlockSent(t, full)
    <3>1. full \in BOOLEAN OBVIOUS
    <3> HIDE DEF full
    <3>2. s.in = "idle" BY <1>6, <2>5, <2>6 DEF Sent
    <3>3. /\ w \in Device /\ SameBus(t, w) /\ SameOut(t, w)
          /\ Some(w.xmit_tinyusb) \o Gathered(w) = Gathered(t)
      BY <1>5, <2>3, <3>1, <3>2, SentKeeps
    <3>4. v = w BY <2>2, <2>6 DEF full
    <3> HIDE DEF w
    <3>5. SameOut(s, v) /\ SameBus(s, v)
      BY <2>3, <3>3, <3>4 DEF SameOut, SameBus
    <3>6. Incoming(v) = Incoming(s) BY <3>5 DEF SameOut, Incoming
    <3>7. Outgoing(v, P) = Outgoing(s, R)
      <4>1. Gathered(t) = Gathered(s) BY <2>3 DEF SameFrames, Gathered
      <4>2. Outgoing(v, P) = Some(v.xmit_tinyusb) \o Gathered(v)
        BY <2>5, <3>3, <3>4, OutgoingParts
      <4>3. Outgoing(s, R) = Gathered(s) BY <1>2, <2>5, OutgoingParts
      <4> QED BY <3>3, <3>4, <4>1, <4>2, <4>3
    <3>8. Posted(v, P) BY <2>4, <2>6, <3>5 DEF Posted, SameOut, SameBus, R
    <3> QED BY <2>1, <3>6, <3>7, <3>8 DEF Delivers, v, P, R
  <2>7. CASE ~s.mounted
    <3>1. Delivers(s, R, t, P) BY <1>4, <2>3, <2>4, <2>7, FramesStay DEF R
    <3> QED BY <2>1, <2>2, <2>7, <3>1 DEF v, P, R
  <2> QED BY <2>6, <2>7
<1>12. CASE e \in {"suspend", "resume"}
  <2>1. ~Skipped(e, Tail(q)) /\ ~Restarted(s, q)
    BY <1>12 DEF Skipped, Restarted, Requests
  <2>2. v = s \/ (\E b \in BOOLEAN : v = [s EXCEPT !.link = b])
    BY <1>12, <2>1 DEF Handled, After, Resumed, Requests
  <2>3. SameFrames(s, v) /\ v.mounted = s.mounted /\ v.out = s.out
    <3>1. CASE v = s BY <3>1 DEF SameFrames
    <3>2. CASE \E b \in BOOLEAN : v = [s EXCEPT !.link = b]
      <4> PICK b \in BOOLEAN : v = [s EXCEPT !.link = b] BY <3>2
      <4> HIDE DEF v
      <4> QED BY <1>2 DEF Device, SameFrames
    <3> QED BY <2>2, <3>1, <3>2
  <2>4. R \cap InEvents = P \cap InEvents BY <1>1, <1>12 DEF InEvents
  <2> HIDE DEF v, P, R, e
  <2>5. Delivers(s, R, v, P) BY <1>1, <2>3, <2>4, FramesStay DEF R
  <2> QED BY <2>1, <2>5 DEF v, P, R
<1> QED
  BY <1>1, <1>7, <1>8, <1>9, <1>10, <1>11, <1>12 DEF Events, OutEvents, InEvents

-----------------------------------------------------------------------------
(* The interface implements its two queues.                                  *)

\* The queues hold whole frames: what the inductive invariant lacks is that the
\* block of an unfinished reception holds none.
LInv == IInv /\ Posted(dev, Range(events))

LEMMA Maps ==
  /\ toDeviceMap = Incoming(dev) /\ toHostMap = Outgoing(dev, Range(events))
  /\ toDeviceMap' = Incoming(dev') /\ toHostMap' = Outgoing(dev', Range(events'))
BY DEF toDeviceMap, toHostMap, Incoming, Outgoing, Taken, InEvents

\* No frame moves, and nobody gets one.
Quiet ==
  /\ Incoming(dev') = Incoming(dev)
  /\ Outgoing(dev', Range(events')) = Outgoing(dev, Range(events))
  /\ link'.lwip = link.lwip /\ link'.host = link.host /\ link'.session = link.session

LEMMA QuietLink == Quiet => UNCHANGED Link!evars
BY Maps DEF Quiet, Link!evars

LinkKept == Posted(dev', Range(events')) /\ [Link!Next]_(Link!evars)

LEMMA QuietKept == Quiet /\ Posted(dev', Range(events')) => LinkKept
BY QuietLink DEF LinkKept

LEMMA LinkTypes ==
  LInv => /\ link \in [in : Frames, out : Frames, lwip : Frames \cup {None},
                       host : Frames \cup {None}, spoilt : BOOLEAN, session : BOOLEAN]
          /\ dev \in Device /\ Incoming(dev) \in Seq(Frames)
          /\ Sound(dev, Range(events), link.spoilt, InHand)
          /\ Posted(dev, Range(events)) /\ RecvBlocks(dev) <= RecvN
          /\ dev.alt = 1 => Sent(dev, Range(events))
<1> SUFFICES ASSUME LInv
             PROVE /\ link \in [in : Frames, out : Frames, lwip : Frames \cup {None},
                          host : Frames \cup {None}, spoilt : BOOLEAN, session : BOOLEAN]
                   /\ dev \in Device /\ Incoming(dev) \in Seq(Frames)
                   /\ Sound(dev, Range(events), link.spoilt, InHand)
                   /\ Posted(dev, Range(events)) /\ RecvBlocks(dev) <= RecvN
                   /\ dev.alt = 1 => Sent(dev, Range(events))
  OBVIOUS
<1>1. IInv /\ Posted(dev, Range(events)) BY DEF LInv
<1>2. /\ dev \in Device /\ Sound(dev, Range(events), link.spoilt, InHand)
      /\ RecvBlocks(dev) <= RecvN
  BY <1>1, Types
<1>3. Incoming(dev) \in Seq(Frames) BY <1>2, PartsOf, Joined DEF Incoming
<1>4. dev.alt = 1 => Sent(dev, Range(events)) BY <1>2 DEF Sound, Configured
<1> QED BY <1>1, <1>2, <1>3, <1>4 DEF IInv, TypeOK

LEMMA EventLink == LInv /\ tud_task => LinkKept
<1> SUFFICES ASSUME LInv, tud_task PROVE LinkKept OBVIOUS
<1>1. /\ events # <<>> /\ events' = Tail(events) /\ dev' = Handled(dev, events)
      /\ link' = IF Restarted(dev, events) THEN NewLink(~link.session)
                 ELSE [link EXCEPT !.spoilt = @ \/ Spoilt(dev, events)]
  BY DEF tud_task, Handled, Restarted, Restarts, Spoilt, Spoils
<1>2. /\ events \in Seq(Events) /\ link.spoilt \in BOOLEAN /\ InHand \in BOOLEAN
      /\ Sound(dev, Range(events), link.spoilt, InHand)
      /\ Told(events, host.stage, dev.mounted, dev.suspended)
      /\ Posted(dev, Range(events))
  BY Types DEF LInv
<1>3. IF Restarted(dev, events) THEN StartsAnew(dev, dev', Range(events'))
      ELSE Delivers(dev, Range(events), dev', Range(events'))
  BY <1>1, <1>2, HandledKeeps
<1>4. CASE Restarted(dev, events)
  <2>1. StartsAnew(dev, dev', Range(events')) BY <1>3, <1>4
  <2>2. link'.lwip = None /\ link'.host = None /\ link'.session = ~link.session
    BY <1>1, <1>4 DEF NewLink
  <2>3. Link!Restart BY <2>1, <2>2, Maps DEF StartsAnew, Link!Restart
  <2> QED BY <2>1, <2>3 DEF LinkKept, StartsAnew, Link!Next
<1>5. CASE ~Restarted(dev, events)
  <2>1. Delivers(dev, Range(events), dev', Range(events')) BY <1>3, <1>5
  <2>2. link' = [link EXCEPT !.spoilt = @ \/ Spoilt(dev, events)] BY <1>1, <1>5
  <2>3. link'.lwip = link.lwip /\ link'.host = link.host /\ link'.session = link.session
    BY <2>2, LinkTypes
  <2> QED BY <2>1, <2>3, QuietKept DEF Delivers, Quiet
<1> QED BY <1>4, <1>5

LEMMA IdleLink ==
  LInv /\ (tud_task_done \/ rx_done \/ send \/ output_refused \/ request) => LinkKept
<1> SUFFICES ASSUME LInv, tud_task_done \/ rx_done \/ send \/ output_refused \/ request
             PROVE LinkKept
  OBVIOUS
<1>1. dev' = dev /\ link' = link
  BY DEF tud_task_done, rx_done, send, output_refused, request
<1>2. \/ events' = events \/ \E r \in Requests : events' = Append(events, r)
  BY DEF tud_task_done, rx_done, send, output_refused, request, Post
<1>3. /\ Range(events') \cap InEvents = Range(events) \cap InEvents
      /\ "bad" \in Range(events') => "bad" \in Range(events)
  <2>1. CASE events' = events BY <2>1
  <2>2. CASE \E r \in Requests : events' = Append(events, r)
    <3>1. PICK r \in Requests : events' = Append(events, r) BY <2>2
    <3>2. events \in Seq(Events) /\ r \in Events BY Types DEF LInv, Events
    <3>3. Range(events') = Range(events) \cup {r} BY <3>1, <3>2, Queued
    <3> QED BY <3>3 DEF Requests, InEvents
  <2> QED BY <1>2, <2>1, <2>2
<1>4. SameFrames(dev, dev) BY DEF SameFrames
<1>5. Delivers(dev, Range(events), dev, Range(events'))
  BY <1>3, <1>4, LinkTypes, FramesStay
<1> QED BY <1>1, <1>5, QuietKept DEF Delivers, Quiet

LEMMA TakeLink == LInv /\ take_frame => LinkKept
<1> SUFFICES ASSUME LInv, take_frame PROVE LinkKept OBVIOUS
<1>1. /\ dev.received_frame # None /\ dev' = Emptied(dev) /\ events' = events
      /\ link' = [link EXCEPT !.lwip = dev.received_frame]
  BY DEF take_frame, Emptied
<1>2. /\ link'.lwip = dev.received_frame /\ link'.host = link.host
      /\ link'.session = link.session
  BY <1>1, LinkTypes
<1>3. /\ Incoming(dev) # <<>> /\ Head(Incoming(dev)) = dev.received_frame
      /\ Tail(Incoming(dev)) = Incoming(dev')
  <2>1. PICK f \in Frames, rest \in Seq(Frames) :
          /\ f = dev.received_frame /\ rest = Incoming(Emptied(dev))
          /\ Incoming(dev) = <<f>> \o rest
    BY <1>1, LinkTypes, FirstWaits
  <2>2. LET c == <<f>> \o rest IN c # <<>> /\ Head(c) = f /\ Tail(c) = rest
    BY FirstTaken
  <2> QED BY <1>1, <2>1, <2>2
<1>4. /\ SameIn(dev, dev') /\ dev'.recv_tinyusb = dev.recv_tinyusb
      /\ dev'.out = dev.out /\ dev'.mounted = dev.mounted
  BY <1>1, LinkTypes DEF Device, SameIn, Emptied
<1>5. Outgoing(dev', Range(events)) = Outgoing(dev, Range(events))
  BY <1>4 DEF SameIn, Outgoing
<1>6. Posted(dev', Range(events')) BY <1>1, <1>4, LinkTypes DEF Posted, SameIn
<1>7. Link!Receive BY <1>1, <1>2, <1>3, <1>5, Maps DEF Link!Receive
<1> QED BY <1>6, <1>7 DEF LinkKept, Link!Next

LEMMA RenewLink == LInv /\ input_done => LinkKept
<1> SUFFICES ASSUME LInv, input_done PROVE LinkKept OBVIOUS
<1>1. dev' = Renew(dev) /\ events' = events /\ link' = link BY DEF input_done
<1>2. /\ Incoming(dev') = Incoming(dev)
      /\ Outgoing(dev', Range(events)) = Outgoing(dev, Range(events))
      /\ Posted(dev', Range(events))
  BY <1>1, LinkTypes, RenewKeeps
<1> QED BY <1>1, <1>2, QuietKept DEF Quiet

LEMMA TransmissionLink ==
  ASSUME LInv, NEW s \in Device, dev' = StartTransmission(s), events' = events,
         link' = link, s.alt = 1 => Sent(s, Range(events)) /\ s.mounted,
         Posted(s, Range(events)), Incoming(s) = Incoming(dev),
         Outgoing(s, Range(events)) = Outgoing(dev, Range(events))
  PROVE  LinkKept
<1>1. /\ Incoming(dev') = Incoming(s)
      /\ Outgoing(dev', Range(events)) = Outgoing(s, Range(events))
      /\ Posted(dev', Range(events))
  BY TransmissionWaits
<1> QED BY <1>1, QuietKept DEF Quiet

LEMMA FlushLink == LInv /\ flush => LinkKept
<1> SUFFICES ASSUME LInv, flush PROVE LinkKept OBVIOUS
<1>1. dev' = StartTransmission(dev) /\ events' = events /\ link' = link BY DEF flush
<1>2. dev.alt = 1 => dev.mounted BY LinkTypes DEF Sound, Configured
<1> QED BY <1>1, <1>2, LinkTypes, TransmissionLink

LEMMA WaitLink == LInv /\ output_wait => LinkKept
<1> SUFFICES ASSUME LInv, output_wait PROVE LinkKept OBVIOUS
<1> DEFINE s == Room(dev)
<1>1. /\ s.xmit_glue = None /\ dev' = StartTransmission(s)
      /\ events' = events /\ link' = link
  BY DEF output_wait
<1>2. /\ s \in Device /\ SameBus(dev, s) /\ SameOut(dev, s)
      /\ XmitBlocks(s) = XmitBlocks(dev) /\ s.xmit_tinyusb = dev.xmit_tinyusb
      /\ s.busy_in = dev.busy_in /\ s.in = dev.in
  BY <1>1, LinkTypes, NoRoom
<1>3. Gathered(s) = Gathered(dev) BY LinkTypes, RoomKeeps
<1> HIDE DEF s
<1>4. Sound(s, Range(events), link.spoilt, InHand)
  <2>1. link.spoilt \in BOOLEAN /\ InHand \in BOOLEAN BY Types DEF LInv
  <2> QED BY <1>2, <2>1, LinkTypes, SoundFilled
<1>5. s.alt = 1 => Sent(s, Range(events)) /\ s.mounted
  BY <1>4 DEF Sound, Configured
<1>6. Incoming(s) = Incoming(dev) BY <1>2 DEF SameOut, Incoming
<1>7. Outgoing(s, Range(events)) = Outgoing(dev, Range(events))
  BY <1>2, <1>3, LinkTypes, OutgoingParts
<1>8. Posted(s, Range(events)) BY <1>2, LinkTypes DEF Posted, SameOut, SameBus
<1> QED BY <1>1, <1>2, <1>5, <1>6, <1>7, <1>8, TransmissionLink

LEMMA SubmitLink == LInv /\ output_submit => LinkKept
<1> SUFFICES ASSUME LInv, output_submit PROVE LinkKept OBVIOUS
<1>1. /\ Room(dev).xmit_glue # None
      /\ dev' = [Room(dev) EXCEPT !.xmit_glue = Append(@, link.out)]
      /\ link' = [link EXCEPT !.out = Following(@)] /\ events' = events
  BY DEF output_submit
<1>2. /\ link.out \in Frames /\ link'.lwip = link.lwip /\ link'.host = link.host
      /\ link'.session = link.session
  BY <1>1, LinkTypes
<1>3. /\ Incoming(dev') = Incoming(dev)
      /\ Outgoing(dev', Range(events)) = Append(Outgoing(dev, Range(events)), link.out)
      /\ Posted(dev', Range(events))
  BY <1>1, <1>2, LinkTypes, SubmitKeeps
<1>4. Link!Transmit(link.out) BY <1>1, <1>2, <1>3, Maps DEF Link!Transmit
<1> QED BY <1>1, <1>2, <1>3, <1>4 DEF LinkKept, Link!Next

LEMMA ResetLink == LInv /\ bus_reset => LinkKept
<1> SUFFICES ASSUME LInv, bus_reset PROVE LinkKept OBVIOUS
<1>1. dev' = Controller(dev) /\ events' = Append(events, "reset") /\ link' = link
  BY DEF bus_reset, Post
<1>2. SameFrames(dev, dev') /\ dev'.mounted = dev.mounted /\ dev'.out = "idle"
  BY <1>1, LinkTypes DEF Device, SameFrames, Controller
<1>3. Range(events') = Range(events) \cup {"reset"}
  <2>1. events \in Seq(Events) /\ "reset" \in Events BY Types DEF LInv, Events
  <2> QED BY <1>1, <2>1, Queued
<1>4. /\ Range(events) \cap InEvents = Range(events') \cap InEvents
      /\ "bad" \in Range(events') => "bad" \in Range(events)
  BY <1>3 DEF InEvents
<1>5. Delivers(dev, Range(events), dev', Range(events'))
  BY <1>2, <1>4, LinkTypes, FramesStay
<1> QED BY <1>1, <1>5, QuietKept DEF Delivers, Quiet

LEMMA SleepLink == LInv /\ (bus_suspend \/ bus_resume) => LinkKept
<1> SUFFICES ASSUME LInv, bus_suspend \/ bus_resume PROVE LinkKept OBVIOUS
<1>1. /\ link' = link
      /\ \/ dev' = dev /\ events' = events
         \/ \E e \in {"suspend", "resume"}, b \in BOOLEAN :
              dev' = [dev EXCEPT !.suspended = b] /\ events' = Append(events, e)
  BY DEF bus_suspend, bus_resume, Post
<1>2. SameFrames(dev, dev') /\ dev'.mounted = dev.mounted /\ dev'.out = dev.out
  BY <1>1, LinkTypes DEF Device, SameFrames
<1>3. /\ Range(events) \cap InEvents = Range(events') \cap InEvents
      /\ "bad" \in Range(events') => "bad" \in Range(events)
  <2>1. CASE events' = events BY <2>1
  <2>2. CASE \E e \in {"suspend", "resume"} : events' = Append(events, e)
    <3>1. PICK e \in {"suspend", "resume"} : events' = Append(events, e) BY <2>2
    <3>2. events \in Seq(Events) /\ e \in Events BY Types DEF LInv, Events
    <3>3. Range(events') = Range(events) \cup {e} BY <3>1, <3>2, Queued
    <3> QED BY <3>3 DEF InEvents
  <2> QED BY <1>1, <2>1, <2>2
<1>4. Delivers(dev, Range(events), dev', Range(events'))
  BY <1>2, <1>3, LinkTypes, FramesStay
<1> QED BY <1>1, <1>4, QuietKept DEF Delivers, Quiet

\* The host's frames are behind all that wait.
LEMMA ArrivedLink == LInv /\ out_done => LinkKept
<1> SUFFICES ASSUME LInv, out_done PROVE LinkKept OBVIOUS
<1>1. PICK n \in 1 .. 2 :
        LET block == [k \in 1 .. n |-> (link.in + k - 1) % Cardinality(Frames)] IN
        /\ dev' = [dev EXCEPT !.out = "idle",
                              !.recv_tinyusb = IF @ = None THEN None ELSE block]
        /\ link' = [link EXCEPT !.in = (@ + n) % Cardinality(Frames)]
  BY DEF out_done
<1> DEFINE at(k) == (link.in + k - 1) % Cardinality(Frames)
           block == [k \in 1 .. n |-> at(k)]
<1>2. /\ host.stage = "up" /\ dev.out = "armed" /\ events' = Append(events, "out")
  BY DEF out_done, Post
<1>3. dev.recv_tinyusb = <<>>
  <2>1. dev.mounted BY <1>2, UpIsConfigured DEF LInv
  <2>2. dev.recv_tinyusb # None
    BY <1>2, <2>1, LinkTypes DEF Sound, Configured, Received
  <2> QED BY <1>2, <2>2, LinkTypes DEF Posted
<1>4. \E f, g \in Frames : block = <<f>> \/ block = <<f, g>>
  <2>1. link.in \in Nat BY LinkTypes, Sizes
  <2>2. \A k \in 1 .. 2 : at(k) \in Frames
    <3>1. \A k \in 1 .. 2 : (link.in + k - 1) \in Nat BY <2>1
    <3> QED BY <3>1, Sizes
  <2> HIDE DEF at
  <2>3. CASE n = 1
    <3>1. block = <<at(1)>> BY <2>3
    <3> QED BY <2>2, <3>1
  <2>4. CASE n = 2
    <3>1. block = <<at(1), at(2)>> BY <2>4
    <3> QED BY <2>2, <3>1
  <2>5. n = 1 \/ n = 2 OBVIOUS
  <2> HIDE DEF block
  <2> QED BY <2>3, <2>4, <2>5
<1>5. PICK f \in Frames, g \in Frames : block = <<f>> \/ block = <<f, g>> BY <1>4
<1>6. dev' = Arrived(dev, block)
  <2>1. dev.recv_tinyusb # None BY <1>3, Sizes
  <2>2. dev' = [dev EXCEPT !.out = "idle",
                           !.recv_tinyusb = IF dev.recv_tinyusb = None THEN None ELSE block]
    BY <1>1
  <2> HIDE DEF block
  <2> QED BY <2>1, <2>2 DEF Arrived
<1>7. link'.lwip = link.lwip /\ link'.host = link.host /\ link'.session = link.session
  BY <1>1, LinkTypes
<1> HIDE DEF block
<1>8. block \in Seq(Frames) /\ block # None
  <2>0. <<f>> \in Seq(Frames) /\ <<f, g>> \in Seq(Frames) OBVIOUS
  <2>1. block \in Seq(Frames) BY <1>5, <2>0
  <2> QED BY <2>1, Sizes
<1>9. /\ dev'.received_frame = dev.received_frame /\ dev'.recv_glue = dev.recv_glue
      /\ dev'.recv_ready = dev.recv_ready /\ dev'.recv_tinyusb = block
      /\ dev'.out = "idle" /\ dev'.mounted = dev.mounted /\ SameIn(dev, dev')
  BY <1>6, LinkTypes DEF Device, Arrived, SameIn
<1>10. Incoming(dev') = Incoming(dev) \o block
  <2> DEFINE y == (IF dev.received_frame = None THEN <<>> ELSE <<dev.received_frame>>)
                    \o dev.recv_glue \o FlattenSeq(dev.recv_ready)
  <2>1. y \in Seq(Frames) BY LinkTypes, PartsOf, Joined
  <2>2. Incoming(dev) = y \o <<>>
    <3>1. Some(dev.recv_tinyusb) = <<>> BY <1>3 DEF Some
    <3> QED BY <3>1 DEF Incoming
  <2>3. Incoming(dev') = y \o block
    <3>1. Some(dev'.recv_tinyusb) = block BY <1>8, <1>9 DEF Some
    <3> QED BY <1>9, <3>1 DEF Incoming
  <2> HIDE DEF y
  <2> QED BY <2>1, <2>2, <2>3, Joined
<1>11. Range(events') = Range(events) \cup {"out"}
  <2>1. events \in Seq(Events) /\ "out" \in Events BY Types DEF LInv, Events
  <2> QED BY <1>2, <2>1, Queued
<1>12. Outgoing(dev', Range(events')) = Outgoing(dev, Range(events))
  <2>1. Range(events') \cap InEvents = Range(events) \cap InEvents
    BY <1>11 DEF InEvents
  <2> QED BY <1>9, <2>1 DEF SameIn, Outgoing
<1>13. "bad" \notin Range(events')
  <2>1. dev.mounted BY <1>2, UpIsConfigured DEF LInv
  <2>2. "bad" \notin Range(events)
    BY <1>2, <2>1, LinkTypes DEF Sound, Configured, Received, OutEvents
  <2> QED BY <1>11, <2>2
<1>14. Posted(dev', Range(events')) BY <1>9, <1>13, LinkTypes DEF Posted, SameIn
<1>15. Link!HostSends(block) BY <1>7, <1>10, <1>12, Maps DEF Link!HostSends
<1>16. Link!Next BY <1>5, <1>15 DEF Link!Next
<1> QED BY <1>14, <1>16 DEF LinkKept

\* What is no block holds no frame.
LEMMA BadLink == LInv /\ out_bad => LinkKept
<1> SUFFICES ASSUME LInv, out_bad PROVE LinkKept OBVIOUS
<1>1. /\ dev.out = "armed" /\ dev' = [dev EXCEPT !.out = "idle"]
      /\ events' = Append(events, "bad") /\ link' = [link EXCEPT !.spoilt = TRUE]
  BY DEF out_bad, Post
<1>2. SameFrames(dev, dev') /\ dev'.mounted = dev.mounted /\ dev'.out = "idle"
  BY <1>1, LinkTypes DEF Device, SameFrames
<1>3. Range(events') \cap InEvents = Range(events) \cap InEvents
  <2>1. events \in Seq(Events) /\ "bad" \in Events BY Types DEF LInv, Events
  <2>2. Range(events') = Range(events) \cup {"bad"} BY <1>1, <2>1, Queued
  <2> QED BY <2>2 DEF InEvents
<1>4. /\ Incoming(dev') = Incoming(dev)
      /\ Outgoing(dev', Range(events')) = Outgoing(dev, Range(events))
  <2>1. /\ Incoming(dev') = Incoming(dev)
        /\ Outgoing(dev', Range(events')) = Outgoing(dev, Range(events'))
    BY <1>2, SameFramesKept
  <2> QED BY <1>3, <2>1 DEF Outgoing
<1>5. Posted(dev', Range(events'))
  BY <1>1, <1>2, LinkTypes DEF Posted, SameFrames
<1>6. link'.lwip = link.lwip /\ link'.host = link.host /\ link'.session = link.session
  BY <1>1, LinkTypes
<1> QED BY <1>4, <1>5, <1>6, QuietKept DEF Quiet

\* The host gets the block in front, or an empty packet.
LEMMA TakenLink == LInv /\ in_done => LinkKept
<1> SUFFICES ASSUME LInv, in_done PROVE LinkKept OBVIOUS
<1> DEFINE x == Some(dev.xmit_tinyusb)
           z == Gathered(dev)
<1>1. /\ host.stage = "up" /\ dev.in = "armed" /\ dev' = TakenOff(dev)
      /\ link' = IF dev.xmit_tinyusb = None \/ Taken THEN link
                 ELSE [link EXCEPT !.host = Last(dev.xmit_tinyusb)]
  BY DEF in_done, TakenOff
<1>2. PICK e \in InEvents : events' = Append(events, e)
  BY DEF in_done, Post, InEvents
<1>3. Range(events) \cap InEvents = {}
  <2>1. dev.mounted BY <1>1, UpIsConfigured DEF LInv
  <2> QED BY <1>1, <2>1, LinkTypes DEF Sound, Configured, Sent
<1>4. Range(events') = Range(events) \cup {e}
  <2>1. events \in Seq(Events) /\ e \in Events BY Types DEF LInv, Events, InEvents
  <2> QED BY <1>2, <2>1, Queued
<1>5. /\ SameFrames(dev, dev') /\ dev'.mounted = dev.mounted /\ dev'.out = dev.out
      /\ dev' \in Device
  BY <1>1, LinkTypes DEF Device, SameFrames, TakenOff
<1>6. Incoming(dev') = Incoming(dev) BY <1>5, SameFramesKept
<1>7. Outgoing(dev, Range(events)) = x \o z BY <1>3, LinkTypes, OutgoingParts
<1>8. Outgoing(dev', Range(events')) = z
  <2>1. Range(events') \cap InEvents # {} BY <1>4
  <2>2. Gathered(dev') = z BY <1>5 DEF SameFrames, Gathered
  <2> QED BY <1>5, <2>1, <2>2, OutgoingParts
<1>9. Posted(dev', Range(events'))
  <2>1. "bad" \in Range(events') => "bad" \in Range(events) BY <1>2, <1>4 DEF InEvents
  <2> QED BY <1>5, <2>1, LinkTypes DEF Posted, SameFrames
<1>10. x \in Seq(Frames) /\ z \in Seq(Frames) BY LinkTypes, PartsOf
<1>11. CASE dev.xmit_tinyusb = None
  <2>1. link' = link BY <1>1, <1>11
  <2>2. x = <<>> BY <1>11, BlocksOfFrames
  <2> HIDE DEF x, z
  <2>3. x \o z = z BY <1>10, <2>2, Joined
  <2> QED BY <1>6, <1>7, <1>8, <1>9, <2>1, <2>3, QuietKept DEF Quiet
<1>12. CASE dev.xmit_tinyusb # None
  <2>1. ~Taken BY <1>3 DEF Taken, InEvents
  <2>2. link' = [link EXCEPT !.host = Last(dev.xmit_tinyusb)] BY <1>1, <1>12, <2>1
  <2>3. /\ link'.lwip = link.lwip /\ link'.host = Last(dev.xmit_tinyusb)
        /\ link'.session = link.session
    BY <2>2, LinkTypes
  <2>4. x = dev.xmit_tinyusb /\ x # <<>>
    <3>1. dev.xmit_tinyusb \in ToHost BY <1>12, LinkTypes, DeviceTypes
    <3>2. Len(dev.xmit_tinyusb) # 0 BY <3>1 DEF ToHost
    <3>3. dev.xmit_tinyusb # <<>> BY <3>2
    <3> QED BY <1>12, <3>3 DEF Some
  <2>5. Last(dev.xmit_tinyusb) = x[Len(x)] BY <2>4 DEF Last
  <2> HIDE DEF x, z
  <2>6. /\ Len(x) \in 1 .. Len(x \o z) /\ (x \o z)[Len(x)] = x[Len(x)]
        /\ SubSeq(x \o z, Len(x) + 1, Len(x \o z)) = z
    BY <1>10, <2>4, FrontTaken
  <2>7. Len(x) \in 1 .. Len(toHostMap) BY <1>7, <2>6, Maps
  <2>8. Link!HostTakes(Len(x))
    <3>1. link'.host = toHostMap[Len(x)] BY <1>7, <2>3, <2>5, <2>6, Maps
    <3>2. toHostMap' = SubSeq(toHostMap, Len(x) + 1, Len(toHostMap))
      BY <1>7, <1>8, <2>6, Maps
    <3>3. toDeviceMap' = toDeviceMap BY <1>6, Maps
    <3> QED BY <2>3, <3>1, <3>2, <3>3 DEF Link!HostTakes
  <2> QED BY <1>9, <2>7, <2>8 DEF LinkKept, Link!Next
<1> QED BY <1>11, <1>12

\* lwIP and the host get whole frames in order, none lost and none twice, from one
\* restart of the interface to the next, through resets, sleeps, cleared halts and
\* blocks that are none; a restart empties both queues but for the frame that lwIP
\* has in front of it (recv_* and xmit_* of ncm_device.c, t384_ncm.c).
THEOREM InterfaceIsALink == Spec => ImplementsEtherLink
<1>1. Init => LInv /\ Link!Init
  <2> SUFFICES ASSUME Init PROVE LInv /\ Link!Init OBVIOUS
  <2>1. dev = Cleared /\ events = <<>> /\ link = NewLink(FALSE) BY DEF Init
  <2>2. Posted(dev, Range(events)) BY <2>1 DEF Posted, Cleared
  <2>3. StartsAnew(dev, dev, Range(events))
    BY <2>1, InitHolds, FramesGone DEF IInv, TypeOK
  <2>4. Incoming(dev) = <<>>
    <3>1. /\ dev.received_frame = None /\ dev.recv_glue = <<>> /\ dev.recv_ready = <<>>
          /\ dev.recv_tinyusb = None
      BY <2>1 DEF Cleared
    <3>2. Incoming(dev) = ((<<>> \o <<>>) \o <<>>) \o <<>>
      BY <3>1, FlattenEmpty, BlocksOfFrames DEF Incoming
    <3> QED BY <3>2, Joined
  <2>5. link.lwip = None /\ link.host = None /\ link.session = FALSE
    BY <2>1 DEF NewLink
  <2> QED BY <2>2, <2>3, <2>4, <2>5, InitHolds, Maps DEF LInv, StartsAnew, Link!Init
<1>2. LInv /\ IInv' /\ [Next]_vars => LInv' /\ [Link!Next]_(Link!evars)
  <2> SUFFICES ASSUME LInv, IInv', [Next]_vars PROVE LinkKept
    BY DEF LInv, LinkKept
  <2>1. CASE Next
    BY <2>1, EventLink, IdleLink, TakeLink, RenewLink, FlushLink, WaitLink, SubmitLink,
       ResetLink, SleepLink, ArrivedLink, BadLink, TakenLink
       DEF Next, Main, Interrupt
  <2>2. CASE UNCHANGED vars
    <3>1. dev' = dev /\ events' = events /\ link' = link BY <2>2 DEF vars
    <3> QED BY <3>1, LinkTypes, QuietKept DEF Quiet
  <2> QED BY <2>1, <2>2
<1> QED BY Inductive, <1>1, <1>2, PTL DEF Spec, ImplementsEtherLink, Link!Spec
=============================================================================
