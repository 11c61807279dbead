-------------------------- MODULE HttpClients_proofs --------------------------
(***************************************************************************)
(* Proofs about HttpClients, for every number of slots, connections and    *)
(* chunks and any answers of lwIP.                                         *)
(*                                                                         *)
(* A handler turns one world into the next by calling others, so what is   *)
(* proved is a contract of each operator: Sound, the inductive invariant,  *)
(* said of any world, is kept by it, and Served says in addition what lwIP *)
(* may rely on when a callback about a connection returns.  The folds over *)
(* the slots and over the writes of a stream are unfolded by induction     *)
(* over the naturals (SetInduction).                                       *)
(***************************************************************************)
EXTENDS HttpClients, WellFoundedInduction, SequenceTheorems, TLAPS

\* A slot, a chunk, what a peer has got last, and all the state of a handler.
Slot ==
  [pcb : Pcbs \cup {None}, kind : Kinds, closing : BOOLEAN,
   idle : 0 .. IdleLimit - 1, left : 0 .. Length, inflight : 0 .. Length,
   head : BOOLEAN, leased : BOOLEAN, part : 0 .. Parts, synced : BOOLEAN,
   late : BOOLEAN]
Chunks == {c \in [seq : FrameIds, off : 0 .. F - 1, start : BOOLEAN, end : BOOLEAN] :
             c.start <=> c.off = 0}
Heads == Units \cup {None, Status, Broken}
Worlds ==
  [clients : [Clients -> Slot], stream : Clients \cup {None},
   tcp : [Pcbs -> {"free", "open", "closing"}], arg : [Pcbs -> Clients \cup {None}],
   unacked : [Pcbs -> 0 .. SndBuf], peer : [Pcbs -> Heads],
   queue : Seq(Chunks), lent : Chunks \cup {None}, tail : Chunks \cup {None},
   state : {"idle", "reading", "ready", "closing"}, downloading : BOOLEAN,
   honest : BOOLEAN, aborted : SUBSET Pcbs, ret : {"ERR_OK", "ERR_ABRT"}]

\* An attached connection is open and the one of its slot.
Attachments(w) ==
  /\ \A p \in Pcbs, c \in Clients : w.clients[c].pcb = p <=> w.arg[p] = c
  /\ \A p \in Pcbs : w.arg[p] # None => w.tcp[p] = "open"
  /\ \A p \in Pcbs : w.tcp[p] = "free" => w.unacked[p] = 0

\* Of a response every unit is still to be sent, or unacknowledged.  The slot
\* that is being answered may have units of lwIP before it says so.
Counted(w, busy) ==
  \A c \in Clients :
    LET k == w.clients[c]
    IN  /\ k.pcb = None => k.kind = "none"
        /\ k.kind \in {"static", "download"}
             => k.inflight = w.unacked[k.pcb] /\ k.left + k.inflight <= Length
        /\ k.kind = "none" /\ ~k.closing /\ k.pcb # None /\ c # busy
             => w.unacked[k.pcb] = 0
        /\ k.leased \/ k.head \/ k.synced => k.kind = "raw16"

\* Each lease has its borrower.
Streaming(w) ==
  /\ \A c \in Clients : w.stream = c <=> w.clients[c].kind = "raw16"
  /\ w.lent # None => w.stream # None /\ w.clients[w.stream].leased
  /\ \A c \in Clients : w.clients[c].leased
       => w.queue # <<>> /\ w.lent # None /\ w.lent = w.queue[1]
  /\ w.stream # None => w.state = "idle"
Downloads(w) ==
  /\ w.downloading => /\ w.state = "ready"
                      /\ \E c \in Clients : w.clients[c].kind = "download"
  /\ \A c \in Clients : w.clients[c].kind = "download" => w.downloading
  /\ \A c, d \in Clients :
       w.clients[c].kind = "download" /\ w.clients[d].kind = "download" => c = d

\* The queue is a piece of one frame after another, and the open frame its end.
Chained(w) ==
  /\ Len(w.queue) <= Depth
  /\ \A i \in 1 .. Len(w.queue) - 1 :
       \/ w.queue[i + 1].off = 0
       \/ /\ w.queue[i].seq = w.queue[i + 1].seq
          /\ w.queue[i].off = w.queue[i + 1].off - 1
  /\ w.tail # None /\ w.queue # <<>> => w.tail = w.queue[Len(w.queue)]

\* A chunk may follow what the peer has: it starts a frame, or goes on.
MayFollow(u, chunk) ==
  /\ u # None /\ u.part = Parts
  /\ chunk.off = 0 \/ (u.seq = chunk.seq /\ u.off = chunk.off - 1)

\* What the peer of a stream has got, by where the stream is.
Framed(w, k) ==
  LET u == w.peer[k.pcb]
  IN  /\ k.head => ~k.leased /\ ~k.synced
      /\ ~k.head /\ ~k.synced => u = Status /\ ~k.leased
      /\ k.leased => IF k.part = 0 THEN MayFollow(u, w.lent)
                     ELSE u = [seq |-> w.lent.seq, off |-> w.lent.off, part |-> k.part - 1]
      /\ k.synced /\ ~k.leased =>
           /\ u # None /\ u.part = Parts
           /\ w.queue # <<>> => MayFollow(u, w.queue[1])
           /\ w.queue = <<>> /\ w.tail # None => u.seq = w.tail.seq /\ u.off = w.tail.off
Framing(w) ==
  /\ Chained(w)
  /\ w.stream # None => Framed(w, w.clients[w.stream])
  /\ \A p \in Pcbs : w.peer[p] # Broken

Sound(w, busy) ==
  /\ w \in Worlds
  /\ Attachments(w) /\ Counted(w, busy) /\ Streaming(w) /\ Downloads(w)
  /\ Framing(w) /\ w.honest

-----------------------------------------------------------------------------
\* What the constants are.
LEMMA Sizes ==
  /\ N \in Nat \ {0} /\ Length \in Nat \ {0} /\ Parts \in Nat \ {0}
  /\ SndBuf \in Nat \ {0} /\ IdleLimit \in Nat \ {0} /\ DrainBudget \in Nat \ {0}
  /\ Depth \in Nat \ {0} /\ F \in Nat \ {0}
  /\ None \notin Clients /\ None \notin Pcbs /\ None \notin Units
  /\ None # Status /\ None # Broken /\ None \notin Chunks
  /\ Status # Broken /\ Status \notin Units /\ Broken \notin Units
<1>1. Status # Broken BY ClientAssumption DEF Status, Broken
<1>2. Status \notin Units /\ Broken \notin Units
  BY ClientAssumption DEF Status, Broken, Units, FrameIds
<1> QED BY <1>1, <1>2, ClientAssumption DEF Chunks

\* A slot after memset.
LEMMA EmptySlot ==
  /\ Empty \in Slot /\ Empty.pcb = None /\ Empty.kind = "none" /\ ~Empty.closing
  /\ ~Empty.leased /\ ~Empty.head /\ ~Empty.synced
BY Sizes DEF Empty, Slot, Kinds

\* The types of the parts of a world, and of a slot.
LEMMA WorldTypes ==
  ASSUME NEW w \in Worlds
  PROVE  /\ w.clients \in [Clients -> Slot] /\ w.stream \in Clients \cup {None}
         /\ w.tcp \in [Pcbs -> {"free", "open", "closing"}]
         /\ w.arg \in [Pcbs -> Clients \cup {None}]
         /\ w.unacked \in [Pcbs -> 0 .. SndBuf] /\ w.peer \in [Pcbs -> Heads]
         /\ w.queue \in Seq(Chunks) /\ Len(w.queue) \in Nat
         /\ w.lent \in Chunks \cup {None}
         /\ w.tail \in Chunks \cup {None}
         /\ w.state \in {"idle", "reading", "ready", "closing"}
         /\ w.downloading \in BOOLEAN /\ w.honest \in BOOLEAN
         /\ w.aborted \in SUBSET Pcbs /\ w.ret \in {"ERR_OK", "ERR_ABRT"}
BY DEF Worlds

LEMMA SlotTypes ==
  ASSUME NEW k \in Slot
  PROVE  /\ k.pcb \in Pcbs \cup {None} /\ k.kind \in Kinds /\ k.closing \in BOOLEAN
         /\ k.idle \in 0 .. IdleLimit - 1 /\ k.left \in 0 .. Length
         /\ k.inflight \in 0 .. Length /\ k.head \in BOOLEAN /\ k.leased \in BOOLEAN
         /\ k.part \in 0 .. Parts /\ k.synced \in BOOLEAN /\ k.late \in BOOLEAN
BY DEF Slot

\* Induction over the naturals, for the folds of the handlers.
LEMMA SetInduction ==
  ASSUME NEW S, 0 \in S, \A n \in Nat : n \in S => n + 1 \in S
  PROVE  Nat \subseteq S
<1> DEFINE T == Nat \ S
           R == OpToRel(<, Nat)
<1> SUFFICES ASSUME T # {} PROVE FALSE OBVIOUS
<1>1. \A x, y \in Nat : y < x => <<y, x>> \in R BY DEF OpToRel
<1>2. IsWellFoundedOn(R, Nat) BY NatLessThanWellFounded
<1> HIDE DEF R
<1>3. T \subseteq Nat OBVIOUS
<1> HIDE DEF T
<1>4. PICK x \in T : \A y \in T : ~(<<y, x>> \in R) BY <1>2, <1>3, WFMin
<1>5. x \in Nat /\ x # 0 BY <1>3, <1>4 DEF T
<1>6. x - 1 \in Nat /\ x - 1 < x /\ (x - 1) + 1 = x BY <1>5
<1>7. x - 1 \in T BY <1>4, <1>5, <1>6 DEF T
<1> QED BY <1>1, <1>4, <1>5, <1>6, <1>7

-----------------------------------------------------------------------------
(* Giving up clients.                                                        *)

\* v is w without the client of slot c.
Released(w, v, c) ==
  LET k == w.clients[c]
  IN  /\ v.clients = [w.clients EXCEPT ![c] = Empty]
      /\ v.stream = IF w.stream = c THEN None ELSE w.stream
      /\ v.queue = IF k.leased THEN Tail(w.queue) ELSE w.queue
      /\ v.lent = IF k.leased THEN None ELSE w.lent
      /\ v.tail = w.tail
      /\ v.state = IF k.kind = "download" /\ w.downloading THEN "idle" ELSE w.state
      /\ v.downloading = IF k.kind = "download" THEN FALSE ELSE w.downloading
      /\ v.honest = IF k.kind = "download"
                      THEN Complete(k) <=> k.left = 0 /\ w.unacked[k.pcb] = 0
                      ELSE w.honest
      /\ v.ret = w.ret

\* ... and its connection calls back no more.
Loosened(w, v, c) ==
  LET k == w.clients[c]
  IN  /\ \A p \in Pcbs \ {k.pcb} :
           /\ v.arg[p] = w.arg[p] /\ v.tcp[p] = w.tcp[p]
           /\ v.unacked[p] = w.unacked[p] /\ v.peer[p] = w.peer[p]
      /\ k.pcb # None
           => /\ v.arg[k.pcb] = None /\ v.peer[k.pcb] # Broken
              /\ v.tcp[k.pcb] = "free" => v.unacked[k.pcb] = 0

\* What release_client changes.
LEMMA ReleaseFields ==
  ASSUME NEW w \in Worlds, NEW c \in Clients,
         w.clients[c].leased => w.queue # <<>>
  PROVE  LET v == release_client(w, c)
         IN  /\ v \in Worlds /\ Released(w, v, c)
             /\ v.tcp = w.tcp /\ v.arg = w.arg /\ v.unacked = w.unacked
             /\ v.peer = w.peer /\ v.aborted = w.aborted
<1> DEFINE k == w.clients[c]
           d == DownloadRelease(w, c)
           r == ReleaseChunk(d, c)
           v == release_client(w, c)
<1>1. /\ d \in Worlds /\ d.clients = w.clients /\ d.stream = w.stream
      /\ d.queue = w.queue /\ d.lent = w.lent /\ d.tail = w.tail
      /\ d.state = IF k.kind = "download" /\ w.downloading THEN "idle" ELSE w.state
      /\ d.downloading = IF k.kind = "download" THEN FALSE ELSE w.downloading
      /\ d.honest = IF k.kind = "download"
                      THEN Complete(k) <=> k.left = 0 /\ w.unacked[k.pcb] = 0
                      ELSE w.honest
      /\ d.ret = w.ret
      /\ d.tcp = w.tcp /\ d.arg = w.arg /\ d.unacked = w.unacked
      /\ d.peer = w.peer /\ d.aborted = w.aborted
  <2> DEFINE t == IF w.downloading THEN "idle" ELSE w.state
             h == Complete(k) <=> k.left = 0 /\ w.unacked[k.pcb] = 0
  <2>1. CASE k.kind = "download"
    <3>1. d = [w EXCEPT !.state = t, !.downloading = FALSE, !.honest = h]
      BY <2>1 DEF DownloadRelease
    <3>2. t \in {"idle", "reading", "ready", "closing"} /\ h \in BOOLEAN BY WorldTypes
    <3>3. t = IF k.kind = "download" /\ w.downloading THEN "idle" ELSE w.state
      BY <2>1
    <3>4. h = IF k.kind = "download"
                THEN Complete(k) <=> k.left = 0 /\ w.unacked[k.pcb] = 0
                ELSE w.honest
      BY <2>1
    <3> HIDE DEF t, h, d
    <3>5. /\ d \in Worlds /\ d.clients = w.clients /\ d.stream = w.stream
          /\ d.queue = w.queue /\ d.lent = w.lent /\ d.tail = w.tail /\ d.state = t
          /\ d.downloading = FALSE /\ d.honest = h /\ d.ret = w.ret
          /\ d.tcp = w.tcp /\ d.arg = w.arg /\ d.unacked = w.unacked
          /\ d.peer = w.peer /\ d.aborted = w.aborted
      BY <3>1, <3>2 DEF Worlds
    <3> QED BY <2>1, <3>3, <3>4, <3>5
  <2>2. CASE k.kind # "download" BY <2>2 DEF DownloadRelease
  <2> QED BY <2>1, <2>2
<1> HIDE DEF d
<1>2. /\ r \in Worlds /\ r.stream = d.stream /\ r.tail = d.tail
      /\ r.queue = IF k.leased THEN Tail(d.queue) ELSE d.queue
      /\ r.lent = IF k.leased THEN None ELSE d.lent
      /\ r.state = d.state /\ r.downloading = d.downloading /\ r.honest = d.honest
      /\ r.ret = d.ret /\ r.tcp = d.tcp /\ r.arg = d.arg /\ r.unacked = d.unacked
      /\ r.peer = d.peer /\ r.aborted = d.aborted
      /\ [r.clients EXCEPT ![c] = Empty] = [d.clients EXCEPT ![c] = Empty]
  <2>1. CASE k.leased
    <3> DEFINE e == [d.clients[c] EXCEPT !.leased = FALSE, !.part = 0]
               q == Tail(d.queue)
    <3>0. d.clients[c] \in Slot /\ d.clients[c].leased BY <1>1, <2>1, WorldTypes
    <3>1. r = [d EXCEPT !.queue = q, !.lent = None, !.clients = [@ EXCEPT ![c] = e]]
      <4> DEFINE g == d.clients
      <4>1. r = [d EXCEPT !.queue = Tail(@), !.lent = None,
                          !.clients[c].leased = FALSE, !.clients[c].part = 0]
        BY <3>0 DEF ReleaseChunk
      <4>2. g \in [Clients -> Slot] BY <1>1, WorldTypes
      <4>3. [[g EXCEPT ![c].leased = FALSE] EXCEPT ![c].part = 0] = [g EXCEPT ![c] = e]
        BY <4>2
      <4> QED BY ZenonT(60), <1>1, <4>1, <4>3 DEF Worlds
    <3>2. q \in Seq(Chunks) BY <1>1, <2>1, WorldTypes
    <3>3. e \in Slot
      <4>1. 0 \in 0 .. Parts BY Sizes
      <4> DEFINE g == d.clients[c]
      <4>2. g \in Slot BY <3>0
      <4> HIDE DEF g
      <4>3. [g EXCEPT !.leased = FALSE, !.part = 0] \in Slot BY <4>1, <4>2 DEF Slot
      <4> QED BY <4>3 DEF g
    <3> HIDE DEF e, q
    <3>4. [d.clients EXCEPT ![c] = e] \in [Clients -> Slot] BY <1>1, <3>3, WorldTypes
    <3>5. [[d.clients EXCEPT ![c] = e] EXCEPT ![c] = Empty] = [d.clients EXCEPT ![c] = Empty]
      BY <1>1, WorldTypes
    <3> HIDE DEF r
    <3>6. /\ r \in Worlds /\ r.clients = [d.clients EXCEPT ![c] = e]
          /\ r.stream = d.stream /\ r.tail = d.tail /\ r.queue = q /\ r.lent = None
          /\ r.state = d.state /\ r.downloading = d.downloading /\ r.honest = d.honest
          /\ r.ret = d.ret /\ r.tcp = d.tcp /\ r.arg = d.arg /\ r.unacked = d.unacked
          /\ r.peer = d.peer /\ r.aborted = d.aborted
      BY <1>1, <3>1, <3>2, <3>4 DEF Worlds
    <3> QED BY <2>1, <3>5, <3>6 DEF q
  <2>2. CASE ~k.leased
    <3>1. r = d BY <1>1, <2>2 DEF ReleaseChunk
    <3> QED BY <1>1, <2>2, <3>1
  <2> QED BY <2>1, <2>2
<1>3. Freed(w, c) = r BY DEF Freed, d
<1> HIDE DEF r
<1> DEFINE s == IF r.stream = c THEN None ELSE r.stream
<1>4. v = [r EXCEPT !.stream = s, !.clients = [@ EXCEPT ![c] = Empty]]
  BY <1>2, <1>3 DEF release_client, Worlds
<1>5. s \in Clients \cup {None} BY <1>2, WorldTypes
<1> HIDE DEF s
<1>6. [r.clients EXCEPT ![c] = Empty] \in [Clients -> Slot]
  BY <1>2, WorldTypes, EmptySlot
<1>7. /\ v \in Worlds /\ v.stream = s /\ v.clients = [r.clients EXCEPT ![c] = Empty]
      /\ v.queue = r.queue /\ v.lent = r.lent /\ v.tail = r.tail /\ v.state = r.state
      /\ v.downloading = r.downloading /\ v.honest = r.honest /\ v.ret = r.ret
      /\ v.tcp = r.tcp /\ v.arg = r.arg /\ v.unacked = r.unacked
      /\ v.peer = r.peer /\ v.aborted = r.aborted
  BY ZenonT(60), <1>2, <1>4, <1>5, <1>6 DEF Worlds
<1> HIDE DEF v
<1> QED BY <1>1, <1>2, <1>7 DEF Released, s, v

\* A slot that answers nothing any more, or whose answer is on its way, has no
\* units that are not accounted for.
LEMMA Settled ==
  ASSUME NEW w, NEW b \in Clients, Sound(w, b),
         w.clients[b].kind # "none" \/ w.clients[b].closing \/ w.clients[b].pcb = None
  PROVE  Sound(w, None)
BY Sizes DEF Sound, Counted

\* The slot that is being answered is allowed more.
LEMMA Busy == ASSUME NEW w, NEW b, Sound(w, None) PROVE Sound(w, b)
BY Sizes DEF Sound, Counted

\* Two slots never share a connection.
LEMMA Apart ==
  ASSUME NEW w \in Worlds, Attachments(w), NEW c \in Clients, NEW d \in Clients, d # c,
         w.clients[d].pcb # None
  PROVE  w.clients[d].pcb \in Pcbs \ {w.clients[c].pcb}
BY WorldTypes, SlotTypes DEF Attachments

\* What Sound says of w holds without the client of slot c.
LEMMA ReleasedIsSound ==
  ASSUME NEW w, NEW b, Sound(w, b), NEW v \in Worlds, NEW c \in Clients,
         Released(w, v, c), Loosened(w, v, c)
  PROVE  Sound(v, b)
<1> DEFINE k == w.clients[c]
<1>1. /\ w \in Worlds /\ Attachments(w) /\ Counted(w, b) /\ Streaming(w) /\ Downloads(w)
      /\ Framing(w) /\ w.honest
  BY DEF Sound
<1>2. /\ v.clients[c] = Empty
      /\ \A d \in Clients \ {c} : v.clients[d] = w.clients[d]
  BY <1>1, WorldTypes DEF Released
<1>3. k \in Slot /\ \A d \in Clients : w.clients[d] \in Slot BY <1>1, WorldTypes
<1>4. Attachments(v)
  <2>1. ASSUME NEW p \in Pcbs, NEW d \in Clients
        PROVE  v.clients[d].pcb = p <=> v.arg[p] = d
    <3>1. CASE p = k.pcb BY <1>1, <1>2, <2>1, <3>1, EmptySlot, Sizes DEF Loosened, Attachments
    <3>2. CASE p # k.pcb BY <1>1, <1>2, <2>1, <3>2, EmptySlot, Sizes DEF Loosened, Attachments
    <3> QED BY <3>1, <3>2
  <2>2. ASSUME NEW p \in Pcbs, v.arg[p] # None PROVE v.tcp[p] = "open"
    <3>1. p # k.pcb BY <2>2, Sizes DEF Loosened
    <3> QED BY <1>1, <2>2, <3>1 DEF Loosened, Attachments
  <2>3. ASSUME NEW p \in Pcbs, v.tcp[p] = "free" PROVE v.unacked[p] = 0
    <3>1. CASE p = k.pcb BY <2>3, <3>1, Sizes DEF Loosened
    <3>2. CASE p # k.pcb BY <1>1, <2>3, <3>2 DEF Loosened, Attachments
    <3> QED BY <3>1, <3>2
  <2> QED BY <2>1, <2>2, <2>3 DEF Attachments
<1>5. Counted(v, b)
  <2> SUFFICES ASSUME NEW d \in Clients
               PROVE  LET j == v.clients[d]
                      IN  /\ j.pcb = None => j.kind = "none"
                          /\ j.kind \in {"static", "download"}
                               => j.inflight = v.unacked[j.pcb] /\ j.left + j.inflight <= Length
                          /\ j.kind = "none" /\ ~j.closing /\ j.pcb # None /\ d # b
                               => v.unacked[j.pcb] = 0
                          /\ j.leased \/ j.head \/ j.synced => j.kind = "raw16"
    BY DEF Counted
  <2>1. CASE d = c BY <1>2, <2>1, EmptySlot
  <2>2. CASE d # c
    <3>1. v.clients[d] = w.clients[d] BY <1>2, <2>2
    <3>2. w.clients[d].pcb # None => v.unacked[w.clients[d].pcb] = w.unacked[w.clients[d].pcb]
      BY <1>1, <2>2, Apart DEF Loosened
    <3> QED BY <1>1, <3>1, <3>2 DEF Counted
  <2> QED BY <2>1, <2>2
<1>6. CASE w.stream = c
  <2>1. v.stream = None /\ k.kind = "raw16" /\ v.tail = w.tail
    BY <1>1, <1>6 DEF Released, Streaming
  <2>2. \A d \in Clients : v.clients[d].kind # "raw16" /\ ~v.clients[d].leased
    BY <1>1, <1>2, <1>6, EmptySlot DEF Streaming, Counted
  <2>3. v.lent = None BY <1>1, <1>6 DEF Released, Streaming
  <2>4. Streaming(v) BY <2>1, <2>2, <2>3, Sizes DEF Streaming
  <2>5. v.queue = w.queue \/ (v.queue = Tail(w.queue) /\ w.queue # <<>>)
    BY <1>1 DEF Released, Streaming
  <2>6. Chained(v)
    <3>1. CASE v.queue = w.queue BY <1>1, <2>1, <3>1 DEF Framing, Chained
    <3>2. CASE v.queue = Tail(w.queue) /\ w.queue # <<>>
      <4>1. w.queue \in Seq(Chunks) BY <1>1, WorldTypes
      <4>2. /\ v.queue \in Seq(Chunks) /\ Len(v.queue) = Len(w.queue) - 1
            /\ \A i \in 1 .. Len(v.queue) : v.queue[i] = w.queue[i + 1]
        BY <3>2, <4>1
      <4>3. Len(v.queue) <= Depth BY <1>1, <4>1, <4>2, Sizes DEF Framing, Chained
      <4>4. ASSUME NEW i \in 1 .. Len(v.queue) - 1
            PROVE  \/ v.queue[i + 1].off = 0
                   \/ /\ v.queue[i].seq = v.queue[i + 1].seq
                      /\ v.queue[i].off = v.queue[i + 1].off - 1
        <5>1. /\ i + 1 \in 1 .. Len(w.queue) - 1
              /\ i \in 1 .. Len(v.queue) /\ i + 1 \in 1 .. Len(v.queue)
          BY <4>1, <4>2
        <5>2. v.queue[i] = w.queue[i + 1] /\ v.queue[i + 1] = w.queue[(i + 1) + 1]
          BY <4>2, <5>1
        <5> QED BY <1>1, <5>1, <5>2 DEF Framing, Chained
      <4>5. v.queue # <<>> => v.queue[Len(v.queue)] = w.queue[Len(w.queue)]
        <5>1. v.queue # <<>> => Len(v.queue) \in 1 .. Len(v.queue)
          BY <4>1, <4>2
        <5>2. v.queue # <<>> => v.queue[Len(v.queue)] = w.queue[Len(v.queue) + 1]
          BY <4>2, <5>1
        <5>3. Len(v.queue) + 1 = Len(w.queue) BY <4>1, <4>2
        <5> QED BY <5>2, <5>3
      <4> QED BY <1>1, <2>1, <3>2, <4>3, <4>4, <4>5 DEF Framing, Chained
    <3> QED BY <2>5, <3>1, <3>2
  <2> HIDE DEF k
  <2>7. ASSUME NEW p \in Pcbs PROVE v.peer[p] # Broken
    BY <1>1, Sizes DEF Loosened, Framing
  <2>8. Framing(v) BY <2>1, <2>6, <2>7 DEF Framing
  <2>9. k.kind # "download" BY <2>1
  <2>10. v.state = w.state /\ v.downloading = w.downloading /\ v.honest = w.honest
    BY <2>9 DEF Released, k
  <2>11. Downloads(v)
    BY <1>1, <1>2, <2>9, <2>10, EmptySlot DEF Downloads, k
  <2> QED BY <1>1, <1>4, <1>5, <2>4, <2>8, <2>10, <2>11 DEF Sound
<1>7. CASE w.stream # c
  <2>1. k.kind # "raw16" /\ ~k.leased BY <1>1, <1>7 DEF Streaming, Counted
  <2>2. v.stream = w.stream /\ v.queue = w.queue /\ v.lent = w.lent /\ v.tail = w.tail
    BY <1>7, <2>1 DEF Released
  <2>3. v.stream # None => v.stream \in Clients \ {c} BY <1>1, <1>7, <2>2, WorldTypes
  <2>4. w.stream # None => v.state = "idle" BY <1>1 DEF Released, Streaming
  <2>5. Streaming(v)
    BY <1>1, <1>2, <1>7, <2>2, <2>3, <2>4, EmptySlot DEF Streaming
  <2>6. Framing(v)
    <3>1. Chained(v) BY <1>1, <2>2 DEF Framing, Chained
    <3>2. \A p \in Pcbs : v.peer[p] # Broken BY <1>1, Sizes DEF Loosened, Framing
    <3>3. ASSUME v.stream # None PROVE Framed(v, v.clients[v.stream])
      <4>1. v.clients[v.stream] = w.clients[w.stream] BY <1>2, <2>2, <2>3, <3>3
      <4>2. w.clients[w.stream].pcb # None
        BY <1>1, <2>2, <2>3, <3>3, WorldTypes DEF Streaming, Counted
      <4>3. v.peer[w.clients[w.stream].pcb] = w.peer[w.clients[w.stream].pcb]
        BY <1>1, <2>2, <2>3, <3>3, <4>2, Apart DEF Loosened
      <4> QED BY ZenonT(60), <1>1, <2>2, <3>3, <4>1, <4>3 DEF Framing, Framed
    <3> QED BY <3>1, <3>2, <3>3 DEF Framing
  <2>7. Downloads(v) /\ v.honest
    <3>1. CASE k.kind = "download"
      <4>1. /\ v.downloading = FALSE
            /\ v.honest = (Complete(k) <=> k.left = 0 /\ w.unacked[k.pcb] = 0)
        BY <3>1 DEF Released
      <4>2. \A d \in Clients : v.clients[d].kind # "download"
        BY <1>1, <1>2, <3>1, EmptySlot DEF Downloads
      <4>3. k.inflight = w.unacked[k.pcb] BY <1>1, <3>1 DEF Counted
      <4> QED BY <4>1, <4>2, <4>3 DEF Downloads, Complete
    <3>2. CASE k.kind # "download"
      <4>1. v.state = w.state /\ v.downloading = w.downloading /\ v.honest = w.honest
        BY <3>2 DEF Released
      <4>2. \A d \in Clients : v.clients[d].kind = "download" <=> w.clients[d].kind = "download"
        BY <1>2, <3>2, EmptySlot
      <4> QED BY <1>1, <4>1, <4>2 DEF Downloads
    <3> QED BY <3>1, <3>2
  <2> QED BY <1>1, <1>4, <1>5, <2>5, <2>6, <2>7 DEF Sound
<1> QED BY <1>6, <1>7

\* What freeing a connection changes.
LEMMA DeadFields ==
  ASSUME NEW w \in Worlds, NEW p \in Pcbs
  PROVE  LET v == Dead(w, p)
         IN  /\ v \in Worlds
             /\ v.clients = w.clients /\ v.stream = w.stream /\ v.queue = w.queue
             /\ v.lent = w.lent /\ v.tail = w.tail /\ v.state = w.state
             /\ v.downloading = w.downloading /\ v.honest = w.honest
             /\ v.aborted = w.aborted /\ v.ret = w.ret
             /\ v.arg[p] = None /\ v.peer[p] = None /\ v.unacked[p] = 0
             /\ \A q \in Pcbs \ {p} :
                  /\ v.arg[q] = w.arg[q] /\ v.tcp[q] = w.tcp[q]
                  /\ v.unacked[q] = w.unacked[q] /\ v.peer[q] = w.peer[q]
<1> DEFINE t == [w.tcp EXCEPT ![p] = "free"]
           a == [w.arg EXCEPT ![p] = None]
           u == [w.unacked EXCEPT ![p] = 0]
           e == [w.peer EXCEPT ![p] = None]
           v == [w EXCEPT !.tcp = t, !.arg = a, !.unacked = u, !.peer = e]
<1>1. Dead(w, p) = v BY DEF Dead, Worlds
<1>2. /\ t \in [Pcbs -> {"free", "open", "closing"}] /\ a \in [Pcbs -> Clients \cup {None}]
      /\ u \in [Pcbs -> 0 .. SndBuf] /\ e \in [Pcbs -> Heads]
  BY WorldTypes, Sizes DEF Heads
<1>3. /\ a[p] = None /\ e[p] = None /\ u[p] = 0
      /\ \A q \in Pcbs \ {p} : /\ a[q] = w.arg[q] /\ t[q] = w.tcp[q]
                               /\ u[q] = w.unacked[q] /\ e[q] = w.peer[q]
  BY WorldTypes
<1> HIDE DEF t, a, u, e
<1>4. /\ v \in Worlds /\ v.tcp = t /\ v.arg = a /\ v.unacked = u /\ v.peer = e
      /\ v.clients = w.clients /\ v.stream = w.stream /\ v.queue = w.queue
      /\ v.lent = w.lent /\ v.tail = w.tail /\ v.state = w.state
      /\ v.downloading = w.downloading /\ v.honest = w.honest
      /\ v.aborted = w.aborted /\ v.ret = w.ret
  BY <1>2 DEF Worlds
<1> HIDE DEF v
<1> QED BY <1>1, <1>3, <1>4

\* Fields of no consequence.
LEMMA Alike ==
  ASSUME NEW w, NEW b, Sound(w, b), NEW v \in Worlds,
         v.clients = w.clients, v.stream = w.stream, v.tcp = w.tcp, v.arg = w.arg,
         v.unacked = w.unacked, v.peer = w.peer, v.queue = w.queue, v.lent = w.lent,
         v.tail = w.tail, v.state = w.state, v.downloading = w.downloading,
         v.honest = w.honest
  PROVE  Sound(v, b)
<1>1. Attachments(v) BY DEF Sound, Attachments
<1>2. Counted(v, b) BY DEF Sound, Counted
<1>3. Streaming(v) BY DEF Sound, Streaming
<1>4. Downloads(v) BY DEF Sound, Downloads
<1>5. Chained(v) BY DEF Sound, Framing, Chained
<1>6. v.stream # None => Framed(v, v.clients[v.stream]) BY ZenonT(60) DEF Sound, Framing, Framed
<1>7. Framing(v) BY <1>5, <1>6 DEF Sound, Framing
<1> QED BY <1>1, <1>2, <1>3, <1>4, <1>7 DEF Sound

\* abort_client: the slot is empty, its connection aborted.
LEMMA AbortFields ==
  ASSUME NEW w, NEW b, Sound(w, b), NEW c \in Clients
  PROVE  LET v == abort_client(w, c)
         IN  /\ Sound(v, b)
             /\ v.clients = [w.clients EXCEPT ![c] = Empty] /\ v.ret = w.ret
             /\ v.aborted = w.aborted \cup ({w.clients[c].pcb} \ {None})
<1> DEFINE p == w.clients[c].pcb
           r == release_client(w, c)
<1>1. w \in Worlds /\ (w.clients[c].leased => w.queue # <<>>)
  BY DEF Sound, Streaming
<1>2. /\ r \in Worlds /\ Released(w, r, c)
      /\ r.tcp = w.tcp /\ r.arg = w.arg /\ r.unacked = w.unacked
      /\ r.peer = w.peer /\ r.aborted = w.aborted
  BY <1>1, ReleaseFields
<1>3. r.clients = [w.clients EXCEPT ![c] = Empty] /\ r.ret = w.ret BY <1>2 DEF Released
<1>4. p \in Pcbs \cup {None} BY <1>1, WorldTypes, SlotTypes
<1> HIDE DEF r
<1>5. CASE p = None
  <2>1. abort_client(w, c) = r BY <1>5 DEF abort_client, r
  <2>2. Loosened(w, r, c) BY <1>2, <1>5 DEF Loosened
  <2>3. Sound(r, b) BY <1>2, <2>2, ReleasedIsSound
  <2> QED BY <1>2, <1>3, <1>5, <2>1, <2>3
<1>6. CASE p # None
  <2> DEFINE d == Dead(r, p)
             v == [d EXCEPT !.aborted = @ \cup {p}]
             A == d.aborted \cup {p}
  <2>1. abort_client(w, c) = v BY <1>6 DEF abort_client, r
  <2>2. /\ d \in Worlds
        /\ d.clients = r.clients /\ d.stream = r.stream /\ d.queue = r.queue
        /\ d.lent = r.lent /\ d.tail = r.tail /\ d.state = r.state
        /\ d.downloading = r.downloading /\ d.honest = r.honest
        /\ d.aborted = r.aborted /\ d.ret = r.ret
        /\ d.arg[p] = None /\ d.peer[p] = None /\ d.unacked[p] = 0
        /\ \A q \in Pcbs \ {p} :
             /\ d.arg[q] = r.arg[q] /\ d.tcp[q] = r.tcp[q]
             /\ d.unacked[q] = r.unacked[q] /\ d.peer[q] = r.peer[q]
    BY <1>2, <1>4, <1>6, DeadFields
  <2> HIDE DEF d
  <2>3. Loosened(w, d, c)
    <3>1. d.peer[p] # Broken BY <2>2, Sizes
    <3>2. \A q \in Pcbs \ {p} :
            /\ d.arg[q] = w.arg[q] /\ d.tcp[q] = w.tcp[q]
            /\ d.unacked[q] = w.unacked[q] /\ d.peer[q] = w.peer[q]
      BY <1>2, <2>2
    <3> QED BY <2>2, <3>1, <3>2 DEF Loosened
  <2>4. Released(w, d, c) BY <1>2, <2>2 DEF Released
  <2>5. Sound(d, b) BY <2>2, <2>3, <2>4, ReleasedIsSound
  <2>6. A \in SUBSET Pcbs /\ d.ret \in {"ERR_OK", "ERR_ABRT"}
    BY <1>4, <1>6, <2>2, WorldTypes
  <2>7. v = [d EXCEPT !.aborted = A] BY <2>2 DEF Worlds
  <2> HIDE DEF A
  <2>8. /\ v \in Worlds /\ v.clients = d.clients /\ v.stream = d.stream /\ v.tcp = d.tcp
        /\ v.arg = d.arg /\ v.unacked = d.unacked /\ v.peer = d.peer /\ v.queue = d.queue
        /\ v.lent = d.lent /\ v.tail = d.tail /\ v.state = d.state
        /\ v.downloading = d.downloading /\ v.honest = d.honest
        /\ v.aborted = A /\ v.ret = d.ret
    BY <2>2, <2>6, <2>7 DEF Worlds
  <2> HIDE DEF v
  <2>9. Sound(v, b) BY <2>5, <2>8, Alike
  <2> QED BY <1>2, <1>3, <1>6, <2>1, <2>2, <2>8, <2>9 DEF A
<1> QED BY <1>5, <1>6

\* The slots that AbortThose aborts, one after another.
LEMMA AbortThoseByStep ==
  ASSUME NEW w, NEW S
  PROVE \E g : /\ g = [c \in 0 .. N |-> IF c = 0 THEN w
                         ELSE IF c \in S THEN abort_client(g[c - 1], c) ELSE g[c - 1]]
               /\ AbortThose(w, S) = g[N]
<1> DEFINE Steps(g, n) == g = [c \in 0 .. n |-> IF c = 0 THEN w
                         ELSE IF c \in S THEN abort_client(g[c - 1], c) ELSE g[c - 1]]
           X == {n \in Nat : \E g : Steps(g, n)}
<1>1. 0 \in X
  <2> DEFINE h == [c \in 0 .. 0 |-> w]
  <2>1. Steps(h, 0) OBVIOUS
  <2> HIDE DEF Steps
  <2> QED BY <2>1
<1>2. ASSUME NEW n \in Nat, n \in X PROVE n + 1 \in X
  <2>1. PICK g : Steps(g, n) BY <1>2
  <2> DEFINE y == IF n + 1 \in S THEN abort_client(g[n], n + 1) ELSE g[n]
             h == [c \in 0 .. n + 1 |-> IF c = n + 1 THEN y ELSE g[c]]
  <2>2. Steps(h, n + 1)
    <3> SUFFICES ASSUME NEW c \in 0 .. n + 1
          PROVE h[c] = IF c = 0 THEN w
                         ELSE IF c \in S THEN abort_client(h[c - 1], c) ELSE h[c - 1]
      OBVIOUS
    <3>1. CASE c = 0 BY <2>1, <3>1
    <3>2. CASE c # 0
      <4>1. c - 1 \in 0 .. n + 1 /\ c - 1 # n + 1 /\ c - 1 \in 0 .. n BY <3>2
      <4>2. h[c - 1] = g[c - 1] BY <4>1
      <4>3. CASE c = n + 1
        <5>1. c - 1 = n BY <4>3
        <5>2. h[c] = y BY <4>3
        <5> HIDE DEF h
        <5> QED BY <3>2, <4>2, <4>3, <5>1, <5>2
      <4>4. CASE c # n + 1
        <5>1. c \in 0 .. n /\ h[c] = g[c] BY <4>4
        <5> HIDE DEF h
        <5> QED BY <2>1, <3>2, <4>2, <5>1
      <4> QED BY <4>3, <4>4
    <3> QED BY <3>1, <3>2
  <2> HIDE DEF Steps, h
  <2> QED BY <2>2
<1>3. N \in X
  <2> HIDE DEF X
  <2> QED BY <1>1, <1>2, SetInduction, Sizes
<1> DEFINE f == CHOOSE g : Steps(g, N)
<1>4. AbortThose(w, S) = f[N] BY DEF AbortThose
<1>5. Steps(f, N)
  <2> HIDE DEF Steps
  <2> QED BY <1>3
<1> HIDE DEF f
<1> QED BY <1>4, <1>5

\* Aborting some of the slots frees those and no other, and leaves the rest sound.
LEMMA AbortThoseFields ==
  ASSUME NEW w, NEW b, Sound(w, b), NEW S \in SUBSET Clients
  PROVE  LET v == AbortThose(w, S)
         IN  /\ Sound(v, b) /\ v.ret = w.ret
             /\ \A d \in Clients : v.clients[d] = IF d \in S THEN Empty ELSE w.clients[d]
             /\ \A p \in Pcbs : p \in v.aborted
                  <=> p \in w.aborted \/ \E d \in S : w.clients[d].pcb = p
<1>1. PICK g : /\ g = [c \in 0 .. N |-> IF c = 0 THEN w
                         ELSE IF c \in S THEN abort_client(g[c - 1], c) ELSE g[c - 1]]
               /\ AbortThose(w, S) = g[N]
  BY AbortThoseByStep
<1> DEFINE Good(n) ==
             /\ Sound(g[n], b) /\ g[n].ret = w.ret
             /\ \A d \in Clients : g[n].clients[d] = IF d \in S /\ d <= n THEN Empty
                                                   ELSE w.clients[d]
             /\ \A p \in Pcbs : p \in g[n].aborted
                  <=> p \in w.aborted \/ \E d \in S : d <= n /\ w.clients[d].pcb = p
           X == {n \in Nat : n <= N => Good(n)}
<1>2. 0 \in X
  <2>1. g[0] = w BY <1>1, Sizes
  <2>2. \A d \in Clients : ~(d <= 0) BY Sizes DEF Clients
  <2> QED BY <2>1, <2>2
<1>3. ASSUME NEW n \in Nat, n \in X PROVE n + 1 \in X
  <2> SUFFICES ASSUME n + 1 <= N PROVE Good(n + 1) OBVIOUS
  <2>1. Good(n) BY <1>3, Sizes
  <2>2. n + 1 \in Clients /\ n + 1 \in 0 .. N /\ (n + 1) - 1 = n BY Sizes DEF Clients
  <2>3. g[n + 1] = IF n + 1 \in S THEN abort_client(g[n], n + 1) ELSE g[n]
    BY <1>1, <2>2, Sizes
  <2>4. \A d \in Clients : d <= n + 1 <=> d <= n \/ d = n + 1 BY DEF Clients
  <2>5. ~(n + 1 <= n) OBVIOUS
  <2>6. CASE n + 1 \in S
    <3> DEFINE v == abort_client(g[n], n + 1)
    <3>1. /\ Sound(v, b) /\ v.ret = g[n].ret
          /\ v.clients = [g[n].clients EXCEPT ![n + 1] = Empty]
          /\ v.aborted = g[n].aborted \cup ({g[n].clients[n + 1].pcb} \ {None})
      BY <2>1, <2>2, AbortFields
    <3>2. g[n + 1] = v BY <2>3, <2>6
    <3> HIDE DEF v
    <3>3. g[n].clients \in [Clients -> Slot] BY <2>1, WorldTypes DEF Sound
    <3>4. ASSUME NEW d \in Clients
          PROVE  v.clients[d] = IF d \in S /\ d <= n + 1 THEN Empty ELSE w.clients[d]
      BY <2>1, <2>2, <2>4, <2>6, <3>1, <3>3
    <3>5. ASSUME NEW p \in Pcbs
          PROVE  p \in v.aborted
                   <=> p \in w.aborted \/ \E d \in S : d <= n + 1 /\ w.clients[d].pcb = p
      <4>1. g[n].clients[n + 1] = w.clients[n + 1] BY <2>1, <2>2, <2>5
      <4>2. p \in v.aborted <=> p \in g[n].aborted \/ w.clients[n + 1].pcb = p
        BY <3>1, <4>1, Sizes
      <4>3. (\E d \in S : d <= n + 1 /\ w.clients[d].pcb = p)
              <=> w.clients[n + 1].pcb = p \/ \E d \in S : d <= n /\ w.clients[d].pcb = p
        BY <2>4, <2>6
      <4> QED BY <2>1, <4>2, <4>3
    <3> QED BY <2>1, <3>1, <3>2, <3>4, <3>5
  <2>7. CASE n + 1 \notin S
    <3>1. g[n + 1] = g[n] BY <2>3, <2>7
    <3>2. \A d \in S : d <= n + 1 <=> d <= n BY <2>4, <2>7
    <3> QED BY <2>1, <2>4, <2>7, <3>1, <3>2
  <2> QED BY <2>6, <2>7
<1>4. Nat \subseteq X
  <2> HIDE DEF X
  <2> QED BY <1>2, <1>3, SetInduction
<1>5. Good(N) BY <1>4, Sizes
<1>6. \A d \in Clients : d <= N BY Sizes DEF Clients
<1> QED BY <1>1, <1>5, <1>6

-----------------------------------------------------------------------------
(* Serving a client.                                                         *)

\* A handler of connection p, that of slot c, is at work ...
Serving(w, b, c, p) ==
  Sound(w, b) /\ w.clients[c].pcb = p /\ p \notin w.aborted /\ w.ret = "ERR_OK"
\* ... and has done: it reports an abort of p, as long as tcp_output does not
\* hide one, and while p is still there it can go on.
Served(v, c, p) ==
  /\ Sound(v, None)
  /\ v.clients[c].pcb # None => Serving(v, None, c, p)
  /\ "deselect_mem" \notin OutputResults => (p \in v.aborted <=> v.ret = "ERR_ABRT")

\* A handler that has done nothing yet may return.
LEMMA StillServed ==
  ASSUME NEW w, NEW c, NEW p, Serving(w, None, c, p)
  PROVE  Served(w, c, p)
BY DEF Served, Serving

\* abort_client(client); return ERR_ABRT;
LEMMA AbortReturnServes ==
  ASSUME NEW w, NEW c \in Clients, NEW p \in Pcbs, NEW b \in {None, c}, Sound(w, b),
         w.clients[c].pcb = p \/ p \in w.aborted
  PROVE  LET v == AbortReturn(w, c) IN Served(v, c, p) /\ v.clients[c] = Empty
<1> DEFINE a == abort_client(w, c)
           v == [a EXCEPT !.ret = "ERR_ABRT"]
<1>1. /\ Sound(a, b) /\ a.clients = [w.clients EXCEPT ![c] = Empty] /\ a.ret = w.ret
      /\ a.aborted = w.aborted \cup ({w.clients[c].pcb} \ {None})
  BY AbortFields
<1>2. AbortReturn(w, c) = v BY DEF AbortReturn
<1> HIDE DEF a
<1>3. /\ v \in Worlds /\ v.clients = a.clients /\ v.stream = a.stream /\ v.tcp = a.tcp
      /\ v.arg = a.arg /\ v.unacked = a.unacked /\ v.peer = a.peer /\ v.queue = a.queue
      /\ v.lent = a.lent /\ v.tail = a.tail /\ v.state = a.state
      /\ v.downloading = a.downloading /\ v.honest = a.honest
      /\ v.aborted = a.aborted /\ v.ret = "ERR_ABRT"
  BY <1>1 DEF Sound, Worlds
<1> HIDE DEF v
<1>4. Sound(v, b) BY <1>1, <1>3, Alike
<1>5. v.clients[c] = Empty BY <1>1, <1>3, WorldTypes DEF Sound
<1>6. Sound(v, None)
  <2>1. CASE b = None BY <1>4, <2>1
  <2>2. CASE b = c BY <1>4, <1>5, <2>2, EmptySlot, Settled
  <2> QED BY <2>1, <2>2
<1>7. p \in v.aborted BY <1>1, <1>3, Sizes
<1> QED BY <1>2, <1>3, <1>5, <1>6, <1>7, EmptySlot DEF Served

\* tcp_output goes well, or the client is gone.
LEMMA OutputServes ==
  ASSUME NEW w, NEW c \in Clients, NEW p \in Pcbs, NEW b \in {None, c}, Serving(w, b, c, p),
         NEW x, x.out \in OutputResults
  PROVE  LET v == Output(w, c, x)
         IN  \/ x.out = "ok" /\ v = w
             \/ x.out # "ok" /\ Served(v, c, p) /\ v.clients[c] = Empty
<1> DEFINE v == Output(w, c, x)
           a == AbortThose(w, Clients)
<1>1. x.out \in {"ok", "fail", "deselect_fail", "deselect_mem"} BY ClientAssumption
<1>2. CASE x.out = "ok" BY <1>2 DEF Output
<1>3. CASE x.out = "fail"
  <2>1. v = AbortReturn(w, c) BY <1>3 DEF Output
  <2> HIDE DEF v
  <2>2. Served(v, c, p) /\ v.clients[c] = Empty BY <2>1, AbortReturnServes DEF Serving
  <2> QED BY <1>3, <2>2 DEF v
<1>4. /\ Sound(a, b) /\ a.ret = w.ret /\ a.clients[c] = Empty
      /\ p \in a.aborted
  BY AbortThoseFields DEF Serving
<1>5. CASE x.out = "deselect_fail"
  <2>1. v = AbortReturn(a, c) BY <1>5 DEF Output
  <2> HIDE DEF v, a
  <2>2. Served(v, c, p) /\ v.clients[c] = Empty BY <1>4, <2>1, AbortReturnServes
  <2> QED BY <1>5, <2>2 DEF v
<1>6. CASE x.out = "deselect_mem"
  <2>1. v = a BY <1>6 DEF Output
  <2> HIDE DEF v, a
  <2>2. Sound(v, None)
    <3>1. CASE b = None BY <1>4, <2>1, <3>1
    <3>2. CASE b = c BY <1>4, <2>1, <3>2, EmptySlot, Settled
    <3> QED BY <3>1, <3>2
  <2>3. Served(v, c, p) BY <1>4, <1>6, <2>1, <2>2, EmptySlot DEF Served
  <2> QED BY <1>4, <1>6, <2>1, <2>3 DEF v
<1> QED BY <1>1, <1>2, <1>3, <1>5, <1>6

\* A slot changes, in what a stream does not depend on, and the units of its
\* connection with it.
Reslotted(w, v, b, c, k) ==
  LET old == w.clients[c]
      p == old.pcb
  IN  /\ v.clients = [w.clients EXCEPT ![c] = k]
      /\ \A q \in Pcbs \ {p} : v.unacked[q] = w.unacked[q]
      /\ k.pcb = p /\ (k.kind = "raw16" <=> old.kind = "raw16")
      /\ k.head = old.head /\ k.leased = old.leased /\ k.part = old.part
      /\ k.synced = old.synced
      /\ p = None => k.kind = "none"
      /\ k.kind \in {"static", "download"}
           => k.inflight = v.unacked[p] /\ k.left + k.inflight <= Length
      /\ k.kind = "none" /\ ~k.closing /\ p # None /\ c # b => v.unacked[p] = 0
      /\ v.stream = w.stream /\ v.tcp = w.tcp /\ v.arg = w.arg /\ v.peer = w.peer
      /\ v.queue = w.queue /\ v.lent = w.lent /\ v.tail = w.tail /\ v.state = w.state
      /\ v.honest = w.honest

\* Counting the units of a response differently keeps a world sound.
LEMMA ReslottedIsSound ==
  ASSUME NEW w, NEW b, Sound(w, b), NEW v \in Worlds, NEW c \in Clients, NEW k,
         Reslotted(w, v, b, c, k), Downloads(v)
  PROVE  Sound(v, b)
<1> DEFINE old == w.clients[c]
<1>1. /\ w \in Worlds /\ Attachments(w) /\ Counted(w, b) /\ Streaming(w)
      /\ Framing(w) /\ w.honest
  BY DEF Sound
<1>2. v.clients[c] = k /\ \A d \in Clients \ {c} : v.clients[d] = w.clients[d]
  BY <1>1, WorldTypes DEF Reslotted
<1>3. /\ v.stream = w.stream /\ v.tcp = w.tcp /\ v.arg = w.arg /\ v.peer = w.peer
      /\ v.queue = w.queue /\ v.lent = w.lent /\ v.tail = w.tail /\ v.state = w.state
      /\ v.honest = w.honest
  BY DEF Reslotted
<1>4. /\ k.pcb = old.pcb /\ (k.kind = "raw16" <=> old.kind = "raw16")
      /\ k.head = old.head /\ k.leased = old.leased /\ k.part = old.part
      /\ k.synced = old.synced
  BY DEF Reslotted
<1>5. \A d \in Clients :
        /\ v.clients[d].pcb = w.clients[d].pcb
        /\ (v.clients[d].kind = "raw16" <=> w.clients[d].kind = "raw16")
        /\ v.clients[d].head = w.clients[d].head
        /\ v.clients[d].leased = w.clients[d].leased
        /\ v.clients[d].part = w.clients[d].part
        /\ v.clients[d].synced = w.clients[d].synced
  BY <1>2, <1>4
<1>6. Attachments(v)
  <2>1. ASSUME NEW q \in Pcbs, v.tcp[q] = "free" PROVE v.unacked[q] = 0
    <3>1. q # old.pcb BY <1>1, <1>3, <2>1, Sizes DEF Attachments
    <3> QED BY <1>1, <1>3, <2>1, <3>1 DEF Reslotted, Attachments
  <2> QED BY <1>1, <1>3, <1>5, <2>1 DEF Attachments
<1>7. Counted(v, b)
  <2> SUFFICES ASSUME NEW d \in Clients
               PROVE  LET j == v.clients[d]
                      IN  /\ j.pcb = None => j.kind = "none"
                          /\ j.kind \in {"static", "download"}
                               => j.inflight = v.unacked[j.pcb] /\ j.left + j.inflight <= Length
                          /\ j.kind = "none" /\ ~j.closing /\ j.pcb # None /\ d # b
                               => v.unacked[j.pcb] = 0
                          /\ j.leased \/ j.head \/ j.synced => j.kind = "raw16"
    BY DEF Counted
  <2>1. CASE d = c
    <3>1. k.leased \/ k.head \/ k.synced => k.kind = "raw16" BY <1>1, <1>4 DEF Counted
    <3> QED BY <1>2, <2>1, <3>1 DEF Reslotted
  <2>2. CASE d # c
    <3>1. v.clients[d] = w.clients[d] BY <1>2, <2>2
    <3>2. w.clients[d].pcb # None => v.unacked[w.clients[d].pcb] = w.unacked[w.clients[d].pcb]
      BY <1>1, <2>2, Apart DEF Reslotted
    <3> QED BY <1>1, <3>1, <3>2 DEF Counted
  <2> QED BY <2>1, <2>2
<1> HIDE DEF old
<1>8. Streaming(v)
  <2>1. \A d \in Clients : v.stream = d <=> v.clients[d].kind = "raw16"
    BY <1>1, <1>3, <1>5 DEF Streaming
  <2>2. v.lent # None => v.stream # None /\ v.clients[v.stream].leased
    <3>1. w.lent # None => w.stream \in Clients /\ w.clients[w.stream].leased
      BY <1>1, WorldTypes DEF Streaming
    <3> QED BY <1>3, <1>5, <3>1, Sizes
  <2>3. ASSUME NEW d \in Clients, v.clients[d].leased
        PROVE  v.queue # <<>> /\ v.lent # None /\ v.lent = v.queue[1]
    BY <1>1, <1>3, <1>5, <2>3 DEF Streaming
  <2>4. v.stream # None => v.state = "idle" BY <1>1, <1>3 DEF Streaming
  <2> QED BY <2>1, <2>2, <2>3, <2>4 DEF Streaming
<1>9. Framing(v)
  <2>1. Chained(v) BY <1>1, <1>3 DEF Framing, Chained
  <2>2. ASSUME v.stream # None PROVE Framed(v, v.clients[v.stream])
    <3>1. w.stream \in Clients BY <1>1, <1>3, <2>2, WorldTypes
    <3>2. Framed(w, w.clients[w.stream]) BY <1>1, <1>3, <2>2 DEF Framing
    <3> DEFINE i == v.clients[w.stream]
               j == w.clients[w.stream]
    <3>3. /\ i.pcb = j.pcb /\ i.head = j.head /\ i.leased = j.leased
          /\ i.part = j.part /\ i.synced = j.synced
      BY <1>5, <3>1
    <3> HIDE DEF i, j
    <3>4. Framed(w, j) BY <3>2 DEF j
    <3>5. Framed(v, i) BY <1>3, <3>3, <3>4 DEF Framed
    <3> QED BY <1>3, <3>5 DEF i
  <2> QED BY <1>1, <1>3, <2>1, <2>2 DEF Framing
<1> QED BY <1>1, <1>3, <1>6, <1>7, <1>8, <1>9 DEF Sound

\* client->closing = 1;
LEMMA ClosingIsSound ==
  ASSUME NEW w, NEW c \in Clients, NEW b \in {None, c}, Sound(w, b)
  PROVE  LET v == [w EXCEPT !.clients[c].closing = TRUE]
         IN  /\ Sound(v, None)
             /\ v.clients[c] = [w.clients[c] EXCEPT !.closing = TRUE]
             /\ v.clients[c].pcb = w.clients[c].pcb
             /\ v.aborted = w.aborted /\ v.ret = w.ret
<1> DEFINE old == w.clients[c]
           k == [old EXCEPT !.closing = TRUE]
           g == [w.clients EXCEPT ![c] = k]
           v == [w EXCEPT !.clients[c].closing = TRUE]
           p == old.pcb
<1>1. w \in Worlds /\ Counted(w, b) /\ Downloads(w) BY DEF Sound
<1>2. old \in Slot BY <1>1, WorldTypes
<1> HIDE DEF old
<1>3. /\ k \in Slot /\ k.closing /\ k.pcb = p /\ k.kind = old.kind /\ k.head = old.head
      /\ k.leased = old.leased /\ k.part = old.part /\ k.synced = old.synced
      /\ k.left = old.left /\ k.inflight = old.inflight
  BY <1>2 DEF Slot
<1> HIDE DEF p
<1>4. v = [w EXCEPT !.clients = g] BY <1>1 DEF Worlds, old
<1> HIDE DEF k
<1>5. g \in [Clients -> Slot] /\ g[c] = k /\ \A d \in Clients \ {c} : g[d] = w.clients[d]
  BY <1>1, <1>3, WorldTypes
<1> HIDE DEF v
<1>6. /\ v \in Worlds /\ v.clients = g /\ v.unacked = w.unacked
      /\ v.downloading = w.downloading
      /\ v.stream = w.stream /\ v.tcp = w.tcp /\ v.arg = w.arg /\ v.peer = w.peer
      /\ v.queue = w.queue /\ v.lent = w.lent /\ v.tail = w.tail
      /\ v.state = w.state /\ v.honest = w.honest /\ v.aborted = w.aborted
      /\ v.ret = w.ret
  BY <1>1, <1>4, <1>5 DEF Worlds, g
<1>7. /\ p = None => old.kind = "none"
      /\ old.kind \in {"static", "download"}
           => old.inflight = w.unacked[p] /\ old.left + old.inflight <= Length
  BY <1>1 DEF Counted, old, p
<1>8. Reslotted(w, v, b, c, k) BY <1>3, <1>6, <1>7 DEF Reslotted, old, p
<1>9. \A d \in Clients : g[d].kind = w.clients[d].kind BY <1>3, <1>5 DEF old
<1> HIDE DEF g
<1>10. Downloads(v) BY <1>1, <1>6, <1>9 DEF Downloads
<1>11. Sound(v, b) BY <1>6, <1>8, <1>10, ReslottedIsSound
<1>12. Sound(v, None)
  <2>1. CASE b = None BY <1>11, <2>1
  <2>2. CASE b = c BY <1>3, <1>5, <1>6, <1>11, <2>2, Settled
  <2> QED BY <2>1, <2>2
<1> QED BY <1>3, <1>5, <1>6, <1>12 DEF v, k, old, p

\* close_client keeps the contract, whether lwIP has memory for the end or not.
LEMMA CloseServes ==
  ASSUME NEW w, NEW c \in Clients, NEW p \in Pcbs, NEW b \in {None, c},
         Serving(w, b, c, p), NEW x
  PROVE  Served(close_client(w, c, x), c, p)
<1> DEFINE k == w.clients[c]
           v == close_client(w, c, x)
<1>1. /\ w \in Worlds /\ Sound(w, b) /\ k.pcb = p /\ p # None
      /\ p \notin w.aborted /\ w.ret = "ERR_OK"
  BY Sizes DEF Serving, Sound
<1>2. CASE k.kind = "raw16"
  <2>1. v = AbortReturn(w, c) BY <1>1, <1>2 DEF close_client, StreamAborted
  <2> QED BY <1>1, <2>1, AbortReturnServes
<1>3. CASE k.kind # "raw16" /\ x.close = "ERR_MEM"
  <2> DEFINE a == [w EXCEPT !.clients[c].closing = TRUE]
  <2>1. v = a BY <1>1, <1>3 DEF close_client
  <2>a. /\ Sound(a, None) /\ a.clients[c].pcb = w.clients[c].pcb
        /\ a.aborted = w.aborted /\ a.ret = w.ret
    <3>1. Sound(w, b) BY <1>1
    <3> HIDE DEF v, k
    <3>2. CASE b = None BY <3>1, <3>2, ClosingIsSound
    <3>3. CASE b = c BY <3>1, <3>3, ClosingIsSound
    <3> QED BY <3>2, <3>3
  <2> HIDE DEF a
  <2>2. /\ Sound(v, None) /\ v.clients[c].pcb = p
        /\ v.aborted = w.aborted /\ v.ret = w.ret
    BY <1>1, <2>1, <2>a
  <2> HIDE DEF v
  <2>3. Serving(v, None, c, p) BY <1>1, <2>2 DEF Serving
  <2> QED BY <2>3, StillServed DEF v
<1>4. CASE k.kind # "raw16" /\ x.close # "ERR_MEM"
  <2> DEFINE a == [w.arg EXCEPT ![p] = None]
             d == [w EXCEPT !.arg = a]
             r == release_client(d, c)
             t == [r.tcp EXCEPT ![p] = "closing"]
  <2>1. v = [release_client([w EXCEPT !.arg[p] = None], c) EXCEPT !.tcp[p] = "closing"]
    BY <1>1, <1>4 DEF close_client, Detach
  <2>2. [w EXCEPT !.arg[p] = None] = d BY <1>1 DEF Worlds
  <2>3. /\ a \in [Pcbs -> Clients \cup {None}] /\ a[p] = None
        /\ \A q \in Pcbs \ {p} : a[q] = w.arg[q]
    BY <1>1, WorldTypes
  <2> HIDE DEF a
  <2>4. /\ d \in Worlds /\ d.clients = w.clients /\ d.stream = w.stream /\ d.arg = a
        /\ d.tcp = w.tcp /\ d.unacked = w.unacked /\ d.peer = w.peer
        /\ d.queue = w.queue /\ d.lent = w.lent /\ d.tail = w.tail
        /\ d.state = w.state /\ d.downloading = w.downloading /\ d.honest = w.honest
        /\ d.aborted = w.aborted /\ d.ret = w.ret
    BY ZenonT(60), <1>1, <2>3 DEF Worlds
  <2> HIDE DEF d
  <2>5. w.clients[c].leased => w.queue # <<>> BY <1>1 DEF Sound, Streaming
  <2>6. /\ r \in Worlds /\ Released(d, r, c)
        /\ r.tcp = d.tcp /\ r.arg = d.arg /\ r.unacked = d.unacked
        /\ r.peer = d.peer /\ r.aborted = d.aborted
    BY <2>4, <2>5, ReleaseFields
  <2>7. v = [r EXCEPT !.tcp = t]
    <3>1. v = [r EXCEPT !.tcp[p] = "closing"] BY <2>1, <2>2
    <3> HIDE DEF r, v
    <3> QED BY <2>6, <3>1 DEF Worlds
  <2> HIDE DEF r, v
  <2>8. /\ t \in [Pcbs -> {"free", "open", "closing"}]
        /\ \A q \in Pcbs \ {p} : t[q] = r.tcp[q]
    BY <2>6, WorldTypes
  <2> HIDE DEF t
  <2>9. /\ v \in Worlds /\ v.clients = r.clients /\ v.stream = r.stream /\ v.arg = r.arg
        /\ v.tcp = t /\ v.unacked = r.unacked /\ v.peer = r.peer
        /\ v.queue = r.queue /\ v.lent = r.lent /\ v.tail = r.tail
        /\ v.state = r.state /\ v.downloading = r.downloading /\ v.honest = r.honest
        /\ v.aborted = r.aborted /\ v.ret = r.ret
    BY <2>6, <2>7, <2>8 DEF Worlds
  <2>10. Released(w, v, c) BY <2>4, <2>6, <2>9 DEF Released
  <2>11. w.peer[p] # Broken BY <1>1 DEF Sound, Framing
  <2>12. Loosened(w, v, c)
    <3>1. t[p] = "closing" BY <2>6, WorldTypes DEF t
    <3> QED BY <1>1, <2>3, <2>4, <2>6, <2>8, <2>9, <2>11, <3>1 DEF Loosened
  <2>13. Sound(v, b) BY <1>1, <2>9, <2>10, <2>12, ReleasedIsSound
  <2>14. v.clients[c] = Empty BY <1>1, <2>10, WorldTypes DEF Released
  <2>15. Sound(v, None)
    <3>1. CASE b = None BY <2>13, <3>1
    <3>2. CASE b = c BY <2>13, <2>14, <3>2, EmptySlot, Settled
    <3> QED BY <3>1, <3>2
  <2>16. v.aborted = w.aborted /\ v.ret = w.ret
    BY <2>4, <2>6, <2>9 DEF Released
  <2>17. Served(v, c, p) BY <1>1, <2>14, <2>15, <2>16, EmptySlot DEF Served
  <2> QED BY <2>17 DEF v
<1> QED BY <1>2, <1>3, <1>4

\* The least of three numbers.
LEMMA MinOfThree ==
  ASSUME NEW a \in Nat, NEW b \in Nat, NEW c \in Nat
  PROVE  LET m == Min({a, b, c})
         IN  m \in {a, b, c} /\ m <= a /\ m <= b /\ m <= c /\ m \in Nat
<1>1. \E m \in {a, b, c} : \A y \in {a, b, c} : m <= y
  <2>1. CASE a <= b /\ a <= c BY <2>1
  <2>2. CASE b <= a /\ b <= c BY <2>2
  <2>3. CASE c <= a /\ c <= b BY <2>3
  <2> QED BY <2>1, <2>2, <2>3
<1> QED BY <1>1 DEF Min

\* queue_static_chunk of a response.
LEMMA QueueServes ==
  ASSUME NEW w, NEW c \in Clients, NEW p \in Pcbs, Serving(w, None, c, p),
         w.clients[c].kind \in {"static", "download"}, NEW x \in Answers
  PROVE  Served(queue_static_chunk(w, c, x), c, p)
<1> DEFINE k == w.clients[c]
           m == Min({x.n, k.left, Space(w, c)})
           v == queue_static_chunk(w, c, x)
<1>1. /\ w \in Worlds /\ Counted(w, None) /\ Downloads(w) /\ k.pcb = p /\ p # None
      /\ Sound(w, None) /\ p \notin w.aborted /\ w.ret = "ERR_OK"
  BY Sizes DEF Serving, Sound
<1>2. /\ k \in Slot /\ k.left \in Nat /\ k.inflight \in Nat /\ w.unacked[p] \in 0 .. SndBuf
      /\ k.left \in 0 .. Length /\ k.inflight \in 0 .. Length
  BY <1>1, WorldTypes, SlotTypes, Sizes
<1>3. k.inflight = w.unacked[p] /\ k.left + k.inflight <= Length BY <1>1 DEF Counted
<1>4. x.n \in Nat /\ x.out \in OutputResults BY Sizes DEF Answers
<1>5. CASE k.left = 0 /\ k.inflight # 0
  BY <1>5, StillServed DEF queue_static_chunk
<1>6. CASE k.left = 0 /\ k.inflight = 0
  <2> DEFINE a == [w EXCEPT !.clients[c].closing = TRUE]
  <2>1. v = close_client(a, c, x) BY <1>6 DEF queue_static_chunk
  <2>2. Sound(a, None) /\ a.clients[c].pcb = p /\ a.aborted = w.aborted /\ a.ret = w.ret
    BY <1>1, ClosingIsSound
  <2> HIDE DEF a, v
  <2>3. Serving(a, None, c, p) BY <1>1, <2>2 DEF Serving
  <2>4. Served(v, c, p) BY <2>1, <2>3, CloseServes
  <2> QED BY <2>4 DEF v
<1>7. CASE k.left # 0 /\ m = 0
  <2>1. v = w BY <1>7 DEF queue_static_chunk
  <2> QED BY <2>1, StillServed
<1>8. CASE k.left # 0 /\ m # 0
  <2> DEFINE j == [k EXCEPT !.left = k.left - m, !.inflight = k.inflight + m]
             u == w.unacked[p] + m
             g == [w.clients EXCEPT ![c] = j]
             y == [w.unacked EXCEPT ![p] = u]
             a == [w EXCEPT !.clients = g, !.unacked = y]
  <2>1. v = Output([w EXCEPT !.clients[c].left = k.left - m,
                             !.clients[c].inflight = k.inflight + m,
                             !.unacked[p] = w.unacked[p] + m], c, x)
    BY <1>1, <1>2, <1>8 DEF queue_static_chunk, Slot, Worlds
  <2>2. [w EXCEPT !.clients[c].left = k.left - m, !.clients[c].inflight = k.inflight + m,
                  !.unacked[p] = w.unacked[p] + m] = a
    OBVIOUS
  <2> HIDE DEF v
  <2>3. /\ m \in Nat /\ m <= x.n /\ m <= k.left /\ m <= SndBuf - w.unacked[p]
    <3>1. Space(w, c) = SndBuf - w.unacked[p] /\ Space(w, c) \in Nat
      BY <1>1, <1>2, Sizes DEF Space
    <3> QED BY SMTT(40), <1>2, <1>4, <3>1, MinOfThree
  <2> HIDE DEF m, k
  <2>4. /\ k.left - m \in 0 .. Length /\ k.inflight + m \in 0 .. Length
        /\ w.unacked[p] + m \in 0 .. SndBuf
        /\ k.inflight + m = w.unacked[p] + m /\ (k.left - m) + (k.inflight + m) <= Length
    BY <1>2, <1>3, <2>3, Sizes
  <2>5. /\ j \in Slot /\ j.pcb = k.pcb /\ j.kind = k.kind /\ j.closing = k.closing
        /\ j.head = k.head /\ j.leased = k.leased /\ j.part = k.part /\ j.synced = k.synced
        /\ j.left = k.left - m /\ j.inflight = k.inflight + m
    BY <1>2, <2>4 DEF Slot
  <2> HIDE DEF j
  <2>6. /\ g \in [Clients -> Slot] /\ g[c] = j
        /\ \A d \in Clients \ {c} : g[d] = w.clients[d]
        /\ y \in [Pcbs -> 0 .. SndBuf] /\ y[p] = w.unacked[p] + m
        /\ \A q \in Pcbs \ {p} : y[q] = w.unacked[q]
    BY <1>1, <2>4, <2>5, WorldTypes
  <2>g. g = [w.clients EXCEPT ![c] = j] OBVIOUS
  <2> HIDE DEF g, y
  <2>7. /\ a \in Worlds /\ a.clients = g /\ a.unacked = y /\ a.downloading = w.downloading
        /\ a.stream = w.stream /\ a.tcp = w.tcp /\ a.arg = w.arg /\ a.peer = w.peer
        /\ a.queue = w.queue /\ a.lent = w.lent /\ a.tail = w.tail
        /\ a.state = w.state /\ a.honest = w.honest /\ a.aborted = w.aborted
        /\ a.ret = w.ret
    BY <1>1, <2>6 DEF Worlds
  <2> HIDE DEF a
  <2>8. Reslotted(w, a, None, c, j)
    BY <1>1, <2>4, <2>5, <2>6, <2>g, <2>7 DEF Reslotted, k
  <2>9. \A d \in Clients : a.clients[d].kind = w.clients[d].kind
    BY <2>5, <2>6, <2>7 DEF k
  <2>10. Downloads(a) BY <1>1, <2>7, <2>9 DEF Downloads
  <2>11. Sound(a, None) BY <1>1, <2>7, <2>8, <2>10, ReslottedIsSound
  <2>12. Serving(a, None, c, p) BY <1>1, <2>5, <2>6, <2>7, <2>11 DEF Serving
  <2>13. v = Output(a, c, x) BY <2>1, <2>2
  <2>14. Served(v, c, p)
    <3>1. v = a \/ Served(v, c, p) BY <1>4, <2>12, <2>13, OutputServes
    <3> QED BY <2>12, <3>1, StillServed
  <2> QED BY <2>14 DEF v
<1> QED BY <1>5, <1>6, <1>7, <1>8

\* Slot c of w becomes k.
Slotted(w, v, c, k) ==
  /\ v \in Worlds
  /\ v.clients = [w.clients EXCEPT ![c] = k] /\ v.clients[c] = k
  /\ \A d \in Clients \ {c} : v.clients[d] = w.clients[d]
  /\ v.unacked = w.unacked /\ v.downloading = w.downloading
  /\ v.stream = w.stream /\ v.tcp = w.tcp /\ v.arg = w.arg /\ v.peer = w.peer
  /\ v.queue = w.queue /\ v.lent = w.lent /\ v.tail = w.tail
  /\ v.state = w.state /\ v.honest = w.honest /\ v.aborted = w.aborted
  /\ v.ret = w.ret

\* Replacing one slot changes nothing else.
LEMMA SetSlot ==
  ASSUME NEW w \in Worlds, NEW c \in Clients, NEW k \in Slot
  PROVE  Slotted(w, [w EXCEPT !.clients = [w.clients EXCEPT ![c] = k]], c, k)
<1> DEFINE g == [w.clients EXCEPT ![c] = k]
           v == [w EXCEPT !.clients = g]
<1>1. /\ g \in [Clients -> Slot] /\ g[c] = k
      /\ \A d \in Clients \ {c} : g[d] = w.clients[d]
  BY WorldTypes
<1>2. g = [w.clients EXCEPT ![c] = k] OBVIOUS
<1> HIDE DEF g
<1>3. /\ v \in Worlds /\ v.clients = g /\ v.unacked = w.unacked
      /\ v.downloading = w.downloading
      /\ v.stream = w.stream /\ v.tcp = w.tcp /\ v.arg = w.arg /\ v.peer = w.peer
      /\ v.queue = w.queue /\ v.lent = w.lent /\ v.tail = w.tail
      /\ v.state = w.state /\ v.honest = w.honest /\ v.aborted = w.aborted
      /\ v.ret = w.ret
  BY <1>1 DEF Worlds
<1> HIDE DEF v
<1>4. Slotted(w, v, c, k) BY <1>1, <1>2, <1>3 DEF Slotted
<1> QED BY <1>4 DEF v, g

\* What a slot remembers of time is of no consequence.
LEMMA TouchedIsSound ==
  ASSUME NEW w, Sound(w, None), NEW c \in Clients, NEW k \in Slot,
         k.pcb = w.clients[c].pcb, k.kind = w.clients[c].kind,
         k.closing = w.clients[c].closing, k.left = w.clients[c].left,
         k.inflight = w.clients[c].inflight, k.head = w.clients[c].head,
         k.leased = w.clients[c].leased, k.part = w.clients[c].part,
         k.synced = w.clients[c].synced,
         NEW v, Slotted(w, v, c, k)
  PROVE  Sound(v, None)
<1>1. w \in Worlds /\ Counted(w, None) /\ Downloads(w) BY DEF Sound
<1>2. c # None BY Sizes
<1>3. Reslotted(w, v, None, c, k) BY <1>1, <1>2 DEF Reslotted, Counted, Slotted
<1>4. \A d \in Clients : v.clients[d].kind = w.clients[d].kind BY DEF Slotted
<1>5. v \in Worlds /\ v.downloading = w.downloading /\ v.state = w.state BY DEF Slotted
<1>6. Downloads(v) BY <1>1, <1>4, <1>5 DEF Downloads
<1> QED BY <1>3, <1>5, <1>6, ReslottedIsSound

\* The idle count is reset, or raised as long as the limit allows.
LEMMA IdleCount ==
  ASSUME NEW w, NEW c \in Clients, NEW p \in Pcbs, Serving(w, None, c, p),
         NEW i \in 0 .. IdleLimit - 1
  PROVE  LET v == [w EXCEPT !.clients[c].idle = i]
         IN  /\ Serving(v, None, c, p)
             /\ v.clients[c] = [w.clients[c] EXCEPT !.idle = i]
             /\ Slotted(w, v, c, v.clients[c])
<1> DEFINE old == w.clients[c]
           k == [old EXCEPT !.idle = i]
           v == [w EXCEPT !.clients[c].idle = i]
<1>1. w \in Worlds /\ Sound(w, None) BY DEF Serving, Sound
<1>2. old \in Slot BY <1>1, WorldTypes
<1> HIDE DEF old
<1>3. /\ k \in Slot /\ k.pcb = old.pcb /\ k.kind = old.kind /\ k.closing = old.closing
      /\ k.left = old.left /\ k.inflight = old.inflight /\ k.head = old.head
      /\ k.leased = old.leased /\ k.part = old.part /\ k.synced = old.synced
  BY <1>2 DEF Slot
<1>4. v = [w EXCEPT !.clients = [w.clients EXCEPT ![c] = k]] BY DEF old
<1> HIDE DEF k, v
<1>5. Slotted(w, v, c, k) BY <1>1, <1>3, <1>4, SetSlot
<1>6. Sound(v, None) BY <1>1, <1>3, <1>5, TouchedIsSound DEF old
<1>7. v.clients[c] = k BY <1>5 DEF Slotted
<1>8. Serving(v, None, c, p) BY <1>3, <1>5, <1>6, <1>7 DEF Serving, Slotted, old
<1> QED BY <1>5, <1>7, <1>8 DEF v, k, old

\* A poll that counts keeps the contract, and so does the one that aborts.
LEMMA IdleServes ==
  ASSUME NEW w, NEW c \in Clients, NEW p \in Pcbs, Serving(w, None, c, p)
  PROVE  Served(Idle(w, c), c, p)
<1> DEFINE i == w.clients[c].idle + 1
           v == [w EXCEPT !.clients[c].idle = i]
<1>1. w.clients[c].idle \in 0 .. IdleLimit - 1
  BY WorldTypes, SlotTypes DEF Serving, Sound
<1>2. CASE IdleTooLong(w.clients[c])
  <2>1. Idle(w, c) = AbortReturn(w, c) BY <1>2 DEF Idle
  <2> QED BY <2>1, AbortReturnServes DEF Serving
<1>3. CASE ~IdleTooLong(w.clients[c])
  <2>1. i \in 0 .. IdleLimit - 1 BY <1>1, <1>3, Sizes DEF IdleTooLong
  <2>2. Idle(w, c) = v BY <1>3 DEF Idle
  <2> HIDE DEF i
  <2>3. Serving(v, None, c, p) BY <2>1, IdleCount
  <2> HIDE DEF v
  <2> QED BY <2>2, <2>3, StillServed
<1> QED BY <1>2, <1>3

\* Hearing from the peer keeps the contract.
LEMMA HeardServes ==
  ASSUME NEW w, NEW c \in Clients, NEW p \in Pcbs, Serving(w, None, c, p)
  PROVE  LET v == Heard(w, c)
         IN  /\ Serving(v, None, c, p) /\ Slotted(w, v, c, v.clients[c])
             /\ v.clients[c] = [w.clients[c] EXCEPT !.idle = 0]
<1>1. 0 \in 0 .. IdleLimit - 1 BY Sizes
<1> DEFINE v == [w EXCEPT !.clients[c].idle = 0]
<1>2. /\ Serving(v, None, c, p)
      /\ v.clients[c] = [w.clients[c] EXCEPT !.idle = 0]
      /\ Slotted(w, v, c, v.clients[c])
  BY <1>1, IdleCount
<1>3. Heard(w, c) = v BY DEF Heard
<1> HIDE DEF v
<1> QED BY <1>2, <1>3

\* A client whose request is read gets a page, a file or a short answer.
Asking(w, c, p) ==
  /\ Serving(w, None, c, p)
  /\ w.clients[c].kind = "none" /\ ~w.clients[c].closing

\* send_static_response; "downloading" is set before it for a file.
LEMMA AnswerServes ==
  ASSUME NEW w, NEW c \in Clients, NEW p \in Pcbs, Asking(w, c, p),
         NEW x \in Answers, NEW length \in 0 .. Length, NEW kind, NEW h \in BOOLEAN,
         \/ kind = "static" /\ h = w.downloading
         \/ kind = "download" /\ h /\ ~w.downloading /\ w.state = "ready"
  PROVE  Served(send_static_response([w EXCEPT !.downloading = h], c, kind, length, x), c, p)
<1> DEFINE old == w.clients[c]
           k == [old EXCEPT !.kind = kind, !.left = length, !.inflight = 0, !.idle = 0]
           g == [w.clients EXCEPT ![c] = k]
           v == [w EXCEPT !.clients = g, !.downloading = h]
           z == send_static_response([w EXCEPT !.downloading = h], c, kind, length, x)
<1>1. /\ w \in Worlds /\ Sound(w, None) /\ Counted(w, None) /\ Downloads(w) /\ Streaming(w)
      /\ old.pcb = p /\ p # None /\ old.kind = "none" /\ ~old.closing
      /\ p \notin w.aborted /\ w.ret = "ERR_OK"
  BY Sizes DEF Asking, Serving, Sound
<1>2. old \in Slot /\ c # None BY <1>1, WorldTypes, Sizes
<1>3. w.unacked[p] = 0 BY <1>1, <1>2 DEF Counted
<1>4. z = queue_static_chunk(v, c, x)
  <2> DEFINE n == [w EXCEPT !.downloading = h]
  <2>1. z = queue_static_chunk([n EXCEPT
                  !.clients[c].kind = kind, !.clients[c].left = length,
                  !.clients[c].inflight = 0, !.clients[c].idle = 0], c, x)
    BY DEF send_static_response
  <2>2. n.clients = w.clients /\ v = [n EXCEPT !.clients = g]
    <3> HIDE DEF g
    <3> QED BY <1>1 DEF Worlds
  <2> HIDE DEF n
  <2>3. [n EXCEPT !.clients[c].kind = kind, !.clients[c].left = length,
                  !.clients[c].inflight = 0, !.clients[c].idle = 0]
          = [n EXCEPT !.clients = [n.clients EXCEPT ![c] =
               [n.clients[c] EXCEPT !.kind = kind, !.left = length,
                                    !.inflight = 0, !.idle = 0]]]
    BY ZenonT(60)
  <2> HIDE DEF v, z
  <2> QED BY <2>1, <2>2, <2>3
<1> HIDE DEF old, z
<1>5. /\ k \in Slot /\ k.pcb = p /\ k.kind = kind /\ k.head = old.head
      /\ k.leased = old.leased /\ k.part = old.part /\ k.synced = old.synced
      /\ k.left = length /\ k.inflight = 0
  <2>1. kind \in Kinds /\ 0 \in 0 .. Length /\ 0 \in 0 .. IdleLimit - 1
    BY Sizes DEF Kinds
  <2> QED BY <1>1, <1>2, <2>1 DEF Slot
<1> HIDE DEF k
<1>6. /\ g \in [Clients -> Slot] /\ g[c] = k
      /\ \A d \in Clients \ {c} : g[d] = w.clients[d]
  BY <1>1, <1>5, WorldTypes
<1>7. g = [w.clients EXCEPT ![c] = k] OBVIOUS
<1> HIDE DEF g
<1>8. /\ v \in Worlds /\ v.clients = g /\ v.unacked = w.unacked /\ v.downloading = h
      /\ v.stream = w.stream /\ v.tcp = w.tcp /\ v.arg = w.arg /\ v.peer = w.peer
      /\ v.queue = w.queue /\ v.lent = w.lent /\ v.tail = w.tail
      /\ v.state = w.state /\ v.honest = w.honest /\ v.aborted = w.aborted
      /\ v.ret = w.ret
  BY <1>1, <1>6 DEF Worlds
<1> HIDE DEF v
<1>9. Reslotted(w, v, None, c, k)
  <2>1. old.kind # "raw16" /\ k.kind # "raw16" /\ k.kind # "none" BY <1>1, <1>5
  <2>2. k.left + k.inflight <= Length /\ k.inflight = v.unacked[p]
    BY <1>3, <1>5, <1>8, Sizes
  <2> QED BY <1>1, <1>5, <1>7, <1>8, <2>1, <2>2 DEF Reslotted, old
<1>10. Downloads(v)
  <2>1. CASE kind = "static" /\ h = w.downloading
    <3>1. \A d \in Clients : v.clients[d].kind = "download" <=> w.clients[d].kind = "download"
      BY <1>1, <1>5, <1>6, <1>8, <2>1 DEF old
    <3> QED BY <1>1, <1>8, <2>1, <3>1 DEF Downloads
  <2>2. CASE kind = "download" /\ h /\ ~w.downloading /\ w.state = "ready"
    <3>1. \A d \in Clients : v.clients[d].kind = "download" <=> d = c
      BY <1>1, <1>5, <1>6, <1>8, <2>2 DEF Downloads
    <3> QED BY <1>8, <2>2, <3>1 DEF Downloads
  <2> QED BY <2>1, <2>2
<1>11. Sound(v, None) BY <1>1, <1>8, <1>9, <1>10, ReslottedIsSound
<1>12. Serving(v, None, c, p) BY <1>1, <1>5, <1>6, <1>8, <1>11 DEF Serving
<1>13. v.clients[c].kind \in {"static", "download"} BY <1>5, <1>6, <1>8
<1>14. Served(z, c, p) BY <1>4, <1>12, <1>13, QueueServes
<1> QED BY <1>14 DEF z

\* A short answer that is sent whole, and the connection closed with it.
LEMMA SendAndCloseServes ==
  ASSUME NEW w, NEW c \in Clients, NEW p \in Pcbs, Asking(w, c, p), NEW x \in Answers
  PROVE  Served(send_and_close(w, c, x), c, p)
<1> DEFINE old == w.clients[c]
           y == [w.unacked EXCEPT ![p] = w.unacked[p] + 1]
           a == [w EXCEPT !.unacked = y]
           sent == Output(a, c, x)
           v == send_and_close(w, c, x)
<1>1. /\ w \in Worlds /\ Sound(w, None) /\ Counted(w, None) /\ Downloads(w) /\ Streaming(w)
      /\ old.pcb = p /\ p # None /\ old.kind = "none" /\ ~old.closing
      /\ p \notin w.aborted /\ w.ret = "ERR_OK"
  BY Sizes DEF Asking, Serving, Sound
<1>2. old \in Slot /\ c # None /\ x.out \in OutputResults BY <1>1, WorldTypes, Sizes DEF Answers
<1>3. w.unacked[p] = 0 BY <1>1, <1>2 DEF Counted
<1>4. CASE x.n = 0 \/ Space(w, c) = 0
  <2>1. v = AbortReturn(w, c) BY <1>4 DEF send_and_close
  <2> QED BY <1>1, <2>1, AbortReturnServes
<1>5. CASE ~(x.n = 0 \/ Space(w, c) = 0)
  <2>1. v = IF x.out \in {"fail", "deselect_fail"} THEN sent
            ELSE close_client([sent EXCEPT !.clients[c].closing = TRUE], c, x)
    <3>1. a = [w EXCEPT !.unacked[w.clients[c].pcb] = @ + 1] BY <1>1 DEF Worlds
    <3> HIDE DEF a
    <3> QED BY <1>5, <3>1 DEF send_and_close
  <2>2. w.unacked[p] + 1 \in 0 .. SndBuf BY <1>3, Sizes
  <2>3. /\ y \in [Pcbs -> 0 .. SndBuf]
        /\ \A q \in Pcbs \ {p} : y[q] = w.unacked[q]
    BY <1>1, <2>2, WorldTypes
  <2> HIDE DEF y
  <2>4. /\ a \in Worlds /\ a.clients = w.clients
        /\ a.unacked = y /\ a.downloading = w.downloading
        /\ a.stream = w.stream /\ a.tcp = w.tcp /\ a.arg = w.arg /\ a.peer = w.peer
        /\ a.queue = w.queue /\ a.lent = w.lent /\ a.tail = w.tail
        /\ a.state = w.state /\ a.honest = w.honest /\ a.aborted = w.aborted
        /\ a.ret = w.ret
    BY <1>1, <2>3 DEF Worlds
  <2> HIDE DEF a, sent
  <2>5. w.clients = [w.clients EXCEPT ![c] = old] BY <1>1, WorldTypes
  <2>6. Reslotted(w, a, c, c, old) BY <1>1, <2>3, <2>4, <2>5 DEF Reslotted
  <2>7. Downloads(a) BY <1>1, <2>4 DEF Downloads
  <2>8. Sound(a, c)
    <3>1. Sound(w, c) BY <1>1, Busy
    <3> QED BY <2>4, <2>6, <2>7, <3>1, ReslottedIsSound
  <2>9. Serving(a, c, c, p) BY <1>1, <2>4, <2>8 DEF Serving
  <2>10. \/ x.out = "ok" /\ sent = a
         \/ x.out # "ok" /\ Served(sent, c, p) /\ sent.clients[c] = Empty
    BY <1>2, <2>9, OutputServes DEF sent
  <2> DEFINE e == [sent EXCEPT !.clients[c].closing = TRUE]
  <2>11. CASE x.out = "ok"
    <3>1. sent = a BY <2>10, <2>11
    <3>2. Sound(e, None) /\ e.clients[c].pcb = p /\ e.aborted = a.aborted /\ e.ret = a.ret
      <4>1. Sound(sent, c) BY <2>8, <3>1
      <4>2. Sound(e, None) /\ e.clients[c].pcb = sent.clients[c].pcb
            /\ e.aborted = sent.aborted /\ e.ret = sent.ret
        BY <4>1, ClosingIsSound
      <4> HIDE DEF e
      <4> QED BY <1>1, <2>4, <3>1, <4>2
    <3>3. v = close_client(e, c, x) BY <2>1, <2>11
    <3> HIDE DEF e, v
    <3>4. Serving(e, None, c, p) BY <1>1, <2>4, <3>2 DEF Serving
    <3>5. Served(v, c, p) BY <3>3, <3>4, CloseServes
    <3> QED BY <3>5 DEF v
  <2>12. CASE x.out \in {"fail", "deselect_fail"} BY <2>1, <2>10, <2>12
  <2>13. CASE x.out = "deselect_mem"
    <3>1. v = close_client(e, c, x) BY <2>1, <2>13
    <3>2. Sound(sent, None) /\ sent.clients[c].pcb = None
      BY <2>10, <2>13, EmptySlot DEF Served
    <3>3. Sound(e, None) /\ e.clients[c].pcb = sent.clients[c].pcb
          /\ e.aborted = sent.aborted /\ e.ret = sent.ret
      BY <3>2, ClosingIsSound
    <3> HIDE DEF e, v
    <3>4. v = e BY <3>1, <3>2, <3>3 DEF close_client
    <3>5. Served(v, c, p) BY <1>2, <2>13, <3>2, <3>3, <3>4 DEF Served
    <3> QED BY <3>5 DEF v
  <2>14. x.out \in {"ok", "fail", "deselect_fail", "deselect_mem"} BY <1>2, ClientAssumption
  <2> QED BY <2>11, <2>12, <2>13, <2>14
<1> QED BY <1>4, <1>5

-----------------------------------------------------------------------------
(* The module file service.                                                  *)

\* The pipeline and the file service change, and nothing of the clients.
Repiped(w, v) ==
  /\ v.clients = w.clients /\ v.tcp = w.tcp /\ v.arg = w.arg
  /\ v.unacked = w.unacked /\ v.peer = w.peer /\ v.honest = w.honest
  /\ v.stream = w.stream

\* What a user of the pipeline or the file service owes the streams and downloads.
LEMMA RepipedIsSound ==
  ASSUME NEW w, NEW b, Sound(w, b), NEW v \in Worlds, Repiped(w, v),
         Streaming(v), Downloads(v), Chained(v),
         v.stream # None => Framed(v, v.clients[v.stream])
  PROVE  Sound(v, b)
<1>1. Attachments(v) BY DEF Sound, Attachments, Repiped
<1>2. Counted(v, b) BY DEF Sound, Counted, Repiped
<1>3. Framing(v) BY DEF Sound, Framing, Repiped
<1> QED BY <1>1, <1>2, <1>3 DEF Sound, Repiped

\* An empty queue has nothing out of order.
LEMMA EmptyQueue ==
  ASSUME NEW v, v.queue = <<>>
  PROVE  Chained(v)
BY Sizes DEF Chained

\* Starting a transaction takes the pipeline only while nothing of it is lent.
LEMMA StartedServes ==
  ASSUME NEW w, NEW c \in Clients, NEW p \in Pcbs, Asking(w, c, p), NEW done \in BOOLEAN
  PROVE  Asking(Started(w, done), c, p)
<1> DEFINE t == IF done THEN "reading" ELSE w.state
           v == [w EXCEPT !.state = t, !.queue = <<>>, !.tail = None]
<1>1. /\ w \in Worlds /\ Sound(w, None) /\ Downloads(w) /\ Streaming(w)
      /\ w.clients[c].kind = "none" /\ ~w.clients[c].closing
  BY DEF Asking, Serving, Sound
<1>2. CASE w.stream = None /\ w.state = "idle" /\ w.lent = None
  <2>1. Started(w, done) = v BY <1>2 DEF Started
  <2>2. t \in {"idle", "reading", "ready", "closing"} BY <1>2
  <2> HIDE DEF t
  <2>3. <<>> \in Seq(Chunks) OBVIOUS
  <2>4. /\ v \in Worlds /\ Repiped(w, v) /\ v.queue = <<>> /\ v.lent = w.lent
        /\ v.tail = None /\ v.state = t /\ v.downloading = w.downloading
        /\ v.aborted = w.aborted /\ v.ret = w.ret
    BY <1>1, <2>2, <2>3 DEF Worlds, Repiped
  <2> HIDE DEF v
  <2>5. v.stream = None /\ v.clients = w.clients BY <1>2, <2>4 DEF Repiped
  <2>6. \A d \in Clients : ~w.clients[d].leased /\ w.clients[d].kind # "raw16"
    BY <1>1, <1>2, Sizes DEF Streaming
  <2>7. Streaming(v) BY <1>2, <2>4, <2>5, <2>6, Sizes DEF Streaming
  <2>8. Downloads(v) BY <1>1, <1>2, <2>4, <2>5 DEF Downloads
  <2>9. Sound(v, None) BY <1>1, <2>4, <2>5, <2>7, <2>8, EmptyQueue, RepipedIsSound
  <2> QED BY <2>1, <2>4, <2>5, <2>9 DEF Asking, Serving
<1>3. CASE ~(w.stream = None /\ w.state = "idle" /\ w.lent = None)
  <2>1. Started(w, done) = w BY <1>3 DEF Started
  <2> QED BY <2>1
<1> QED BY <1>2, <1>3

\* The state of a service that lends nothing.
LEMMA StateIsSound ==
  ASSUME NEW w, Sound(w, None), ~w.downloading, w.stream = None, NEW v \in Worlds,
         Repiped(w, v), v.queue = w.queue, v.lent = w.lent, v.tail = w.tail,
         v.downloading = w.downloading
  PROVE  Sound(v, None)
<1>1. Streaming(w) /\ Downloads(w) /\ Chained(w) BY DEF Sound, Framing
<1>2. v.stream = w.stream /\ v.clients = w.clients BY DEF Repiped
<1>3. Streaming(v) BY <1>1, <1>2 DEF Streaming
<1>4. Downloads(v) BY <1>1, <1>2 DEF Downloads
<1>5. Chained(v) BY <1>1 DEF Chained
<1> QED BY <1>2, <1>3, <1>4, <1>5, RepipedIsSound

\* Cancelling a transaction aborts its download first.
LEMMA CancelledServes ==
  ASSUME NEW w, NEW c \in Clients, NEW p \in Pcbs, Asking(w, c, p),
         NEW at \in {"closing", "idle"}
  PROVE  Asking(Cancelled(w, at), c, p)
<1> DEFINE S == {d \in Clients : w.clients[d].kind = "download"}
           a == AbortThose(w, S)
           t == IF a.state = "ready" THEN "idle" ELSE at
           v == [a EXCEPT !.state = t]
           z == Cancelled(w, at)
<1>1. /\ w \in Worlds /\ Sound(w, None) /\ Attachments(w)
      /\ w.clients[c].kind = "none" /\ ~w.clients[c].closing
      /\ w.clients[c].pcb = p /\ p \notin w.aborted /\ w.ret = "ERR_OK"
  BY DEF Asking, Serving, Sound
<1>2. S \in SUBSET Clients /\ c \notin S BY <1>1
<1>3. \A d \in S : w.clients[d].pcb # p
  <2> SUFFICES ASSUME NEW d \in Clients, d # c, w.clients[d].pcb = p PROVE FALSE
    BY <1>1, <1>2
  <2>1. w.clients[d].pcb # None BY Sizes
  <2> QED BY <1>1, <2>1, Apart
<1>4. z = IF a.downloading \/ a.state \notin {"reading", "ready"} THEN a ELSE v
  BY DEF Cancelled
<1> HIDE DEF S, z
<1>5. /\ Sound(a, None) /\ a.ret = w.ret /\ a.clients[c] = w.clients[c]
      /\ (p \in a.aborted <=> p \in w.aborted \/ \E d \in S : w.clients[d].pcb = p)
  BY <1>1, <1>2, AbortThoseFields
<1>6. p \notin a.aborted BY <1>1, <1>3, <1>5
<1> HIDE DEF a
<1>7. Asking(a, c, p) BY <1>1, <1>5, <1>6 DEF Asking, Serving
<1>8. CASE a.downloading \/ a.state \notin {"reading", "ready"}
  <2>1. z = a BY <1>4, <1>8
  <2> QED BY <1>7, <2>1 DEF z
<1>9. CASE ~(a.downloading \/ a.state \notin {"reading", "ready"})
  <2>1. z = v BY <1>4, <1>9
  <2>2. a \in Worlds /\ a.stream = None BY <1>5, <1>9 DEF Sound, Streaming
  <2>3. t \in {"idle", "reading", "ready", "closing"} OBVIOUS
  <2> HIDE DEF t
  <2>4. /\ v \in Worlds /\ Repiped(a, v) /\ v.queue = a.queue /\ v.lent = a.lent
        /\ v.tail = a.tail /\ v.downloading = a.downloading
        /\ v.aborted = a.aborted /\ v.ret = a.ret /\ v.clients = a.clients
    BY <2>2, <2>3 DEF Worlds, Repiped
  <2> HIDE DEF v
  <2>5. Sound(v, None) BY <1>5, <1>9, <2>2, <2>4, StateIsSound
  <2>6. Asking(v, c, p) BY <1>7, <2>4, <2>5 DEF Asking, Serving
  <2> QED BY <2>1, <2>6 DEF z
<1> QED BY <1>8, <1>9

\* A reply other than the file leaves the service as it is.
LEMMA SameDownloading ==
  ASSUME NEW w \in Worlds
  PROVE  w = [w EXCEPT !.downloading = w.downloading]
BY DEF Worlds

\* A short reply keeps the contract.
LEMMA ReplyServes ==
  ASSUME NEW w, NEW c \in Clients, NEW p \in Pcbs, Asking(w, c, p),
         NEW x \in Answers, NEW length \in 0 .. Length
  PROVE  Served(send_static_response(w, c, "static", length, x), c, p)
<1>1. w \in Worlds BY DEF Asking, Serving, Sound
<1> DEFINE h == w.downloading
           z == [w EXCEPT !.downloading = h]
<1>2. h \in BOOLEAN BY <1>1, WorldTypes
<1>3. w = z BY <1>1, SameDownloading
<1>4. Served(send_static_response(z, c, "static", length, x), c, p)
  BY <1>2, AnswerServes
<1> HIDE DEF z
<1> QED BY <1>3, <1>4

\* Every request to the file service keeps the contract.
LEMMA ModuleRequestServes ==
  ASSUME NEW w, NEW c \in Clients, NEW p \in Pcbs, Asking(w, c, p), NEW x \in Answers,
         NEW req \in {"status", "read", "abort", "data"}
  PROVE  Served(handle_module_request(w, c, req, x), c, p)
<1>1. 1 \in 0 .. Length /\ Length \in 0 .. Length BY Sizes
<1>2. w \in Worlds BY DEF Asking, Serving, Sound
<1>3. x.more \in BOOLEAN BY DEF Answers
<1>4. CASE req = "status" BY <1>1, <1>4, ReplyServes DEF handle_module_request
<1>5. CASE req = "read"
  <2> DEFINE a == Started(w, x.more)
  <2>1. Asking(a, c, p) BY <1>3, StartedServes
  <2>2. handle_module_request(w, c, req, x) = send_static_response(a, c, "static", 1, x)
    BY <1>5 DEF handle_module_request
  <2> HIDE DEF a
  <2> QED BY <1>1, <2>1, <2>2, ReplyServes
<1>6. CASE req = "abort"
  <2> DEFINE at == IF x.more THEN "closing" ELSE "idle"
             a == Cancelled(w, at)
  <2>1. Asking(a, c, p)
    <3>1. at \in {"closing", "idle"} OBVIOUS
    <3> HIDE DEF at
    <3> QED BY <3>1, CancelledServes
  <2>2. handle_module_request(w, c, req, x) = send_static_response(a, c, "static", 1, x)
    BY <1>6 DEF handle_module_request
  <2> HIDE DEF a
  <2> QED BY <1>1, <2>1, <2>2, ReplyServes
<1>7. CASE req = "data"
  <2>1. CASE w.state # "ready" \/ w.downloading
    BY <1>1, <1>7, <2>1, ReplyServes DEF handle_module_request
  <2>2. CASE w.state = "ready" /\ ~w.downloading
    <3>1. handle_module_request(w, c, req, x) =
            send_static_response([w EXCEPT !.downloading = TRUE], c, "download", Length, x)
      BY <1>7, <2>2 DEF handle_module_request
    <3> QED BY <1>1, <2>2, <3>1, AnswerServes
  <2>3. w.downloading \in BOOLEAN BY <1>2, WorldTypes
  <2> QED BY <2>1, <2>2, <2>3
<1> QED BY <1>4, <1>5, <1>6, <1>7

-----------------------------------------------------------------------------
(* The stream.                                                               *)

\* The slot that streams, its connection and the pipeline change.
Restreamed(w, v, c, k) ==
  LET old == w.clients[c]
      p == old.pcb
  IN  /\ v.clients = [w.clients EXCEPT ![c] = k]
      /\ old.kind = "raw16" /\ k.kind = "raw16" /\ k.pcb = p
      /\ v.stream = w.stream /\ v.tcp = w.tcp /\ v.arg = w.arg /\ v.state = w.state
      /\ v.downloading = w.downloading /\ v.honest = w.honest
      /\ \A q \in Pcbs \ {p} : v.unacked[q] = w.unacked[q] /\ v.peer[q] = w.peer[q]
      /\ v.peer[p] # Broken
      /\ v.lent # None => k.leased
      /\ k.leased => v.queue # <<>> /\ v.lent # None /\ v.lent = v.queue[1]
      /\ Chained(v) /\ Framed(v, k)

\* What a step of the stream owes the rest of the world.
LEMMA RestreamedIsSound ==
  ASSUME NEW w, NEW b, Sound(w, b), NEW v \in Worlds, NEW c \in Clients, NEW k,
         Restreamed(w, v, c, k)
  PROVE  Sound(v, b)
<1> DEFINE old == w.clients[c]
<1>1. /\ w \in Worlds /\ Attachments(w) /\ Counted(w, b) /\ Streaming(w) /\ Downloads(w)
      /\ Framing(w) /\ w.honest
  BY DEF Sound
<1>2. v.clients[c] = k /\ \A d \in Clients \ {c} : v.clients[d] = w.clients[d]
  BY <1>1, WorldTypes DEF Restreamed
<1>3. /\ v.stream = w.stream /\ v.tcp = w.tcp /\ v.arg = w.arg /\ v.state = w.state
      /\ v.downloading = w.downloading /\ v.honest = w.honest
      /\ old.kind = "raw16" /\ k.kind = "raw16" /\ k.pcb = old.pcb
  BY DEF Restreamed
<1>4. \A d \in Clients : /\ v.clients[d].pcb = w.clients[d].pcb
                         /\ v.clients[d].kind = w.clients[d].kind
  BY <1>2, <1>3
<1>5. Attachments(v)
  <2>1. ASSUME NEW q \in Pcbs, v.tcp[q] = "free" PROVE v.unacked[q] = 0
    <3>1. q # old.pcb BY <1>1, <1>3, <2>1, Sizes DEF Attachments
    <3> QED BY <1>1, <1>3, <2>1, <3>1 DEF Restreamed, Attachments
  <2> QED BY <1>1, <1>3, <1>4, <2>1 DEF Attachments
<1>6. Counted(v, b)
  <2> SUFFICES ASSUME NEW d \in Clients
               PROVE  LET j == v.clients[d]
                      IN  /\ j.pcb = None => j.kind = "none"
                          /\ j.kind \in {"static", "download"}
                               => j.inflight = v.unacked[j.pcb] /\ j.left + j.inflight <= Length
                          /\ j.kind = "none" /\ ~j.closing /\ j.pcb # None /\ d # b
                               => v.unacked[j.pcb] = 0
                          /\ j.leased \/ j.head \/ j.synced => j.kind = "raw16"
    BY DEF Counted
  <2>1. CASE d = c
    <3>1. k.pcb # None BY <1>1, <1>3 DEF Counted
    <3> QED BY <1>2, <1>3, <2>1, <3>1
  <2>2. CASE d # c
    <3>1. v.clients[d] = w.clients[d] BY <1>2, <2>2
    <3>2. w.clients[d].pcb # None => v.unacked[w.clients[d].pcb] = w.unacked[w.clients[d].pcb]
      BY <1>1, <2>2, Apart DEF Restreamed
    <3> QED BY <1>1, <3>1, <3>2 DEF Counted
  <2> QED BY <2>1, <2>2
<1>7. w.stream = c BY <1>1, <1>3 DEF Streaming
<1>8. Streaming(v)
  <2>1. \A d \in Clients : v.stream = d <=> v.clients[d].kind = "raw16"
    BY <1>1, <1>3, <1>4 DEF Streaming
  <2>2. v.lent # None => v.stream # None /\ v.clients[v.stream].leased
    BY <1>2, <1>3, <1>7, Sizes DEF Restreamed
  <2>3. ASSUME NEW d \in Clients, v.clients[d].leased
        PROVE  v.queue # <<>> /\ v.lent # None /\ v.lent = v.queue[1]
    <3>1. v.clients[d].kind = "raw16" BY <1>6, <2>3 DEF Counted
    <3>2. d = c BY <1>3, <1>7, <2>1, <3>1
    <3> QED BY <1>2, <2>3, <3>2 DEF Restreamed
  <2>4. v.stream # None => v.state = "idle" BY <1>1, <1>3 DEF Streaming
  <2> QED BY <2>1, <2>2, <2>3, <2>4 DEF Streaming
<1>9. Downloads(v) BY <1>1, <1>3, <1>4 DEF Downloads
<1>10. Framing(v)
  <2>1. ASSUME NEW q \in Pcbs PROVE v.peer[q] # Broken
    BY <1>1 DEF Framing, Restreamed
  <2>2. v.stream # None => Framed(v, v.clients[v.stream])
    BY <1>2, <1>3, <1>7 DEF Restreamed
  <2>3. Chained(v) BY DEF Restreamed
  <2> QED BY <2>1, <2>2, <2>3 DEF Framing
<1> QED BY <1>1, <1>3, <1>5, <1>6, <1>8, <1>9, <1>10 DEF Sound

\* A set of naturals has a least element.
LEMMA LeastIndex ==
  ASSUME NEW S \in SUBSET Nat, S # {}
  PROVE  Min(S) \in S /\ \A y \in S : Min(S) <= y
<1> DEFINE R == OpToRel(<, Nat)
<1>1. \A x, y \in Nat : y < x => <<y, x>> \in R BY DEF OpToRel
<1>2. IsWellFoundedOn(R, Nat) BY NatLessThanWellFounded
<1> HIDE DEF R
<1>3. PICK x \in S : \A y \in S : ~(<<y, x>> \in R) BY <1>2, WFMin
<1>4. ASSUME NEW y \in S PROVE x <= y
  <2>1. x \in Nat /\ y \in Nat /\ ~(y < x) BY <1>1, <1>3
  <2> QED BY <2>1
<1> QED BY <1>3, <1>4 DEF Min

\* The end of the queue is as good as the queue.
LEMMA EndOfQueue ==
  ASSUME NEW w \in Worlds, Chained(w), NEW v, NEW m \in Nat \ {0},
         v.queue = SubSeq(w.queue, m, Len(w.queue)), v.tail = w.tail
  PROVE  /\ v.queue \in Seq(Chunks) /\ Chained(v)
         /\ m <= Len(w.queue) => v.queue # <<>> /\ v.queue[1] = w.queue[m]
         /\ m > Len(w.queue) => v.queue = <<>>
<1> DEFINE n == Len(w.queue)
<1>1. w.queue \in Seq(Chunks) /\ n \in Nat BY WorldTypes
<1>2. \A i \in 1 .. n : w.queue[i] \in Chunks BY <1>1
<1>3. CASE m > n
  <2>1. v.queue = <<>> BY <1>1, <1>3, SubSeqEmpty
  <2> QED BY <1>1, <1>3, <2>1, EmptyQueue
<1>4. CASE m <= n
  <2>1. /\ v.queue \in Seq(Chunks) /\ Len(v.queue) = n - m + 1
        /\ \A i \in 1 .. n - m + 1 : v.queue[i] = w.queue[m + i - 1]
    BY <1>1, <1>2, <1>4, SubSeqProperties
  <2>2. 1 \in 1 .. n - m + 1 /\ m + 1 - 1 = m BY <1>1, <1>4
  <2>3. v.queue # <<>> /\ v.queue[1] = w.queue[m]
    <3>1. v.queue[1] = w.queue[m + 1 - 1] BY <2>1, <2>2
    <3>2. Len(v.queue) # 0 BY <1>1, <1>4, <2>1
    <3>3. Len(<<>>) = 0 OBVIOUS
    <3> QED BY <2>2, <3>1, <3>2, <3>3
  <2>4. Len(v.queue) <= Depth BY <1>1, <1>4, <2>1, Sizes DEF Chained
  <2>5. ASSUME NEW i \in 1 .. Len(v.queue) - 1
        PROVE  \/ v.queue[i + 1].off = 0
               \/ /\ v.queue[i].seq = v.queue[i + 1].seq
                  /\ v.queue[i].off = v.queue[i + 1].off - 1
    <3>1. /\ i \in 1 .. n - m + 1 /\ i + 1 \in 1 .. n - m + 1
          /\ m + (i + 1) - 1 = (m + i - 1) + 1 /\ m + i - 1 \in 1 .. n - 1
      BY <1>1, <1>4, <2>1
    <3>2. v.queue[i] = w.queue[m + i - 1] /\ v.queue[i + 1] = w.queue[(m + i - 1) + 1]
      BY <2>1, <3>1
    <3> QED BY <3>1, <3>2 DEF Chained
  <2>6. v.queue[Len(v.queue)] = w.queue[n]
    <3>1. n - m + 1 \in 1 .. n - m + 1 /\ m + (n - m + 1) - 1 = n BY <1>1, <1>4
    <3> QED BY <2>1, <3>1
  <2>7. v.tail # None /\ v.queue # <<>> => v.tail = v.queue[Len(v.queue)]
    <3>1. w.queue # <<>> BY <1>1, <1>4
    <3> QED BY <2>6, <3>1 DEF Chained
  <2> HIDE DEF n
  <2>8. Chained(v) BY <2>4, <2>5, <2>7 DEF Chained
  <2> QED BY <1>4, <2>1, <2>3, <2>8 DEF n
<1> QED BY <1>1, <1>3, <1>4

\* The client of slot c streams to connection p.
Streams(w, c, p) == Serving(w, None, c, p) /\ w.stream = c

\* What is known of the slot that streams.
LEMMA StreamFacts ==
  ASSUME NEW w, NEW c \in Clients, NEW p \in Pcbs, Streams(w, c, p)
  PROVE  LET k == w.clients[c]
         IN  /\ w \in Worlds /\ k \in Slot /\ k.pcb = p /\ k.kind = "raw16"
             /\ k.part \in Nat /\ p # None
             /\ Sound(w, None) /\ Chained(w) /\ Framed(w, k) /\ w.queue \in Seq(Chunks)
             /\ w.lent # None => k.leased
             /\ k.leased => /\ w.queue # <<>> /\ w.lent \in Chunks /\ w.lent = w.queue[1]
                            /\ w.lent # None
                            /\ ~k.head /\ k.synced
             /\ w.peer[p] \in Heads /\ w.peer[p] # Broken
             /\ p \notin w.aborted /\ w.ret = "ERR_OK" /\ w.stream = c
<1> DEFINE k == w.clients[c]
<1>1. /\ w \in Worlds /\ Sound(w, None) /\ k.pcb = p /\ w.stream = c
      /\ p \notin w.aborted /\ w.ret = "ERR_OK" /\ Streaming(w) /\ Framing(w)
  BY DEF Streams, Serving, Sound
<1>2. k \in Slot /\ w.queue \in Seq(Chunks) /\ w.peer[p] \in Heads
      /\ w.lent \in Chunks \cup {None}
  BY <1>1, WorldTypes
<1>3. k.part \in Nat BY <1>2, SlotTypes, Sizes
<1>4. c # None /\ p # None BY Sizes
<1>5. Framed(w, k) /\ Chained(w) /\ w.peer[p] # Broken BY <1>1, <1>4 DEF Framing
<1>6. k.kind = "raw16" /\ (w.lent # None => k.leased) BY <1>1, <1>4 DEF Streaming
<1>7. k.leased => w.queue # <<>> /\ w.lent # None /\ w.lent = w.queue[1]
  BY <1>1 DEF Streaming
<1>8. k.leased => ~k.head /\ k.synced
  <2>1. k.head \in BOOLEAN /\ k.synced \in BOOLEAN BY <1>2, SlotTypes
  <2> HIDE DEF k
  <2> QED BY <1>5, <2>1 DEF Framed
<1> HIDE DEF k
<1> QED BY <1>1, <1>2, <1>3, <1>4, <1>5, <1>6, <1>7, <1>8 DEF k

\* lease_next_raw16_chunk
LEMMA LeaseServes ==
  ASSUME NEW w, NEW c \in Clients, NEW p \in Pcbs, Streams(w, c, p),
         ~w.clients[c].head, ~w.clients[c].leased
  PROVE  LET v == lease_next_raw16_chunk(w, c)
         IN  Streams(v, c, p) /\ v.unacked = w.unacked
<1> DEFINE old == w.clients[c]
           good == {i \in DOMAIN w.queue : Wanted(old, w.queue[i])}
           z == lease_next_raw16_chunk(w, c)
<1>1. /\ w \in Worlds /\ old \in Slot /\ old.pcb = p /\ old.kind = "raw16" /\ p # None
      /\ Sound(w, None) /\ Chained(w) /\ Framed(w, old) /\ w.queue \in Seq(Chunks)
      /\ w.peer[p] \in Heads /\ w.peer[p] # Broken
      /\ p \notin w.aborted /\ w.ret = "ERR_OK" /\ w.stream = c
      /\ ~old.head /\ ~old.leased
  BY StreamFacts
<1>2. w.lent = None BY <1>1, StreamFacts
<1>3. DOMAIN w.queue = 1 .. Len(w.queue) /\ Len(w.queue) \in Nat BY <1>1
<1>4. z = IF good = {} THEN [w EXCEPT !.queue = <<>>]
          ELSE [w EXCEPT !.queue = SubSeq(@, Min(good), Len(@)),
                     !.lent = w.queue[Min(good)],
                     !.clients[c].synced = TRUE, !.clients[c].leased = TRUE,
                     !.clients[c].part = 0]
  BY <1>2 DEF lease_next_raw16_chunk
<1> HIDE DEF z
<1>5. CASE good = {}
  <2> DEFINE v == [w EXCEPT !.queue = <<>>]
  <2>1. z = v BY <1>4, <1>5
  <2>2. <<>> \in Seq(Chunks) OBVIOUS
  <2>3. /\ v \in Worlds /\ v.clients = w.clients /\ v.queue = <<>> /\ v.lent = w.lent
        /\ v.stream = w.stream /\ v.tcp = w.tcp /\ v.arg = w.arg /\ v.state = w.state
        /\ v.downloading = w.downloading /\ v.honest = w.honest /\ v.tail = w.tail
        /\ v.unacked = w.unacked /\ v.peer = w.peer
        /\ v.aborted = w.aborted /\ v.ret = w.ret
    BY <1>1, <2>2 DEF Worlds
  <2> HIDE DEF v
  <2>4. w.clients = [w.clients EXCEPT ![c] = old] BY <1>1, WorldTypes
  <2>5. old.synced => w.queue = <<>>
    <3>1. old.synced => 1 \notin DOMAIN w.queue BY <1>5 DEF Wanted
    <3>2. w.queue # <<>> => Len(w.queue) # 0 BY <1>1, EmptySeq
    <3> QED BY <1>3, <3>1, <3>2
  <2> HIDE DEF old, good
  <2>6. Framed(v, old) BY <1>1, <2>3, <2>5 DEF Framed
  <2>7. Chained(v) BY <2>3, EmptyQueue
  <2>8. Restreamed(w, v, c, old)
    BY <1>1, <1>2, <2>3, <2>4, <2>6, <2>7 DEF Restreamed, old
  <2>9. Sound(v, None) BY <1>1, <2>3, <2>8, RestreamedIsSound
  <2> QED BY <1>1, <2>1, <2>3, <2>9 DEF Streams, Serving, z, old
<1>6. CASE good # {}
  <2> DEFINE m == Min(good)
             ch == w.queue[m]
             q == SubSeq(w.queue, m, Len(w.queue))
             k == [old EXCEPT !.synced = TRUE, !.leased = TRUE, !.part = 0]
             g == [w.clients EXCEPT ![c] = k]
             v == [w EXCEPT !.queue = q, !.lent = ch, !.clients = g]
  <2>1. z = [w EXCEPT !.queue = q, !.lent = ch,
                     !.clients[c].synced = TRUE, !.clients[c].leased = TRUE,
                     !.clients[c].part = 0]
    <3> HIDE DEF good
    <3> QED BY <1>4, <1>6 DEF good
  <2>2. z = v
    <3> HIDE DEF q, ch, good
    <3>1. [w EXCEPT !.queue = q, !.lent = ch,
                     !.clients[c].synced = TRUE, !.clients[c].leased = TRUE,
                     !.clients[c].part = 0] = v
      BY ZenonT(60)
    <3> HIDE DEF v
    <3> QED BY <2>1, <3>1
  <2>3. good \in SUBSET Nat BY <1>3
  <2>4. m \in good /\ \A y \in good : m <= y BY <1>6, <2>3, LeastIndex
  <2>5. m \in 1 .. Len(w.queue) /\ Wanted(old, w.queue[m]) BY <1>3, <2>4
  <2>6. old.synced => m = 1
    <3>1. old.synced => 1 \in good BY <1>3, <2>5 DEF Wanted
    <3> HIDE DEF m, good
    <3>2. old.synced => m <= 1 BY <2>4, <3>1
    <3> QED BY <1>3, <2>5, <3>2
  <2> HIDE DEF m, good, old
  <2>7. ch \in Chunks /\ ch # None BY <1>1, <2>5, Sizes
  <2>8. /\ k \in Slot /\ k.pcb = p /\ k.kind = "raw16" /\ ~k.head /\ k.leased
        /\ k.synced /\ k.part = 0
    <3>1. 0 \in 0 .. Parts BY Sizes
    <3> QED BY <1>1, <3>1 DEF Slot
  <2> HIDE DEF k, ch
  <2>9. g \in [Clients -> Slot] /\ g = [w.clients EXCEPT ![c] = k] /\ g[c] = k
    BY <1>1, <2>8, WorldTypes
  <2>10. q \in Seq(Chunks) BY <1>1, <2>5
  <2>11. q = SubSeq(w.queue, m, Len(w.queue)) /\ ch = w.queue[m] BY DEF ch
  <2> HIDE DEF g, q
  <2>12. /\ v \in Worlds /\ v.clients = g /\ v.queue = q /\ v.lent = ch
        /\ v.stream = w.stream /\ v.tcp = w.tcp /\ v.arg = w.arg /\ v.state = w.state
        /\ v.downloading = w.downloading /\ v.honest = w.honest /\ v.tail = w.tail
        /\ v.unacked = w.unacked /\ v.peer = w.peer
        /\ v.aborted = w.aborted /\ v.ret = w.ret
    BY <1>1, <2>7, <2>9, <2>10 DEF Worlds
  <2> HIDE DEF v
  <2>13. Chained(v) /\ v.queue # <<>> /\ v.queue[1] = ch
    <3>1. PICK n \in Nat \ {0} : n = m /\ n <= Len(w.queue) BY <2>5
    <3>2. v.queue = SubSeq(w.queue, n, Len(w.queue)) /\ ch = w.queue[n]
      BY <2>11, <2>12, <3>1
    <3>3. w \in Worlds /\ Chained(w) /\ v.tail = w.tail BY <1>1, <2>12
    <3>4. /\ v.queue \in Seq(Chunks) /\ Chained(v)
          /\ n <= Len(w.queue) => v.queue # <<>> /\ v.queue[1] = w.queue[n]
          /\ n > Len(w.queue) => v.queue = <<>>
      BY <3>2, <3>3, EndOfQueue
    <3> QED BY <3>1, <3>2, <3>4
  <2>14. MayFollow(w.peer[p], ch)
    <3>1. CASE old.synced
      <4>1. w.queue # <<>> BY <1>1, <2>5
      <4> QED BY <1>1, <2>6, <2>11, <3>1, <4>1 DEF Framed
    <3>2. CASE ~old.synced
      <4>1. w.peer[p] = Status BY <1>1, <3>2 DEF Framed
      <4>2. ch.start BY <2>5, <2>11, <3>2 DEF Wanted
      <4>3. ch.off = 0 BY <2>7, <4>2 DEF Chunks
      <4>4. Status # None /\ Status.part = Parts BY Sizes DEF Status
      <4> QED BY <4>1, <4>3, <4>4 DEF MayFollow
    <3> QED BY <3>1, <3>2
  <2>15. Framed(v, k) BY <2>8, <2>12, <2>14 DEF Framed
  <2>16. Restreamed(w, v, c, k)
    BY <1>1, <2>7, <2>8, <2>9, <2>12, <2>13, <2>15 DEF Restreamed, old
  <2>17. Sound(v, None) BY <1>1, <2>12, <2>16, RestreamedIsSound
  <2> QED BY <1>1, <2>2, <2>8, <2>9, <2>12, <2>17 DEF Streams, Serving, z
<1> QED BY <1>5, <1>6

\* Leasing the next chunk, when there is need of one, keeps the stream going.
LEMMA LeasedServes ==
  ASSUME NEW w, NEW c \in Clients, NEW p \in Pcbs, Streams(w, c, p)
  PROVE  LET v == Leased(w, c) IN Streams(v, c, p) /\ v.unacked = w.unacked
<1>1. CASE w.clients[c].head \/ w.clients[c].leased BY <1>1 DEF Leased
<1>2. CASE ~(w.clients[c].head \/ w.clients[c].leased)
  <2>1. Leased(w, c) = lease_next_raw16_chunk(w, c) BY <1>2 DEF Leased
  <2> QED BY <1>2, <2>1, LeaseServes
<1> QED BY <1>1, <1>2

\* One write.
LEMMA WriteServes ==
  ASSUME NEW w, NEW c \in Clients, NEW p \in Pcbs, Streams(w, c, p),
         w.unacked[p] < SndBuf
  PROVE  LET z == Write(w, c)
         IN  Streams(z, c, p) /\ z.unacked[p] <= w.unacked[p] + 1
<1> DEFINE v == Leased(w, c)
           k == v.clients[c]
           y == [v.unacked EXCEPT ![p] = v.unacked[p] + 1]
           z == Write(w, c)
<1>1. Streams(v, c, p) /\ v.unacked = w.unacked BY LeasedServes
<1> HIDE DEF v
<1>2. /\ v \in Worlds /\ k \in Slot /\ k.pcb = p /\ k.kind = "raw16"
      /\ k.part \in Nat /\ p # None
      /\ Sound(v, None) /\ Chained(v) /\ Framed(v, k) /\ v.queue \in Seq(Chunks)
      /\ v.lent # None => k.leased
      /\ k.leased => /\ v.queue # <<>> /\ v.lent \in Chunks /\ v.lent = v.queue[1]
                     /\ v.lent # None
                     /\ ~k.head /\ k.synced
      /\ v.peer[p] \in Heads /\ v.peer[p] # Broken
      /\ p \notin v.aborted /\ v.ret = "ERR_OK" /\ v.stream = c
  BY <1>1, StreamFacts
<1>3. k.part \in 0 .. Parts /\ k.head \in BOOLEAN /\ k.leased \in BOOLEAN
  BY <1>2, SlotTypes
<1>4. v.unacked[p] \in 0 .. SndBuf BY <1>2, WorldTypes
<1>5. v.unacked[p] + 1 \in 0 .. SndBuf BY <1>1, <1>4, Sizes
<1>6. /\ y \in [Pcbs -> 0 .. SndBuf] /\ y[p] = v.unacked[p] + 1
      /\ \A q \in Pcbs \ {p} : y[q] = v.unacked[q]
  BY <1>2, <1>5, WorldTypes
<1> DEFINE u == [seq |-> v.lent.seq, off |-> v.lent.off, part |-> k.part]
           took == [v EXCEPT !.unacked[k.pcb] = @ + 1, !.clients[c].late = FALSE]
           next == [took EXCEPT !.clients[c].part = @ + 1,
                      !.peer[k.pcb] = IF Follows(@, u) THEN u ELSE Broken]
<1>7. z = IF k.head
            THEN [took EXCEPT !.clients[c].head = FALSE, !.peer[k.pcb] = Status]
          ELSE IF ~k.leased THEN v
          ELSE IF k.part = Parts THEN ReleaseChunk(next, c) ELSE next
  BY DEF Write, v
<1> DEFINE kt == [k EXCEPT !.late = FALSE]
           gt == [v.clients EXCEPT ![c] = kt]
<1>8. took = [v EXCEPT !.clients = gt, !.unacked = y]
  <2>1. took = [v EXCEPT !.unacked[p] = v.unacked[p] + 1, !.clients[c].late = FALSE]
    BY <1>2
  <2>2. [v EXCEPT !.unacked[p] = v.unacked[p] + 1, !.clients[c].late = FALSE]
          = [v EXCEPT !.clients = gt, !.unacked = y]
    BY <1>2, WorldTypes DEF Worlds
  <2> HIDE DEF took, gt, y
  <2> QED BY <2>1, <2>2
<1> HIDE DEF z, k
<1>9. /\ kt \in Slot /\ kt.pcb = p /\ kt.kind = "raw16" /\ kt.head = k.head
      /\ kt.leased = k.leased /\ kt.synced = k.synced /\ kt.part = k.part
  BY <1>2 DEF Slot
<1> HIDE DEF kt
<1>10. /\ gt \in [Clients -> Slot] /\ gt[c] = kt
       /\ \A e : [gt EXCEPT ![c] = e] = [v.clients EXCEPT ![c] = e]
  BY <1>2, <1>9, WorldTypes
<1> HIDE DEF y, gt, took
<1>11. /\ took \in Worlds /\ took.clients = gt /\ took.unacked = y /\ took.peer = v.peer
       /\ took.queue = v.queue /\ took.lent = v.lent /\ took.tail = v.tail
       /\ took.stream = v.stream /\ took.tcp = v.tcp /\ took.arg = v.arg
       /\ took.state = v.state /\ took.downloading = v.downloading
       /\ took.honest = v.honest /\ took.aborted = v.aborted /\ took.ret = v.ret
  BY <1>2, <1>6, <1>8, <1>10 DEF Worlds
<1>12. CASE k.head
  <2> DEFINE j == [kt EXCEPT !.head = FALSE]
             g == [gt EXCEPT ![c] = j]
             e == [v.peer EXCEPT ![p] = Status]
             r == [took EXCEPT !.clients = g, !.peer = e]
  <2>1. z = r
    <3>1. z = [took EXCEPT !.clients[c].head = FALSE, !.peer[p] = Status]
      BY <1>2, <1>7, <1>12
    <3>2. [took EXCEPT !.clients[c].head = FALSE, !.peer[p] = Status]
            = [took EXCEPT !.clients = [took.clients EXCEPT ![c] =
                                          [took.clients[c] EXCEPT !.head = FALSE]],
                           !.peer = [took.peer EXCEPT ![p] = Status]]
      OBVIOUS
    <3> QED BY <1>10, <1>11, <3>1, <3>2
  <2>2. /\ j \in Slot /\ j.pcb = p /\ j.kind = "raw16" /\ ~j.head
        /\ j.leased = k.leased /\ j.synced = k.synced /\ j.part = k.part
    BY <1>9 DEF Slot
  <2> HIDE DEF j
  <2>3. g \in [Clients -> Slot] /\ g = [v.clients EXCEPT ![c] = j] /\ g[c] = j
    BY <1>10, <2>2
  <2>4. /\ e \in [Pcbs -> Heads] /\ e[p] = Status
        /\ \A q \in Pcbs \ {p} : e[q] = v.peer[q]
    BY <1>2, WorldTypes DEF Heads
  <2> HIDE DEF g, e
  <2>5. /\ r \in Worlds /\ r.clients = g /\ r.unacked = y /\ r.peer = e
        /\ r.queue = v.queue /\ r.lent = v.lent /\ r.tail = v.tail
        /\ r.stream = v.stream /\ r.tcp = v.tcp /\ r.arg = v.arg
        /\ r.state = v.state /\ r.downloading = v.downloading
        /\ r.honest = v.honest /\ r.aborted = v.aborted /\ r.ret = v.ret
    BY <1>11, <2>3, <2>4 DEF Worlds
  <2> HIDE DEF r
  <2>6. ~j.leased /\ ~j.synced BY <1>2, <1>12, <2>2 DEF Framed
  <2>7. Framed(r, j) BY <2>2, <2>4, <2>5, <2>6 DEF Framed
  <2>8. Chained(r) BY <1>2, <2>5 DEF Chained
  <2>9. r.lent = None BY <1>2, <2>2, <2>5, <2>6
  <2>10. Restreamed(v, r, c, j)
    BY <1>2, <1>6, <2>2, <2>3, <2>4, <2>5, <2>6, <2>7, <2>8, <2>9, Sizes DEF Restreamed, k
  <2>11. Sound(r, None) BY <1>2, <2>5, <2>10, RestreamedIsSound
  <2>12. Streams(r, c, p) BY <1>2, <2>2, <2>3, <2>5, <2>11 DEF Streams, Serving
  <2>13. r.unacked[p] <= w.unacked[p] + 1 BY <1>1, <1>4, <1>6, <2>5
  <2> QED BY <2>1, <2>12, <2>13 DEF z
<1>13. CASE ~k.head /\ ~k.leased
  <2>1. z = v BY <1>7, <1>13
  <2>2. v.unacked[p] <= w.unacked[p] + 1 BY <1>1, <1>4
  <2> QED BY <1>1, <2>1, <2>2 DEF z
<1>14. CASE ~k.head /\ k.leased
  <2> DEFINE e == [v.peer EXCEPT ![p] = u]
             j == [kt EXCEPT !.part = k.part + 1]
             g == [gt EXCEPT ![c] = j]
  <2>1. Follows(v.peer[p], u)
    <3>1. v.lent \in Chunks BY <1>2, <1>14
    <3>2. u.part = k.part /\ u.off = v.lent.off /\ u.seq = v.lent.seq OBVIOUS
    <3>3. CASE k.part = 0
      <4>1. MayFollow(v.peer[p], v.lent) BY <1>2, <1>14, <3>3 DEF Framed
      <4> HIDE DEF u
      <4> QED BY <3>2, <3>3, <4>1 DEF Follows, MayFollow
    <3>4. CASE k.part # 0
      <4>1. v.peer[p] = [seq |-> v.lent.seq, off |-> v.lent.off, part |-> k.part - 1]
        BY <1>2, <1>14, <3>4 DEF Framed
      <4>2. [u EXCEPT !.part = u.part - 1]
              = [seq |-> v.lent.seq, off |-> v.lent.off, part |-> k.part - 1]
        OBVIOUS
      <4>3. u.part > 0 BY <1>2, <3>2, <3>4
      <4> HIDE DEF u
      <4> QED BY <4>1, <4>2, <4>3 DEF Follows
    <3> QED BY <3>3, <3>4
  <2>2. u \in Units /\ u # None /\ u # Broken
    <3>1. v.lent.seq \in FrameIds /\ v.lent.off \in 0 .. F - 1
      BY <1>2, <1>14 DEF Chunks
    <3>2. u \in Units BY <1>3, <3>1 DEF Units
    <3> QED BY <3>2, Sizes
  <2>3. u = [seq |-> v.lent.seq, off |-> v.lent.off, part |-> k.part] OBVIOUS
  <2> HIDE DEF u
  <2>4. next = [took EXCEPT !.clients = g, !.peer = e]
    <3>1. next = [took EXCEPT !.clients[c].part = took.clients[c].part + 1,
                     !.peer[p] = IF Follows(took.peer[p], u) THEN u ELSE Broken]
      BY <1>2
    <3>2. next = [took EXCEPT !.clients[c].part = k.part + 1, !.peer[p] = u]
      BY <1>9, <1>10, <1>11, <2>1, <3>1
    <3>3. [took EXCEPT !.clients[c].part = k.part + 1, !.peer[p] = u]
            = [took EXCEPT !.clients = [took.clients EXCEPT ![c] =
                                          [took.clients[c] EXCEPT !.part = k.part + 1]],
                           !.peer = [took.peer EXCEPT ![p] = u]]
      OBVIOUS
    <3> HIDE DEF next
    <3> QED BY <1>10, <1>11, <3>2, <3>3
  <2>5. /\ e \in [Pcbs -> Heads] /\ e[p] = u /\ \A q \in Pcbs \ {p} : e[q] = v.peer[q]
    BY <1>2, <2>2, WorldTypes DEF Heads
  <2>6. g = [v.clients EXCEPT ![c] = j] BY <1>10
  <2> HIDE DEF e, next
  <2>7. CASE k.part # Parts
    <3>1. z = next BY <1>7, <1>14, <2>7
    <3>2. k.part + 1 \in 0 .. Parts BY <1>3, <2>7, Sizes
    <3>3. /\ j \in Slot /\ j.pcb = p /\ j.kind = "raw16" /\ ~j.head
          /\ j.leased /\ j.synced /\ j.part = k.part + 1
      BY <1>2, <1>9, <1>14, <3>2 DEF Slot
    <3> HIDE DEF j
    <3>4. g \in [Clients -> Slot] /\ g[c] = j BY <1>10, <3>3
    <3> HIDE DEF g
    <3>5. /\ next \in Worlds /\ next.clients = g /\ next.unacked = y /\ next.peer = e
          /\ next.queue = v.queue /\ next.lent = v.lent /\ next.tail = v.tail
          /\ next.stream = v.stream /\ next.tcp = v.tcp /\ next.arg = v.arg
          /\ next.state = v.state /\ next.downloading = v.downloading
          /\ next.honest = v.honest /\ next.aborted = v.aborted /\ next.ret = v.ret
      BY <1>11, <2>4, <2>5, <3>4 DEF Worlds
    <3>6. (k.part + 1) - 1 = k.part /\ k.part + 1 # 0 BY <1>2
    <3>7. Framed(next, j) BY <2>3, <2>5, <3>3, <3>5, <3>6 DEF Framed
    <3>8. Chained(next) BY <1>2, <3>5 DEF Chained
    <3>9. Restreamed(v, next, c, j)
      BY <1>2, <1>6, <1>14, <2>2, <2>5, <2>6, <3>3, <3>5, <3>7, <3>8 DEF Restreamed, k
    <3>10. Sound(next, None) BY <1>2, <3>5, <3>9, RestreamedIsSound
    <3>11. Streams(next, c, p) BY <1>2, <3>3, <3>4, <3>5, <3>10 DEF Streams, Serving
    <3>12. next.unacked[p] <= w.unacked[p] + 1 BY <1>1, <1>4, <1>6, <3>5
    <3> QED BY <3>1, <3>11, <3>12 DEF z
  <2>8. CASE k.part = Parts
    <3> DEFINE i == [j EXCEPT !.leased = FALSE, !.part = 0]
               h == [v.clients EXCEPT ![c] = i]
               q == Tail(v.queue)
               r == [took EXCEPT !.clients = h, !.peer = e, !.queue = q, !.lent = None]
    <3>1. z = ReleaseChunk(next, c) BY <1>7, <1>14, <2>8
    <3>2. j.leased /\ j = [kt EXCEPT !.part = k.part + 1] BY <1>9, <1>14 DEF Slot
    <3>3. /\ i \in Slot /\ i.pcb = p /\ i.kind = "raw16" /\ ~i.head /\ ~i.leased
          /\ i.synced /\ i.part = 0
      <4>1. 0 \in 0 .. Parts BY Sizes
      <4> QED BY <1>2, <1>9, <1>14, <4>1 DEF Slot
    <3> HIDE DEF i, j
    <3>4. g[c] = j /\ [g EXCEPT ![c] = i] = h BY <1>2, <2>6, WorldTypes
    <3> HIDE DEF g
    <3>5. next.clients = g /\ next.queue = v.queue
      BY <1>11, <2>4 DEF Worlds
    <3>6. z = r
      <4>1. z = [next EXCEPT !.queue = Tail(next.queue), !.lent = None,
                             !.clients[c].leased = FALSE, !.clients[c].part = 0]
        BY <3>1, <3>2, <3>4, <3>5 DEF ReleaseChunk
      <4>2. [next EXCEPT !.queue = Tail(next.queue), !.lent = None,
                         !.clients[c].leased = FALSE, !.clients[c].part = 0]
              = [next EXCEPT !.queue = Tail(next.queue), !.lent = None,
                         !.clients = [next.clients EXCEPT ![c] =
                           [next.clients[c] EXCEPT !.leased = FALSE, !.part = 0]]]
        OBVIOUS
      <4>3. z = [next EXCEPT !.queue = q, !.lent = None, !.clients = h]
        BY <3>4, <3>5, <4>1, <4>2 DEF i
      <4> HIDE DEF h, q
      <4> QED BY <1>11, <2>4, <4>3 DEF Worlds
    <3>7. h \in [Clients -> Slot] /\ h[c] = i BY <1>2, <3>3, WorldTypes
    <3>8. h = [v.clients EXCEPT ![c] = i] OBVIOUS
    <3>9. v.queue # <<>> /\ v.lent = v.queue[1] /\ k.synced BY <1>2, <1>14
    <3>10. q = SubSeq(v.queue, 2, Len(v.queue)) /\ q \in Seq(Chunks)
      BY <1>2, <3>9, TailIsSubSeq
    <3> HIDE DEF h, q
    <3>11. /\ r \in Worlds /\ r.clients = h /\ r.unacked = y /\ r.peer = e
           /\ r.queue = q /\ r.lent = None /\ r.tail = v.tail
           /\ r.stream = v.stream /\ r.tcp = v.tcp /\ r.arg = v.arg
           /\ r.state = v.state /\ r.downloading = v.downloading
           /\ r.honest = v.honest /\ r.aborted = v.aborted /\ r.ret = v.ret
      BY <1>11, <2>5, <3>7, <3>10 DEF Worlds
    <3> HIDE DEF r
    <3>12. /\ Chained(r)
           /\ 2 <= Len(v.queue) => r.queue # <<>> /\ r.queue[1] = v.queue[2]
           /\ 2 > Len(v.queue) => r.queue = <<>>
      <4>1. v \in Worlds /\ Chained(v) /\ r.tail = v.tail /\ 2 \in Nat \ {0}
            /\ r.queue = SubSeq(v.queue, 2, Len(v.queue))
        BY <1>2, <3>10, <3>11
      <4> QED BY <4>1, EndOfQueue
    <3>13. Len(v.queue) \in Nat \ {0} BY <1>2, <3>9, EmptySeq
    <3>14. r.queue # <<>> => MayFollow(u, r.queue[1])
      <4>1. SUFFICES ASSUME 2 <= Len(v.queue) PROVE MayFollow(u, v.queue[2])
        BY <3>12, <3>13
      <4>2. 1 \in 1 .. Len(v.queue) - 1 /\ 1 + 1 = 2 BY <3>13, <4>1
      <4>3. \/ v.queue[2].off = 0
            \/ /\ v.queue[1].seq = v.queue[2].seq
               /\ v.queue[1].off = v.queue[2].off - 1
        BY <1>2, <4>2 DEF Chained
      <4>4. u.part = Parts /\ u.seq = v.queue[1].seq /\ u.off = v.queue[1].off
        BY <2>3, <2>8, <3>9
      <4> QED BY <2>2, <4>3, <4>4 DEF MayFollow
    <3>15. r.queue = <<>> /\ r.tail # None => u.seq = r.tail.seq /\ u.off = r.tail.off
      <4> SUFFICES ASSUME r.queue = <<>>, r.tail # None
                   PROVE  u.seq = r.tail.seq /\ u.off = r.tail.off
        OBVIOUS
      <4>1. ~(2 <= Len(v.queue)) BY <3>12
      <4>2. Len(v.queue) = 1
        <5>1. \A n \in Nat \ {0} : 2 <= n \/ n = 1 OBVIOUS
        <5> QED BY <3>13, <4>1, <5>1
      <4>3. v.tail = v.queue[1] BY <1>2, <3>9, <3>11, <4>2 DEF Chained
      <4> QED BY <2>3, <3>9, <3>11, <4>3
    <3>16. u.part = Parts BY <2>3, <2>8
    <3>17. Framed(r, i) BY <2>2, <2>5, <3>3, <3>11, <3>14, <3>15, <3>16 DEF Framed
    <3>18. Restreamed(v, r, c, i)
      BY <1>2, <1>6, <2>2, <2>5, <3>3, <3>8, <3>11, <3>12, <3>17 DEF Restreamed, k
    <3>19. Sound(r, None) BY <1>2, <3>11, <3>18, RestreamedIsSound
    <3>20. Streams(r, c, p) BY <1>2, <3>3, <3>7, <3>11, <3>19 DEF Streams, Serving
    <3>21. r.unacked[p] <= w.unacked[p] + 1 BY <1>1, <1>4, <1>6, <3>11
    <3> QED BY <3>6, <3>20, <3>21 DEF z
  <2> QED BY <2>7, <2>8
<1> QED BY <1>3, <1>12, <1>13, <1>14

\* The worlds g between the m writes of queue_raw16_data.
Writes(g, w, c, x, m) ==
  /\ g = [i \in 0 .. m |-> IF i = 0 THEN w ELSE Write(g[i - 1], c)]
  /\ queue_raw16_data(w, c, x) =
       LET v == IF x.more /\ Space(g[m], c) > 0 THEN Leased(g[m], c) ELSE g[m]
       IN  IF v.unacked = w.unacked THEN v ELSE Output(v, c, x)

\* The writes of queue_raw16_data, one after another.
LEMMA WritesByStep ==
  ASSUME NEW w, NEW c, NEW x, NEW m \in Nat, m = Min({x.n, Space(w, c)})
  PROVE  \E g : Writes(g, w, c, x, m)
<1> DEFINE Steps(g, n) == g = [i \in 0 .. n |-> IF i = 0 THEN w ELSE Write(g[i - 1], c)]
           X == {n \in Nat : \E g : Steps(g, n)}
<1>1. 0 \in X
  <2> DEFINE h == [i \in 0 .. 0 |-> w]
  <2>1. Steps(h, 0) OBVIOUS
  <2> HIDE DEF Steps
  <2> QED BY <2>1
<1>2. ASSUME NEW n \in Nat, n \in X PROVE n + 1 \in X
  <2>1. PICK g : Steps(g, n) BY <1>2
  <2> DEFINE y == Write(g[n], c)
             h == [i \in 0 .. n + 1 |-> IF i = n + 1 THEN y ELSE g[i]]
  <2>2. Steps(h, n + 1)
    <3> SUFFICES ASSUME NEW i \in 0 .. n + 1
          PROVE h[i] = IF i = 0 THEN w ELSE Write(h[i - 1], c)
      OBVIOUS
    <3>1. CASE i = 0 BY <2>1, <3>1
    <3>2. CASE i # 0
      <4>1. i - 1 \in 0 .. n + 1 /\ i - 1 # n + 1 /\ i - 1 \in 0 .. n BY <3>2
      <4>2. h[i - 1] = g[i - 1] BY <4>1
      <4>3. CASE i = n + 1
        <5>1. i - 1 = n BY <4>3
        <5>2. h[i] = y BY <4>3
        <5> HIDE DEF h
        <5> QED BY <3>2, <4>2, <4>3, <5>1, <5>2
      <4>4. CASE i # n + 1
        <5>1. i \in 0 .. n /\ h[i] = g[i] BY <4>4
        <5> HIDE DEF h
        <5> QED BY <2>1, <3>2, <4>2, <5>1
      <4> QED BY <4>3, <4>4
    <3> QED BY <3>1, <3>2
  <2> HIDE DEF Steps, h
  <2> QED BY <2>2
<1>3. m \in X
  <2> HIDE DEF X
  <2> QED BY <1>1, <1>2, SetInduction
<1> DEFINE f == CHOOSE g : Steps(g, m)
<1>4. queue_raw16_data(w, c, x) =
        LET v == IF x.more /\ Space(f[m], c) > 0 THEN Leased(f[m], c) ELSE f[m]
        IN  IF v.unacked = w.unacked THEN v ELSE Output(v, c, x)
  BY DEF queue_raw16_data
<1>5. Steps(f, m)
  <2> HIDE DEF Steps
  <2> QED BY <1>3
<1> HIDE DEF f
<1> QED BY <1>4, <1>5 DEF Writes

\* queue_raw16_data keeps the contract, however much lwIP takes.
LEMMA QueueStreamServes ==
  ASSUME NEW w, NEW c \in Clients, NEW p \in Pcbs, Streams(w, c, p), NEW x \in Answers
  PROVE  Served(queue_raw16_data(w, c, x), c, p)
<1>1. w \in Worlds /\ w.clients[c].pcb = p BY DEF Streams, Serving, Sound
<1>2. w.unacked[p] \in 0 .. SndBuf BY <1>1, WorldTypes
<1>3. Space(w, c) = SndBuf - w.unacked[p] /\ Space(w, c) \in Nat
  BY <1>1, <1>2, Sizes DEF Space
<1>4. x.n \in Nat /\ x.out \in OutputResults BY Sizes DEF Answers
<1>5. PICK m \in Nat : m = Min({x.n, Space(w, c)}) /\ m <= Space(w, c)
  <2> DEFINE S == {x.n, Space(w, c)}
  <2>1. S \in SUBSET Nat /\ S # {} BY <1>3, <1>4
  <2>2. Min(S) \in S /\ \A y \in S : Min(S) <= y BY <2>1, LeastIndex
  <2> QED BY <2>1, <2>2
<1>6. PICK g : Writes(g, w, c, x, m) BY <1>5, WritesByStep
<1> DEFINE Good(i) == Streams(g[i], c, p) /\ g[i].unacked[p] <= w.unacked[p] + i
           X == {i \in Nat : i <= m => Good(i)}
<1>7. 0 \in X
  <2>1. g[0] = w BY <1>6 DEF Writes
  <2> QED BY <1>2, <2>1
<1>8. ASSUME NEW n \in Nat, n \in X PROVE n + 1 \in X
  <2> SUFFICES ASSUME n + 1 <= m PROVE Good(n + 1) OBVIOUS
  <2>1. Good(n) BY <1>8
  <2>2. n + 1 \in 0 .. m /\ (n + 1) - 1 = n /\ n + 1 # 0 OBVIOUS
  <2>3. g[n + 1] = Write(g[n], c) BY <1>6, <2>2 DEF Writes
  <2>4. g[n].unacked[p] \in Nat
    <3>1. g[n] \in Worlds BY <2>1 DEF Streams, Serving, Sound
    <3> QED BY <3>1, WorldTypes, Sizes
  <2>5. g[n].unacked[p] < SndBuf BY <1>2, <1>3, <1>5, <2>1, <2>4, Sizes
  <2> DEFINE z == Write(g[n], c)
  <2>6. Streams(z, c, p) /\ z.unacked[p] <= g[n].unacked[p] + 1 BY <2>1, <2>5, WriteServes
  <2> HIDE DEF z
  <2>7. z.unacked[p] \in Nat
    <3>1. z \in Worlds BY <2>6 DEF Streams, Serving, Sound
    <3> QED BY <3>1, WorldTypes, Sizes
  <2>8. z.unacked[p] <= w.unacked[p] + (n + 1) BY <1>2, <2>1, <2>4, <2>6, <2>7
  <2> QED BY <2>3, <2>6, <2>8 DEF z
<1>9. Nat \subseteq X
  <2> HIDE DEF X
  <2> QED BY <1>7, <1>8, SetInduction
<1>10. Streams(g[m], c, p) BY <1>5, <1>9
<1> DEFINE v == IF x.more /\ Space(g[m], c) > 0 THEN Leased(g[m], c) ELSE g[m]
<1>11. Streams(v, c, p) BY <1>10, LeasedServes
<1>12. queue_raw16_data(w, c, x) = IF v.unacked = w.unacked THEN v ELSE Output(v, c, x)
  BY <1>6 DEF Writes
<1> HIDE DEF v
<1>13. Serving(v, None, c, p) BY <1>11 DEF Streams
<1>14. Served(v, c, p) BY <1>13, StillServed
<1>15. Output(v, c, x) = v \/ Served(Output(v, c, x), c, p) BY <1>4, <1>13, OutputServes
<1> QED BY <1>12, <1>14, <1>15

\* send_raw16_stream keeps the contract, whether it may stream or not.
LEMMA SendStreamServes ==
  ASSUME NEW w, NEW c \in Clients, NEW p \in Pcbs, Asking(w, c, p), NEW x \in Answers
  PROVE  Served(send_raw16_stream(w, c, x), c, p)
<1> DEFINE old == w.clients[c]
           k == [old EXCEPT !.kind = "raw16", !.head = TRUE]
           g == [w.clients EXCEPT ![c] = k]
           v == [w EXCEPT !.clients = g, !.stream = c]
<1>1. /\ w \in Worlds /\ Sound(w, None) /\ Attachments(w) /\ Counted(w, None)
      /\ Streaming(w) /\ Downloads(w) /\ Framing(w) /\ w.honest
      /\ old.pcb = p /\ old.kind = "none" /\ ~old.closing
      /\ p \notin w.aborted /\ w.ret = "ERR_OK" /\ p # None /\ c # None
  BY Sizes DEF Asking, Serving, Sound
<1>2. CASE w.state # "idle" \/ w.stream # None
  <2>1. send_raw16_stream(w, c, x) = send_and_close(w, c, x)
    BY <1>2 DEF send_raw16_stream
  <2> QED BY <2>1, SendAndCloseServes
<1>3. CASE w.state = "idle" /\ w.stream = None
  <2>1. send_raw16_stream(w, c, x) = queue_raw16_data(v, c, x)
    BY <1>3 DEF send_raw16_stream
  <2>2. old \in Slot BY <1>1, WorldTypes
  <2>3. old.leased \in BOOLEAN /\ old.synced \in BOOLEAN BY <2>2, SlotTypes
  <2>4. ~old.leased /\ ~old.synced BY <1>1, <2>3 DEF Counted
  <2> HIDE DEF old
  <2>5. /\ k \in Slot /\ k.pcb = p /\ k.kind = "raw16" /\ k.head
        /\ ~k.leased /\ ~k.synced
    BY <1>1, <2>2, <2>4 DEF Slot, Kinds
  <2> HIDE DEF k
  <2>6. /\ g \in [Clients -> Slot] /\ g[c] = k
        /\ \A d \in Clients \ {c} : g[d] = w.clients[d]
    BY <1>1, <2>5, WorldTypes
  <2> HIDE DEF g
  <2>7. /\ v \in Worlds /\ v.clients = g /\ v.stream = c /\ v.unacked = w.unacked
        /\ v.downloading = w.downloading
        /\ v.tcp = w.tcp /\ v.arg = w.arg /\ v.peer = w.peer
        /\ v.queue = w.queue /\ v.lent = w.lent /\ v.tail = w.tail
        /\ v.state = w.state /\ v.honest = w.honest /\ v.aborted = w.aborted
        /\ v.ret = w.ret
    BY <1>1, <2>6 DEF Worlds
  <2> HIDE DEF v
  <2>8. \A d \in Clients : v.clients[d].pcb = w.clients[d].pcb
    BY <1>1, <2>5, <2>6, <2>7 DEF old
  <2>9. Attachments(v) BY <1>1, <2>7, <2>8 DEF Attachments
  <2>10. Counted(v, None)
    <3> SUFFICES ASSUME NEW d \in Clients
                 PROVE  LET j == v.clients[d]
                        IN  /\ j.pcb = None => j.kind = "none"
                            /\ j.kind \in {"static", "download"}
                                 => j.inflight = v.unacked[j.pcb] /\ j.left + j.inflight <= Length
                            /\ j.kind = "none" /\ ~j.closing /\ j.pcb # None /\ d # None
                                 => v.unacked[j.pcb] = 0
                            /\ j.leased \/ j.head \/ j.synced => j.kind = "raw16"
      BY DEF Counted
    <3>1. CASE d = c BY <1>1, <2>5, <2>6, <2>7, <3>1
    <3>2. CASE d # c BY <1>1, <2>6, <2>7, <3>2 DEF Counted
    <3> QED BY <3>1, <3>2
  <2>11. \A d \in Clients : w.clients[d].kind # "raw16" /\ ~w.clients[d].leased
    BY <1>1, <1>3, Sizes DEF Streaming, Counted
  <2>12. w.lent = None BY <1>1, <1>3 DEF Streaming
  <2>13. Streaming(v)
    BY <1>1, <1>3, <2>5, <2>6, <2>7, <2>11, <2>12 DEF Streaming
  <2>14. \A d \in Clients : v.clients[d].kind = "download" <=> w.clients[d].kind = "download"
    BY <1>1, <2>5, <2>6, <2>7 DEF old
  <2>15. Downloads(v) BY <1>1, <2>7, <2>14 DEF Downloads
  <2>16. Framing(v)
    <3>1. Chained(v) BY <1>1, <2>7 DEF Framing, Chained
    <3>2. Framed(v, k) BY <2>5 DEF Framed
    <3> QED BY <1>1, <2>6, <2>7, <3>1, <3>2 DEF Framing
  <2>17. Sound(v, None) BY <1>1, <2>7, <2>9, <2>10, <2>13, <2>15, <2>16 DEF Sound
  <2>18. Streams(v, c, p) BY <1>1, <2>5, <2>6, <2>7, <2>17 DEF Streams, Serving
  <2> QED BY <2>1, <2>18, QueueStreamServes
<1> QED BY <1>2, <1>3

-----------------------------------------------------------------------------
(* The callbacks of lwIP.                                                    *)

IInv == Sound(World, None) /\ mute \subseteq MayMute /\ reported \in BOOLEAN

\* The world a handler starts from.
LEMMA WorldFields ==
  /\ World.clients = clients /\ World.stream = raw16_client /\ World.tcp = tcp
  /\ World.arg = arg /\ World.unacked = unacked /\ World.peer = peer
  /\ World.queue = queue /\ World.lent = lent /\ World.tail = tail
  /\ World.state = state /\ World.downloading = downloading /\ World.honest = honest
  /\ World.aborted = {} /\ World.ret = "ERR_OK"
BY DEF World

\* A handler's last world is the next state.
LEMMA BecomeIsSound ==
  ASSUME NEW v, Sound(v, None), Become(v)
  PROVE  Sound(World, None)'
<1>1. v \in Worlds BY DEF Sound
<1>2. /\ World'.clients = v.clients /\ World'.stream = v.stream /\ World'.tcp = v.tcp
      /\ World'.arg = v.arg /\ World'.unacked = v.unacked /\ World'.peer = v.peer
      /\ World'.queue = v.queue /\ World'.lent = v.lent /\ World'.tail = v.tail
      /\ World'.state = v.state /\ World'.downloading = v.downloading
      /\ World'.honest = v.honest
  BY DEF Become, World
<1>3. World' \in Worlds
  <2>1. {} \in SUBSET Pcbs OBVIOUS
  <2> QED BY <1>1, <2>1, WorldTypes DEF Become, World, Worlds
<1> DEFINE z == World'
<1>4. Sound(z, None)
  <2>1. z \in Worlds BY <1>3
  <2> HIDE DEF z
  <2> QED BY <1>2, <2>1, Alike DEF z
<1> QED BY <1>4

\* What the main loop may call, and lwIP may call back.
LEMMA CallIsSound ==
  ASSUME IInv, NEW v, Sound(v, None), Call(v)
  PROVE  IInv' /\ reported'
<1>1. Become(v) /\ reported' = TRUE BY DEF Call
<1>2. Sound(World, None)' BY <1>1, BecomeIsSound
<1>3. mute' = mute BY <1>1 DEF Become
<1> QED BY <1>1, <1>2, <1>3 DEF IInv

LEMMA CallbackIsSound ==
  ASSUME IInv, NEW c, NEW p, NEW v, Served(v, c, p), Callback(p, v)
  PROVE  IInv' /\ ("deselect_mem" \notin OutputResults => reported')
<1>1. Become(v) /\ reported' = (p \in v.aborted <=> v.ret = "ERR_ABRT") BY DEF Callback
<1>2. Sound(World, None)' BY <1>1, BecomeIsSound DEF Served
<1>3. mute' = mute BY <1>1 DEF Become
<1> QED BY <1>1, <1>2, <1>3 DEF IInv, Served

\* A callback is about a connection that is the one of its slot.
LEMMA AttachedServes ==
  ASSUME IInv, NEW p \in Pcbs, Attached(p)
  PROVE  /\ arg[p] \in Clients /\ Serving(World, None, arg[p], p)
         /\ World \in Worlds
<1>1. World \in Worlds /\ Attachments(World) /\ Sound(World, None) BY DEF IInv, Sound
<1>2. arg[p] \in Clients BY <1>1, WorldTypes, WorldFields DEF Attached
<1>3. World.clients[arg[p]].pcb = p BY <1>1, <1>2, WorldFields DEF Attachments
<1> QED BY <1>1, <1>2, <1>3, WorldFields DEF Serving

\* An answer of lwIP is an answer.
LEMMA Answerable ==
  ASSUME NEW p \in Pcbs, NEW a, NEW x \in Outcomes(p, a)
  PROVE  x \in Answers
BY DEF Outcomes

\* Each callback keeps the invariant and reports its abort.
LEMMA AcceptIsSound ==
  ASSUME IInv, NEW p \in Pcbs, http_accept(p)
  PROVE  IInv' /\ ("deselect_mem" \notin OutputResults => reported')
<1> DEFINE n == [Empty EXCEPT !.pcb = p]
<1>1. PICK c \in Clients :
        /\ clients[c].pcb = None
        /\ Callback(p, [World EXCEPT !.clients[c] = n, !.tcp[p] = "open", !.arg[p] = c])
  BY DEF http_accept, InUse
<1> DEFINE g == [clients EXCEPT ![c] = n]
           t == [tcp EXCEPT ![p] = "open"]
           a == [arg EXCEPT ![p] = c]
           v == [World EXCEPT !.clients = g, !.tcp = t, !.arg = a]
<1>2. v = [World EXCEPT !.clients[c] = n, !.tcp[p] = "open", !.arg[p] = c]
  BY WorldFields
<1>3. /\ World \in Worlds /\ Attachments(World) /\ Counted(World, None)
      /\ Streaming(World) /\ Downloads(World) /\ Framing(World) /\ World.honest
  BY DEF IInv, Sound
<1>4. /\ n \in Slot /\ n.pcb = p /\ n.kind = "none" /\ ~n.leased /\ ~n.head /\ ~n.synced
  BY EmptySlot DEF Slot
<1> HIDE DEF n
<1>5. /\ clients \in [Clients -> Slot] /\ tcp \in [Pcbs -> {"free", "open", "closing"}]
      /\ arg \in [Pcbs -> Clients \cup {None}]
  BY <1>3, WorldTypes, WorldFields
<1>6. /\ g \in [Clients -> Slot] /\ g[c] = n /\ \A d \in Clients \ {c} : g[d] = clients[d]
      /\ t \in [Pcbs -> {"free", "open", "closing"}] /\ t[p] = "open"
      /\ \A q \in Pcbs \ {p} : t[q] = tcp[q]
      /\ a \in [Pcbs -> Clients \cup {None}] /\ a[p] = c
      /\ \A q \in Pcbs \ {p} : a[q] = arg[q]
  BY <1>4, <1>5
<1>7. /\ arg[p] = None /\ unacked[p] = 0 /\ \A q \in Pcbs : arg[q] # c
      /\ \A d \in Clients : clients[d].pcb # p
  <2>1. tcp[p] = "free" BY DEF http_accept
  <2>2. arg[p] = None /\ unacked[p] = 0 BY <1>3, <2>1, WorldFields DEF Attachments
  <2>3. \A q \in Pcbs : clients[c].pcb # q BY <1>1, Sizes
  <2> QED BY <1>3, <2>2, <2>3, WorldFields, Sizes DEF Attachments
<1> HIDE DEF g, t, a
<1>8. /\ v \in Worlds /\ v.clients = g /\ v.tcp = t /\ v.arg = a
      /\ v.stream = raw16_client /\ v.unacked = unacked /\ v.peer = peer
      /\ v.queue = queue /\ v.lent = lent /\ v.tail = tail /\ v.state = state
      /\ v.downloading = downloading /\ v.honest = honest
      /\ v.aborted = {} /\ v.ret = "ERR_OK"
  <2> DEFINE w == World
  <2>1. w \in Worlds BY <1>3
  <2> HIDE DEF w
  <2>2. v = [w EXCEPT !.clients = g, !.tcp = t, !.arg = a] BY DEF w
  <2> HIDE DEF v
  <2>3. /\ v \in Worlds /\ v.clients = g /\ v.tcp = t /\ v.arg = a
        /\ v.stream = w.stream /\ v.unacked = w.unacked /\ v.peer = w.peer
        /\ v.queue = w.queue /\ v.lent = w.lent /\ v.tail = w.tail /\ v.state = w.state
        /\ v.downloading = w.downloading /\ v.honest = w.honest
        /\ v.aborted = w.aborted /\ v.ret = w.ret
    BY <1>6, <2>1, <2>2 DEF Worlds
  <2> QED BY <2>3, WorldFields DEF w, v
<1> HIDE DEF v
<1>9. Attachments(v)
  <2>1. ASSUME NEW q \in Pcbs, NEW d \in Clients
        PROVE  v.clients[d].pcb = q <=> v.arg[q] = d
    <3>1. clients[d].pcb = q <=> arg[q] = d BY <1>3, WorldFields DEF Attachments
    <3>2. CASE q = p BY <1>4, <1>6, <1>7, <1>8, <3>2
    <3>3. CASE q # p BY <1>4, <1>6, <1>7, <1>8, <3>1, <3>3
    <3> QED BY <3>2, <3>3
  <2>2. \A q \in Pcbs : v.arg[q] # None => v.tcp[q] = "open"
    BY <1>3, <1>6, <1>8, WorldFields DEF Attachments
  <2>3. \A q \in Pcbs : v.tcp[q] = "free" => v.unacked[q] = 0
    BY <1>3, <1>6, <1>8, WorldFields DEF Attachments
  <2> QED BY <2>1, <2>2, <2>3 DEF Attachments
<1>10. clients[c].kind = "none" BY <1>1, <1>3, WorldFields DEF Counted
<1>11. Counted(v, None)
  <2> SUFFICES ASSUME NEW d \in Clients
               PROVE  LET j == v.clients[d]
                      IN  /\ j.pcb = None => j.kind = "none"
                          /\ j.kind \in {"static", "download"}
                               => j.inflight = v.unacked[j.pcb] /\ j.left + j.inflight <= Length
                          /\ j.kind = "none" /\ ~j.closing /\ j.pcb # None /\ d # None
                               => v.unacked[j.pcb] = 0
                          /\ j.leased \/ j.head \/ j.synced => j.kind = "raw16"
    BY DEF Counted
  <2>1. CASE d = c BY <1>4, <1>6, <1>7, <1>8, <2>1
  <2>2. CASE d # c
    <3>1. v.clients[d] = clients[d] BY <1>6, <1>8, <2>2
    <3> QED BY <1>3, <1>8, <3>1, WorldFields DEF Counted
  <2> QED BY <2>1, <2>2
<1>12. \A d \in Clients : /\ v.clients[d].kind = clients[d].kind
                          /\ v.clients[d].leased => clients[d].leased
                          /\ d # c => v.clients[d] = clients[d]
  BY <1>4, <1>6, <1>8, <1>10
<1>13. raw16_client # c
  BY <1>3, <1>10, WorldFields DEF Streaming
<1>14. raw16_client \in Clients \cup {None} BY <1>3, WorldTypes, WorldFields
<1>15. Streaming(v)
  BY <1>3, <1>8, <1>12, <1>13, <1>14, WorldFields DEF Streaming
<1>16. Downloads(v) BY <1>3, <1>8, <1>12, WorldFields DEF Downloads
<1>17. Framing(v)
  <2>1. Chained(v) BY <1>3, <1>8, WorldFields DEF Framing, Chained
  <2>2. ASSUME raw16_client # None PROVE Framed(v, v.clients[raw16_client])
    <3>1. v.clients[raw16_client] = clients[raw16_client] BY <1>12, <1>13, <1>14, <2>2
    <3>2. Framed(World, clients[raw16_client]) BY <1>3, <2>2, WorldFields DEF Framing
    <3> DEFINE k == clients[raw16_client]
    <3>3. Framed(World, k) BY <3>2
    <3> HIDE DEF k
    <3>4. Framed(v, k) BY <1>8, <3>3, WorldFields DEF Framed
    <3> QED BY <3>1, <3>4 DEF k
  <2> QED BY <1>3, <1>8, <2>1, <2>2, WorldFields DEF Framing
<1>18. Sound(v, None)
  BY <1>3, <1>8, <1>9, <1>11, <1>15, <1>16, <1>17, WorldFields DEF Sound
<1>19. Served(v, c, p) BY <1>4, <1>6, <1>8, <1>18 DEF Served, Serving
<1>20. Callback(p, v) BY <1>1, <1>2
<1> QED BY <1>19, <1>20, CallbackIsSound

LEMMA RejectIsSound ==
  ASSUME IInv, NEW p \in Pcbs, http_accept_reject(p)
  PROVE  IInv' /\ ("deselect_mem" \notin OutputResults => reported')
<1> DEFINE A == {p}
           w == World
           v == [w EXCEPT !.aborted = A, !.ret = "ERR_ABRT"]
<1>1. w \in Worlds /\ Sound(w, None) BY DEF IInv, Sound
<1>2. A \in SUBSET Pcbs OBVIOUS
<1>3. Become(v) /\ reported' = (p \in v.aborted <=> v.ret = "ERR_ABRT")
  BY DEF http_accept_reject, Callback
<1> HIDE DEF w, A
<1>4. /\ v \in Worlds /\ v.clients = w.clients /\ v.stream = w.stream /\ v.tcp = w.tcp
      /\ v.arg = w.arg /\ v.unacked = w.unacked /\ v.peer = w.peer /\ v.queue = w.queue
      /\ v.lent = w.lent /\ v.tail = w.tail /\ v.state = w.state
      /\ v.downloading = w.downloading /\ v.honest = w.honest
      /\ v.aborted = A /\ v.ret = "ERR_ABRT"
  BY <1>1, <1>2 DEF Worlds
<1> HIDE DEF v
<1>5. Sound(v, None) BY <1>1, <1>4, Alike
<1>6. p \in v.aborted BY <1>4 DEF A
<1>7. Sound(World, None)' BY <1>3, <1>5, BecomeIsSound
<1>8. mute' = mute BY <1>3 DEF Become
<1>9. reported' BY <1>3, <1>4, <1>6
<1>10. reported' \in BOOLEAN BY <1>3
<1> QED BY <1>7, <1>8, <1>9, <1>10 DEF IInv

LEMMA DataIsSound ==
  ASSUME IInv, NEW p \in Pcbs, http_data(p)
  PROVE  IInv' /\ ("deselect_mem" \notin OutputResults => reported')
<1> DEFINE c == arg[p]
           v == Heard(World, c)
<1>1. Attached(p) /\ Callback(p, v) BY DEF http_data
<1>2. c \in Clients /\ Serving(World, None, c, p) BY <1>1, AttachedServes
<1> HIDE DEF c
<1>3. Serving(v, None, c, p) BY <1>2, HeardServes
<1> HIDE DEF v
<1>4. Served(v, c, p) BY <1>3, StillServed
<1> QED BY <1>1, <1>4, CallbackIsSound

LEMMA FinIsSound ==
  ASSUME IInv, NEW p \in Pcbs, NEW x, http_fin(p, x)
  PROVE  IInv' /\ ("deselect_mem" \notin OutputResults => reported')
<1> DEFINE c == arg[p]
           v == close_client(World, c, x)
<1>1. Attached(p) /\ Callback(p, v) BY DEF http_fin
<1>2. c \in Clients /\ Serving(World, None, c, p) BY <1>1, AttachedServes
<1> HIDE DEF c
<1>3. Served(v, c, p) BY <1>2, CloseServes
<1> HIDE DEF v
<1> QED BY <1>1, <1>3, CallbackIsSound

LEMMA RequestIsSound ==
  ASSUME IInv, NEW p \in Pcbs, NEW req \in Requests, NEW x \in Answers,
         http_request(p, req, x)
  PROVE  IInv' /\ ("deselect_mem" \notin OutputResults => reported')
<1> DEFINE c == arg[p]
           w == Heard(World, c)
           v == CASE req = "page"   -> send_static_response(w, c, "static", Length, x)
                  [] req = "small"  -> send_and_close(w, c, x)
                  [] req = "stream" -> send_raw16_stream(w, c, x)
                  [] OTHER          -> handle_module_request(w, c, req, x)
<1>1. /\ Attached(p) /\ Callback(p, v)
      /\ clients[c].kind = "none" /\ ~clients[c].closing
  BY DEF http_request
<1>2. c \in Clients /\ Serving(World, None, c, p) /\ World \in Worlds
  BY <1>1, AttachedServes
<1>3. clients[c] \in Slot BY <1>2, WorldTypes, WorldFields
<1> HIDE DEF c
<1>4. /\ Serving(w, None, c, p) /\ w.clients[c] = [clients[c] EXCEPT !.idle = 0]
  BY <1>2, HeardServes, WorldFields
<1> HIDE DEF w
<1>5. Asking(w, c, p) BY <1>1, <1>3, <1>4 DEF Asking, Slot
<1>6. req \in {"page", "small", "stream", "status", "read", "abort", "data"}
  BY ClientAssumption
<1>7. Length \in 0 .. Length BY Sizes
<1>8. Served(v, c, p)
  <2>1. CASE req = "page"
    <3>1. v = send_static_response(w, c, "static", Length, x) BY <2>1
    <3> QED BY <1>2, <1>5, <1>7, <3>1, ReplyServes
  <2>2. CASE req = "small"
    <3>1. v = send_and_close(w, c, x) BY <2>2
    <3> QED BY <1>2, <1>5, <3>1, SendAndCloseServes
  <2>3. CASE req = "stream"
    <3>1. v = send_raw16_stream(w, c, x) BY <2>3
    <3> QED BY <1>2, <1>5, <3>1, SendStreamServes
  <2>4. CASE req \in {"status", "read", "abort", "data"}
    <3>1. v = handle_module_request(w, c, req, x) BY <2>4
    <3> QED BY <1>2, <1>5, <2>4, <3>1, ModuleRequestServes
  <2> QED BY <1>6, <2>1, <2>2, <2>3, <2>4
<1> HIDE DEF v
<1> QED BY <1>1, <1>8, CallbackIsSound

\* A slot with a stream is the one that streams.
LEMMA StreamingSlot ==
  ASSUME NEW w, NEW c \in Clients, NEW p \in Pcbs, Serving(w, None, c, p),
         w.clients[c].kind = "raw16"
  PROVE  Streams(w, c, p)
BY DEF Streams, Serving, Sound, Streaming

LEMMA PollIsSound ==
  ASSUME IInv, NEW p \in Pcbs, NEW x \in Answers, http_poll(p, x)
  PROVE  IInv' /\ ("deselect_mem" \notin OutputResults => reported')
<1> DEFINE c == arg[p]
           k == clients[c]
           w == queue_static_chunk(World, c, x)
           v == IF k.closing THEN close_client(World, c, x)
                ELSE IF k.kind = "raw16" THEN queue_raw16_data(World, c, x)
                ELSE IF k.kind \in {"static", "download"} /\ k.inflight = 0
                  THEN IF Refilled(w, c) THEN w ELSE Idle(w, c)
                ELSE Idle(World, c)
<1>1. Attached(p) /\ Callback(p, v) BY DEF http_poll
<1>2. c \in Clients /\ Serving(World, None, c, p) BY <1>1, AttachedServes
<1>3. World.clients[c] = k BY WorldFields
<1> HIDE DEF c, k, w
<1>4. Served(v, c, p)
  <2>1. CASE k.closing BY <1>2, <2>1, CloseServes
  <2>2. CASE ~k.closing /\ k.kind = "raw16"
    <3>1. Streams(World, c, p) BY <1>2, <1>3, <2>2, StreamingSlot
    <3> QED BY <1>2, <2>2, <3>1, QueueStreamServes
  <2>3. CASE ~k.closing /\ k.kind \in {"static", "download"} /\ k.inflight = 0
    <3>1. Served(w, c, p) BY <1>2, <1>3, <2>3, QueueServes DEF w
    <3>2. CASE Refilled(w, c) BY <2>3, <3>1, <3>2
    <3>3. CASE ~Refilled(w, c)
      <4>1. Serving(w, None, c, p) BY <3>1, <3>3 DEF Served, Refilled
      <4>2. Served(Idle(w, c), c, p) BY <1>2, <4>1, IdleServes
      <4> QED BY <2>3, <3>3, <4>2
    <3> QED BY <3>2, <3>3
  <2>4. CASE /\ ~k.closing /\ k.kind # "raw16"
             /\ ~(k.kind \in {"static", "download"} /\ k.inflight = 0)
    <3>1. Served(Idle(World, c), c, p) BY <1>2, IdleServes
    <3> QED BY <2>4, <3>1
  <2> QED BY <2>1, <2>2, <2>3, <2>4
<1> HIDE DEF v
<1> QED BY <1>1, <1>4, CallbackIsSound

\* What a slot remembers of its progress.
LEMMA LateIsSound ==
  ASSUME NEW w, Sound(w, None), NEW c \in Clients, NEW e \in BOOLEAN
  PROVE  LET v == [w EXCEPT !.clients[c].late = e]
         IN  /\ Sound(v, None) /\ Slotted(w, v, c, v.clients[c])
             /\ v.clients[c] = [w.clients[c] EXCEPT !.late = e]
<1> DEFINE old == w.clients[c]
           k == [old EXCEPT !.late = e]
           v == [w EXCEPT !.clients[c].late = e]
<1>1. w \in Worlds BY DEF Sound
<1>2. old \in Slot BY <1>1, WorldTypes
<1> HIDE DEF old
<1>3. /\ k \in Slot /\ k.pcb = old.pcb /\ k.kind = old.kind /\ k.closing = old.closing
      /\ k.left = old.left /\ k.inflight = old.inflight /\ k.head = old.head
      /\ k.leased = old.leased /\ k.part = old.part /\ k.synced = old.synced
  BY <1>2 DEF Slot
<1>4. v = [w EXCEPT !.clients = [w.clients EXCEPT ![c] = k]] BY DEF old
<1> HIDE DEF k, v
<1>5. Slotted(w, v, c, k) BY <1>1, <1>3, <1>4, SetSlot
<1>6. Sound(v, None) BY <1>1, <1>3, <1>5, TouchedIsSound DEF old
<1>7. v.clients[c] = k BY <1>5 DEF Slotted
<1> QED BY <1>5, <1>6, <1>7 DEF v, k, old

\* The peer has acknowledged some units, of what the slot says it waits for.
Acknowledged(w, c, s, y) == [w EXCEPT !.clients = [w.clients EXCEPT ![c] = s], !.unacked = y]

LEMMA AcknowledgedServes ==
  ASSUME NEW w, NEW c \in Clients, NEW p \in Pcbs, Serving(w, None, c, p),
         NEW y \in [Pcbs -> 0 .. SndBuf], \A q \in Pcbs \ {p} : y[q] = w.unacked[q],
         y[p] <= w.unacked[p], w.unacked[p] # 0, NEW s \in Slot,
         s.pcb = w.clients[c].pcb, s.kind = w.clients[c].kind,
         s.closing = w.clients[c].closing, s.left = w.clients[c].left,
         s.head = w.clients[c].head, s.leased = w.clients[c].leased,
         s.part = w.clients[c].part, s.synced = w.clients[c].synced,
         s.kind \in {"static", "download"} => s.inflight = y[p]
  PROVE  LET v == Acknowledged(w, c, s, y) IN Serving(v, None, c, p) /\ v.clients[c] = s
<1> DEFINE g == [w.clients EXCEPT ![c] = s]
           v == [w EXCEPT !.clients = g, !.unacked = y]
           k == w.clients[c]
<1>1. /\ w \in Worlds /\ Counted(w, None) /\ Downloads(w) /\ k.pcb = p /\ p # None
      /\ Sound(w, None) /\ p \notin w.aborted /\ w.ret = "ERR_OK"
  BY Sizes DEF Serving, Sound
<1>2. /\ k \in Slot /\ k.inflight \in 0 .. Length /\ k.left \in 0 .. Length
      /\ w.unacked[p] \in 0 .. SndBuf /\ SndBuf \in Nat /\ Length \in Nat
      /\ y[p] \in 0 .. SndBuf
  BY <1>1, WorldTypes, SlotTypes, Sizes
<1> HIDE DEF k
<1>3. /\ k.kind \in {"static", "download"}
           => k.inflight = w.unacked[p] /\ k.left + k.inflight <= Length
      /\ k.kind = "none" /\ ~k.closing => w.unacked[p] = 0
  BY <1>1, Sizes DEF Counted, k
<1>4. /\ k.kind \in {"static", "download"} => k.left + s.inflight <= Length
      /\ ~(k.kind = "none" /\ ~k.closing)
  BY <1>2, <1>3 DEF k
<1>5. /\ g \in [Clients -> Slot] /\ g[c] = s
      /\ \A d \in Clients \ {c} : g[d] = w.clients[d]
  BY <1>1, WorldTypes
<1>6. g = [w.clients EXCEPT ![c] = s] OBVIOUS
<1> HIDE DEF g
<1>7. /\ v \in Worlds /\ v.clients = g /\ v.unacked = y /\ v.downloading = w.downloading
      /\ v.stream = w.stream /\ v.tcp = w.tcp /\ v.arg = w.arg /\ v.peer = w.peer
      /\ v.queue = w.queue /\ v.lent = w.lent /\ v.tail = w.tail
      /\ v.state = w.state /\ v.honest = w.honest /\ v.aborted = w.aborted
      /\ v.ret = w.ret
  BY <1>1, <1>5 DEF Worlds
<1> HIDE DEF v
<1>8. Reslotted(w, v, None, c, s)
  BY <1>1, <1>4, <1>5, <1>6, <1>7 DEF Reslotted, k
<1>9. \A d \in Clients : v.clients[d].kind = w.clients[d].kind BY <1>5, <1>7
<1>10. Downloads(v) BY <1>1, <1>7, <1>9 DEF Downloads
<1>11. Sound(v, None) BY <1>1, <1>7, <1>8, <1>10, ReslottedIsSound
<1>12. Serving(v, None, c, p) /\ v.clients[c] = s
  BY <1>1, <1>5, <1>7, <1>11 DEF Serving, k
<1> QED BY <1>12 DEF v, g, Acknowledged

LEMMA SentIsSound ==
  ASSUME IInv, NEW p \in Pcbs, NEW a \in 1 .. unacked[p], NEW x \in Answers,
         http_sent(p, a, x)
  PROVE  IInv' /\ ("deselect_mem" \notin OutputResults => reported')
<1> DEFINE c == arg[p]
           k == clients[c]
           w == [Heard(World, c) EXCEPT !.unacked[p] = @ - a]
           v == IF k.kind \in {"static", "download"}
                  THEN queue_static_chunk([w EXCEPT !.clients[c].inflight =
                                             IF a < @ THEN @ - a ELSE 0], c, x)
                ELSE IF k.closing THEN close_client(w, c, x)
                ELSE IF k.kind = "raw16"
                  THEN queue_raw16_data([w EXCEPT !.clients[c].late = FALSE], c, x)
                ELSE w
<1>1. Attached(p) /\ Callback(p, v) BY DEF http_sent
<1>2. c \in Clients /\ Serving(World, None, c, p) /\ World \in Worlds
  BY <1>1, AttachedServes
<1>3. clients[c] \in Slot /\ clients \in [Clients -> Slot] /\ unacked \in [Pcbs -> 0 .. SndBuf]
  BY <1>2, WorldTypes, WorldFields
<1>4. /\ k.kind \in {"static", "download"} => k.inflight = unacked[p]
      /\ ~(k.kind = "none" /\ ~k.closing)
      /\ k.pcb = p
  <2>1. Counted(World, None) /\ clients[c].pcb = p BY <1>2, WorldFields DEF Serving, Sound
  <2>2. unacked[p] # 0 BY <1>3
  <2> QED BY <1>2, <2>1, <2>2, WorldFields, Sizes DEF Counted
<1> HIDE DEF c
<1> DEFINE s == [k EXCEPT !.idle = 0]
           y == [unacked EXCEPT ![p] = unacked[p] - a]
<1>5. /\ s \in Slot /\ s.pcb = k.pcb /\ s.kind = k.kind /\ s.closing = k.closing
      /\ s.left = k.left /\ s.head = k.head /\ s.leased = k.leased /\ s.part = k.part
      /\ s.synced = k.synced /\ s.inflight = k.inflight
  <2>1. 0 \in 0 .. IdleLimit - 1 BY Sizes
  <2> QED BY <1>3, <2>1 DEF Slot
<1>6. w = [World EXCEPT !.clients = [clients EXCEPT ![c] = s], !.unacked = y]
  BY <1>2, <1>3 DEF Heard, World
<1>7. /\ y \in [Pcbs -> 0 .. SndBuf] /\ y[p] = unacked[p] - a
      /\ \A q \in Pcbs \ {p} : y[q] = World.unacked[q]
      /\ y[p] <= World.unacked[p] /\ World.unacked[p] # 0
  BY <1>3, Sizes, WorldFields
<1>8. Served(v, c, p)
  <2>1. CASE k.kind \in {"static", "download"}
    <3> DEFINE n == IF a < s.inflight THEN s.inflight - a ELSE 0
               j == [s EXCEPT !.inflight = n]
               t == [World EXCEPT !.clients = [clients EXCEPT ![c] = j], !.unacked = y]
    <3>1. n = unacked[p] - a /\ n \in 0 .. Length
      BY <1>3, <1>4, <1>5, <2>1, SlotTypes, Sizes
    <3>2. v = queue_static_chunk([w EXCEPT !.clients[c].inflight =
                                    IF a < @ THEN @ - a ELSE 0], c, x)
      BY <2>1
    <3>3. [w EXCEPT !.clients[c].inflight = IF a < @ THEN @ - a ELSE 0] = t
      <4> DEFINE g == [clients EXCEPT ![c] = s]
                 h == [clients EXCEPT ![c] = j]
      <4>1. w.clients = g BY <1>2, <1>6 DEF Worlds
      <4>2. g[c] = s /\ [g EXCEPT ![c] = j] = h BY <1>2, <1>3
      <4>3. [w EXCEPT !.clients[c].inflight = IF a < @ THEN @ - a ELSE 0]
              = [w EXCEPT !.clients = [w.clients EXCEPT ![c] =
                   [w.clients[c] EXCEPT !.inflight =
                      IF a < w.clients[c].inflight THEN w.clients[c].inflight - a ELSE 0]]]
        <5> HIDE DEF w
        <5> QED OBVIOUS
      <4> HIDE DEF g
      <4>4. j = [g[c] EXCEPT !.inflight = IF a < g[c].inflight THEN g[c].inflight - a ELSE 0]
        BY <4>2
      <4> HIDE DEF w, s, j, n
      <4>5. [w EXCEPT !.clients[c].inflight = IF a < @ THEN @ - a ELSE 0]
              = [w EXCEPT !.clients = h]
        BY <4>1, <4>2, <4>3, <4>4
      <4> HIDE DEF h, y
      <4>6. [w EXCEPT !.clients = h] = [World EXCEPT !.clients = h, !.unacked = y]
        BY <1>2, <1>6 DEF Worlds
      <4> QED BY <4>5, <4>6 DEF h
    <3>4. v = queue_static_chunk(t, c, x) BY <3>2, <3>3
    <3> HIDE DEF n, v
    <3>5. /\ j \in Slot /\ j.pcb = k.pcb /\ j.kind = k.kind /\ j.closing = k.closing
          /\ j.left = k.left /\ j.head = k.head /\ j.leased = k.leased /\ j.part = k.part
          /\ j.synced = k.synced /\ j.inflight = n
      <4> HIDE DEF s
      <4> QED BY <1>5, <3>1 DEF Slot
    <3> HIDE DEF j
    <3>6. Serving(t, None, c, p) /\ t.clients[c] = j
      <4>1. t = Acknowledged(World, c, j, y) BY WorldFields DEF Acknowledged
      <4>2. World.clients[c] = k /\ (j.kind \in {"static", "download"} => j.inflight = y[p])
        BY <1>7, <3>1, <3>5, WorldFields
      <4> HIDE DEF t, k, y
      <4> QED BY <1>2, <1>7, <3>5, <4>1, <4>2, AcknowledgedServes
    <3> HIDE DEF t
    <3>7. t.clients[c].kind \in {"static", "download"} BY <2>1, <3>5, <3>6
    <3> QED BY <1>2, <3>4, <3>6, <3>7, QueueServes
  <2>2. CASE k.kind \notin {"static", "download"}
    <3> HIDE DEF s
    <3>1. Serving(w, None, c, p) /\ w.clients[c] = s
      <4>1. w = Acknowledged(World, c, s, y) BY <1>6, WorldFields DEF Acknowledged
      <4>2. World.clients[c] = k BY WorldFields
      <4> HIDE DEF w, k, y
      <4> QED BY <1>2, <1>5, <1>7, <2>2, <4>1, <4>2, AcknowledgedServes
    <3> HIDE DEF w
    <3>2. CASE k.closing
      <4>1. v = close_client(w, c, x) BY <2>2, <3>2
      <4> QED BY <1>2, <3>1, <4>1, CloseServes
    <3>3. CASE ~k.closing /\ k.kind = "raw16"
      <4> DEFINE l == [w EXCEPT !.clients[c].late = FALSE]
      <4>1. v = queue_raw16_data(l, c, x) BY <2>2, <3>3
      <4>2. Sound(w, None) /\ w.clients[c].pcb = p /\ p \notin w.aborted /\ w.ret = "ERR_OK"
        BY <3>1 DEF Serving
      <4>3. /\ Sound(l, None) /\ Slotted(w, l, c, l.clients[c])
            /\ l.clients[c] = [w.clients[c] EXCEPT !.late = FALSE]
        BY <1>2, <4>2, LateIsSound
      <4> HIDE DEF l
      <4>4. l.clients[c].pcb = p /\ l.clients[c].kind = "raw16"
        BY <1>5, <3>1, <3>3, <4>2, <4>3
      <4>5. Serving(l, None, c, p) BY <4>2, <4>3, <4>4 DEF Serving, Slotted
      <4>6. Streams(l, c, p) BY <1>2, <4>4, <4>5, StreamingSlot
      <4> QED BY <1>2, <4>1, <4>6, QueueStreamServes
    <3>4. k.kind \in Kinds BY <1>3, SlotTypes
    <3> QED BY <1>4, <2>2, <3>2, <3>3, <3>4 DEF Kinds
  <2> QED BY <2>1, <2>2
<1> HIDE DEF v
<1> QED BY <1>1, <1>8, CallbackIsSound

\* Neither the end of a connection nor the main loop has an abort to report.
LEMMA ErrorIsSound ==
  ASSUME IInv, NEW p \in Pcbs, http_error(p)
  PROVE  IInv' /\ reported'
<1> DEFINE c == arg[p]
           r == release_client(World, c)
           v == Dead(r, p)
<1>1. Attached(p) /\ Call(v) BY DEF http_error
<1>2. c \in Clients /\ Serving(World, None, c, p) BY <1>1, AttachedServes
<1> HIDE DEF c
<1> DEFINE w == World
<1>3. /\ w \in Worlds /\ Sound(w, None) /\ w.clients[c].pcb = p
      /\ w.clients[c].leased => w.queue # <<>>
  BY <1>2 DEF Serving, Sound, Streaming
<1> HIDE DEF w
<1>4. /\ release_client(w, c) \in Worlds /\ Released(w, release_client(w, c), c)
      /\ LET z == release_client(w, c)
         IN  /\ z.tcp = w.tcp /\ z.arg = w.arg /\ z.unacked = w.unacked
             /\ z.peer = w.peer /\ z.aborted = w.aborted
  BY <1>2, <1>3, ReleaseFields
<1>5. r = release_client(w, c) BY DEF w
<1> HIDE DEF r
<1>6. /\ v \in Worlds
      /\ v.clients = r.clients /\ v.stream = r.stream /\ v.queue = r.queue
      /\ v.lent = r.lent /\ v.tail = r.tail /\ v.state = r.state
      /\ v.downloading = r.downloading /\ v.honest = r.honest
      /\ v.aborted = r.aborted /\ v.ret = r.ret
      /\ v.arg[p] = None /\ v.peer[p] = None /\ v.unacked[p] = 0
      /\ \A q \in Pcbs \ {p} :
           /\ v.arg[q] = r.arg[q] /\ v.tcp[q] = r.tcp[q]
           /\ v.unacked[q] = r.unacked[q] /\ v.peer[q] = r.peer[q]
  BY <1>4, <1>5, DeadFields
<1> HIDE DEF v
<1>7. Loosened(w, v, c)
  <2>1. v.peer[p] # Broken BY <1>6, Sizes
  <2>2. \A q \in Pcbs \ {p} :
          /\ v.arg[q] = w.arg[q] /\ v.tcp[q] = w.tcp[q]
          /\ v.unacked[q] = w.unacked[q] /\ v.peer[q] = w.peer[q]
    BY <1>4, <1>5, <1>6
  <2> QED BY <1>3, <1>6, <2>1, <2>2 DEF Loosened
<1>8. Released(w, v, c) BY <1>4, <1>5, <1>6 DEF Released
<1>9. Sound(v, None) BY <1>2, <1>3, <1>6, <1>7, <1>8, ReleasedIsSound
<1> QED BY <1>1, <1>9, CallIsSound

\* A connection that no slot knows any more ends.
LEMMA LingerIsSound ==
  ASSUME IInv, NEW p \in Pcbs, linger(p)
  PROVE  IInv' /\ reported'
<1> DEFINE w == World
           v == Dead(w, p)
<1>1. tcp[p] = "closing" /\ Call(v) BY DEF linger
<1>2. /\ w \in Worlds /\ Attachments(w) /\ Counted(w, None) /\ Streaming(w)
      /\ Downloads(w) /\ Framing(w) /\ w.honest
  BY DEF IInv, Sound
<1>3. w.tcp[p] = "closing" BY <1>1, WorldFields
<1> HIDE DEF w
<1>4. /\ v \in Worlds
      /\ v.clients = w.clients /\ v.stream = w.stream /\ v.queue = w.queue
      /\ v.lent = w.lent /\ v.tail = w.tail /\ v.state = w.state
      /\ v.downloading = w.downloading /\ v.honest = w.honest
      /\ v.aborted = w.aborted /\ v.ret = w.ret
      /\ v.arg[p] = None /\ v.peer[p] = None /\ v.unacked[p] = 0
      /\ \A q \in Pcbs \ {p} :
           /\ v.arg[q] = w.arg[q] /\ v.tcp[q] = w.tcp[q]
           /\ v.unacked[q] = w.unacked[q] /\ v.peer[q] = w.peer[q]
  BY <1>2, DeadFields
<1> HIDE DEF v
<1>5. w.arg[p] = None /\ \A d \in Clients : w.clients[d].pcb # p
  <2>1. w.arg[p] = None BY <1>2, <1>3 DEF Attachments
  <2> QED BY <1>2, <2>1, Sizes DEF Attachments
<1>6. \A d \in Clients : w.clients[d].pcb # None => w.clients[d].pcb \in Pcbs \ {p}
  BY <1>2, <1>5, WorldTypes, SlotTypes
<1>7. Attachments(v)
  <2>1. ASSUME NEW q \in Pcbs, NEW d \in Clients
        PROVE  v.clients[d].pcb = q <=> v.arg[q] = d
    <3>1. CASE q = p BY <1>4, <1>5, <3>1, Sizes
    <3>2. CASE q # p BY <1>2, <1>4, <3>2 DEF Attachments
    <3> QED BY <3>1, <3>2
  <2>2. \A q \in Pcbs : v.arg[q] # None => v.tcp[q] = "open"
    BY <1>2, <1>4 DEF Attachments
  <2>3. \A q \in Pcbs : v.tcp[q] = "free" => v.unacked[q] = 0
    BY <1>2, <1>4 DEF Attachments
  <2> QED BY <2>1, <2>2, <2>3 DEF Attachments
<1>8. Counted(v, None) BY <1>2, <1>4, <1>6 DEF Counted
<1>9. Streaming(v) BY <1>2, <1>4 DEF Streaming
<1>10. Downloads(v) BY <1>2, <1>4 DEF Downloads
<1>11. Framing(v)
  <2>1. Chained(v) BY <1>2, <1>4 DEF Framing, Chained
  <2>2. \A q \in Pcbs : v.peer[q] # Broken BY <1>2, <1>4, Sizes DEF Framing
  <2>3. ASSUME v.stream # None PROVE Framed(v, v.clients[v.stream])
    <3>1. w.stream \in Clients /\ Framed(w, w.clients[w.stream])
      BY <1>2, <1>4, <2>3, WorldTypes DEF Framing
    <3>2. w.clients[w.stream].pcb # None BY <1>2, <3>1 DEF Streaming, Counted
    <3>3. w.clients[w.stream].pcb \in Pcbs \ {p} BY <1>6, <3>1, <3>2
    <3>4. v.peer[w.clients[w.stream].pcb] = w.peer[w.clients[w.stream].pcb] BY <1>4, <3>3
    <3> QED BY ZenonT(60), <1>4, <3>1, <3>4 DEF Framed
  <2> QED BY <2>1, <2>2, <2>3 DEF Framing
<1>12. Sound(v, None) BY <1>2, <1>4, <1>7, <1>8, <1>9, <1>10, <1>11 DEF Sound
<1> QED BY <1>1, <1>12, CallIsSound

LEMMA MuteIsSound ==
  ASSUME IInv, NEW p \in Pcbs, fall_silent(p)
  PROVE  IInv' /\ reported'
<1>1. World' = World BY DEF fall_silent, World
<1>2. Sound(World, None)' BY <1>1 DEF IInv
<1> QED BY <1>2 DEF IInv, fall_silent

\* The steps of the main loop.
LEMMA ExpireIsSound ==
  ASSUME IInv, NEW c \in Clients, expire(c)
  PROVE  IInv' /\ reported'
<1> DEFINE v == [World EXCEPT !.clients[c].late = TRUE]
<1>1. Sound(World, None) /\ Call(v) BY DEF IInv, expire
<1>2. Sound(v, None) BY <1>1, LateIsSound
<1> HIDE DEF v
<1> QED BY <1>1, <1>2, CallIsSound

LEMMA ResetIsSound ==
  ASSUME IInv, reset
  PROVE  IInv' /\ reported'
<1> DEFINE v == AbortThose(World, Clients)
<1>1. Sound(World, None) /\ Call(v) BY DEF IInv, reset
<1>2. Sound(v, None) BY <1>1, AbortThoseFields
<1> HIDE DEF v
<1> QED BY <1>1, <1>2, CallIsSound

\* Without a stream the task drains what nobody takes from the pipeline.
LEMMA DrainedIsSound ==
  ASSUME NEW w, Sound(w, None), w.stream = None, w.lent = None
  PROVE  Sound(Drained(w), None)
<1> DEFINE v == Drained(w)
<1>1. w \in Worlds /\ Streaming(w) /\ Downloads(w) /\ Chained(w) /\ Counted(w, None)
  BY DEF Sound, Framing
<1>2. PICK m \in Nat \ {0} : m = DrainBudget + 1 BY Sizes
<1> DEFINE q == SubSeq(w.queue, m, Len(w.queue))
<1>3. v = [w EXCEPT !.queue = q] BY <1>2 DEF Drained
<1>4. q \in Seq(Chunks)
  <2> DEFINE r == [queue |-> q, tail |-> w.tail]
  <2>1. r.queue = SubSeq(w.queue, m, Len(w.queue)) /\ r.tail = w.tail OBVIOUS
  <2> HIDE DEF r
  <2>2. r.queue \in Seq(Chunks) BY <1>1, <2>1, EndOfQueue
  <2> QED BY <2>1, <2>2
<1> HIDE DEF q, v
<1>5. /\ v \in Worlds /\ Repiped(w, v) /\ v.queue = q /\ v.lent = w.lent
      /\ v.tail = w.tail /\ v.state = w.state /\ v.downloading = w.downloading
  BY <1>1, <1>3, <1>4 DEF Worlds, Repiped
<1>6. v.stream = None /\ v.clients = w.clients BY <1>5 DEF Repiped
<1>7. \A d \in Clients : ~w.clients[d].leased /\ w.clients[d].kind # "raw16"
  BY <1>1, Sizes DEF Streaming
<1>8. Streaming(v) BY <1>5, <1>6, <1>7, Sizes DEF Streaming
<1>9. Downloads(v) BY <1>1, <1>5, <1>6 DEF Downloads
<1>10. Chained(v) BY <1>1, <1>5, EndOfQueue DEF q
<1>11. Sound(v, None) BY <1>5, <1>6, <1>8, <1>9, <1>10, RepipedIsSound
<1> QED BY <1>11 DEF v

LEMMA TaskIsSound ==
  ASSUME IInv, NEW x \in Answers, task(x)
  PROVE  IInv' /\ reported'
<1> DEFINE S == {d \in Clients : clients[d].kind = "download" /\ Expired(clients[d])}
           w == AbortThose(World, S)
           c == raw16_client
           v == IF c = None THEN IF w.lent = None THEN Drained(w) ELSE w
                ELSE IF clients[c].pcb = None \/ clients[c].closing \/ Expired(clients[c])
                  THEN abort_client(w, c)
                ELSE queue_raw16_data(w, c, x)
<1>1. Call(v) BY DEF task
<1>2. /\ World \in Worlds /\ Sound(World, None) /\ Streaming(World) /\ Attachments(World)
  BY DEF IInv, Sound
<1>3. S \in SUBSET Clients OBVIOUS
<1>4. \A d \in S : clients[d].kind = "download" OBVIOUS
<1> HIDE DEF S
<1>5. /\ Sound(w, None) /\ w.ret = "ERR_OK"
      /\ \A d \in Clients : w.clients[d] = IF d \in S THEN Empty ELSE clients[d]
      /\ \A p \in Pcbs : p \in w.aborted <=> \E d \in S : clients[d].pcb = p
  <2>1. /\ Sound(w, None) /\ w.ret = World.ret
        /\ \A d \in Clients : w.clients[d] = IF d \in S THEN Empty ELSE World.clients[d]
        /\ \A p \in Pcbs : p \in w.aborted
             <=> p \in World.aborted \/ \E d \in S : World.clients[d].pcb = p
    BY <1>2, <1>3, AbortThoseFields
  <2> HIDE DEF w
  <2> QED BY <2>1, WorldFields
<1> HIDE DEF w
<1>6. \A d \in Clients : c = d <=> clients[d].kind = "raw16"
  BY <1>2, WorldFields DEF Streaming
<1>7. c \in Clients \cup {None} BY <1>2, WorldTypes, WorldFields
<1>8. Sound(v, None)
  <2>1. CASE c = None
    <3>1. CASE w.lent = None
      <4>1. Streaming(w) /\ w \in Worlds BY <1>5 DEF Sound
      <4>2. \A d \in Clients : w.clients[d].kind # "raw16"
        BY <1>5, <1>6, <2>1, EmptySlot, Sizes
      <4>3. w.stream = None BY <4>1, <4>2, WorldTypes DEF Streaming
      <4>4. v = Drained(w) BY <2>1, <3>1
      <4> QED BY <1>5, <3>1, <4>3, <4>4, DrainedIsSound
    <3>2. CASE w.lent # None BY <1>5, <2>1, <3>2
    <3> QED BY <3>1, <3>2
  <2>2. CASE /\ c # None
             /\ clients[c].pcb = None \/ clients[c].closing \/ Expired(clients[c])
    <3>1. v = abort_client(w, c) BY <2>2
    <3> QED BY <1>5, <1>7, <2>2, <3>1, AbortFields
  <2>3. CASE /\ c # None
             /\ ~(clients[c].pcb = None \/ clients[c].closing \/ Expired(clients[c]))
    <3>1. v = queue_raw16_data(w, c, x) BY <2>3
    <3>2. c \in Clients /\ clients[c].kind = "raw16" /\ c \notin S
      BY <1>4, <1>6, <1>7, <2>3
    <3>3. PICK p \in Pcbs : clients[c].pcb = p
      BY <1>2, <2>3, <3>2, WorldTypes, WorldFields, SlotTypes
    <3>4. w.clients[c] = clients[c] BY <1>5, <3>2
    <3>5. p \notin w.aborted
      <4>1. ASSUME NEW d \in S, clients[d].pcb = p PROVE FALSE
        <5>1. d \in Clients BY <1>3
        <5>2. arg[p] = c /\ arg[p] = d
          BY <1>2, <3>2, <3>3, <4>1, <5>1, WorldFields DEF Attachments
        <5> QED BY <3>2, <4>1, <5>2
      <4> QED BY <1>5, <4>1
    <3>6. Serving(w, None, c, p) BY <1>5, <3>3, <3>4, <3>5 DEF Serving
    <3>7. Streams(w, c, p) BY <3>2, <3>4, <3>6, StreamingSlot
    <3>8. Served(queue_raw16_data(w, c, x), c, p) BY <3>2, <3>7, QueueStreamServes
    <3> QED BY <3>1, <3>8 DEF Served
  <2> QED BY <2>1, <2>2, <2>3
<1> HIDE DEF v
<1> QED BY <1>1, <1>8, CallIsSound

\* The other users of the pipeline and of the file service.
LEMMA OthersAreSound ==
  ASSUME IInv, UNCHANGED <<clients, raw16_client, tcp, arg, unacked, peer, mute, honest>>,
         queue' \in Seq(Chunks), lent' \in Chunks \cup {None}, tail' \in Chunks \cup {None},
         state' \in {"idle", "reading", "ready", "closing"}, downloading' \in BOOLEAN
  PROVE  /\ World' \in Worlds /\ Repiped(World, World')
         /\ World'.clients = clients /\ World'.stream = raw16_client
         /\ World'.peer = peer /\ World'.queue = queue' /\ World'.lent = lent'
         /\ World'.tail = tail' /\ World'.state = state'
         /\ World'.downloading = downloading'
<1>1. World \in Worlds BY DEF IInv, Sound
<1>2. {} \in SUBSET Pcbs OBVIOUS
<1>3. World' \in Worlds
  BY <1>1, <1>2, WorldTypes, WorldFields DEF World, Worlds
<1> QED BY <1>3 DEF World, Repiped

\* The source appends the chunk that the peer of a stream may get next.
LEMMA PublishIsSound ==
  ASSUME IInv, NEW seq \in FrameIds, NEW off \in 0 .. F - 1, publish(seq, off)
  PROVE  IInv' /\ reported'
<1> DEFINE h == [seq |-> seq, off |-> off, start |-> off = 0, end |-> off = F - 1]
           g == [seq |-> seq, off |-> off - 1, start |-> off - 1 = 0, end |-> off - 1 = F - 1]
           w == World
           z == World'
<1>1. /\ UNCHANGED <<clients, raw16_client, tcp, arg, unacked, peer, mute, honest>>
      /\ UNCHANGED <<state, downloading, lent>> /\ reported' = TRUE
      /\ Len(queue) < Depth /\ queue' = Append(queue, h)
      /\ off = 0 => queue = <<>>
      /\ off # 0 => tail = g
      /\ tail' = IF off = F - 1 THEN None ELSE h
  BY DEF publish, Pipeline!Publish, Pipeline!Chunk
<1>2. /\ w \in Worlds /\ Sound(w, None) /\ Streaming(w) /\ Downloads(w) /\ Framing(w)
      /\ Chained(w)
  BY DEF IInv, Sound, Framing
<1>3. /\ w.clients = clients /\ w.stream = raw16_client /\ w.tcp = tcp /\ w.peer = peer
      /\ w.queue = queue /\ w.lent = lent /\ w.tail = tail /\ w.state = state
      /\ w.downloading = downloading
  BY WorldFields
<1>4. h \in Chunks /\ h.seq = seq /\ h.off = off BY DEF Chunks
<1>5. off # 0 => g # None /\ g.seq = seq /\ g.off = off - 1
  <2>1. off # 0 => g \in [seq : FrameIds, off : 0 .. F - 1, start : BOOLEAN, end : BOOLEAN]
    BY Sizes
  <2> QED BY <2>1, ClientAssumption
<1>6. off \in Int BY Sizes
<1> HIDE DEF h, g
<1> DEFINE n == Len(queue)
<1>7. queue \in Seq(Chunks) /\ n \in Nat /\ lent \in Chunks \cup {None}
      /\ tail \in Chunks \cup {None} /\ state \in {"idle", "reading", "ready", "closing"}
      /\ downloading \in BOOLEAN
  BY <1>2, <1>3, WorldTypes
<1>8. /\ queue' \in Seq(Chunks) /\ Len(queue') = n + 1 /\ queue'[n + 1] = h
      /\ \A i \in 1 .. n : queue'[i] = queue[i]
      /\ queue' # <<>>
  BY <1>1, <1>4, <1>7
<1>9. queue # <<>> => n > 0 BY <1>7
<1>10. queue # <<>> => queue'[1] = queue[1] BY <1>7, <1>8, <1>9
<1>11. queue = <<>> => queue'[1] = h
  <2>1. queue = <<>> => n = 0 BY <1>7
  <2> QED BY <1>8, <2>1
<1>12. /\ z \in Worlds /\ Repiped(w, z)
       /\ z.clients = clients /\ z.stream = raw16_client /\ z.peer = peer
       /\ z.queue = queue' /\ z.lent = lent /\ z.tail = tail' /\ z.state = state
       /\ z.downloading = downloading
  BY <1>1, <1>4, <1>7, <1>8, OthersAreSound
<1> HIDE DEF w, z
<1>13. Streaming(z) BY <1>2, <1>3, <1>8, <1>10, <1>12 DEF Streaming
<1>14. Downloads(z) BY <1>2, <1>3, <1>12 DEF Downloads
<1>15. tail # None /\ queue # <<>> => tail = queue[n] BY <1>2, <1>3 DEF Chained
<1>16. Chained(z)
  <2>1. Len(queue') <= Depth BY <1>1, <1>7, <1>8, Sizes
  <2>2. ASSUME NEW i \in 1 .. Len(queue') - 1
        PROVE  \/ queue'[i + 1].off = 0
               \/ /\ queue'[i].seq = queue'[i + 1].seq
                  /\ queue'[i].off = queue'[i + 1].off - 1
    <3>1. i \in 1 .. n /\ queue'[i] = queue[i] BY <1>7, <1>8
    <3>2. CASE i = n
      <4>1. queue'[i + 1] = h /\ queue # <<>> BY <1>7, <1>8, <3>1, <3>2
      <4> QED BY <1>1, <1>4, <1>5, <1>15, <3>1, <3>2, <4>1
    <3>3. CASE i # n
      <4>1. i \in 1 .. n - 1 /\ i + 1 \in 1 .. n BY <1>7, <3>1, <3>3
      <4>2. queue'[i + 1] = queue[i + 1] BY <1>8, <4>1
      <4> QED BY <1>2, <1>3, <3>1, <4>1, <4>2 DEF Chained
    <3> QED BY <3>2, <3>3
  <2>3. tail' # None => tail' = queue'[Len(queue')] BY <1>1, <1>8
  <2> QED BY <1>12, <2>1, <2>2, <2>3 DEF Chained
<1>17. ASSUME raw16_client # None PROVE Framed(z, clients[raw16_client])
  <2> DEFINE k == clients[raw16_client]
             u == peer[k.pcb]
  <2>1. Framed(w, k) BY <1>2, <1>3, <1>17 DEF Framing
  <2> HIDE DEF k
  <2>2. w.peer[k.pcb] = u /\ z.peer[k.pcb] = u BY <1>3, <1>12
  <2> HIDE DEF u
  <2>3. ASSUME k.synced, ~k.leased PROVE MayFollow(u, queue'[1])
    <3>1. u # None /\ u.part = Parts BY <2>1, <2>2, <2>3 DEF Framed
    <3>2. CASE queue # <<>>
      BY <1>3, <1>10, <2>1, <2>2, <2>3, <3>2 DEF Framed
    <3>3. CASE queue = <<>>
      <4>1. off # 0 => u.seq = seq /\ u.off = off - 1
        BY <1>1, <1>3, <1>5, <2>1, <2>2, <2>3, <3>3 DEF Framed
      <4> QED BY <1>4, <1>11, <3>1, <3>3, <4>1 DEF MayFollow
    <3> QED BY <3>2, <3>3
  <2>4. Framed(z, k)
    BY <1>3, <1>8, <1>12, <2>1, <2>2, <2>3 DEF Framed
  <2> QED BY <2>4 DEF k
<1>18. Sound(z, None)
  BY <1>2, <1>12, <1>13, <1>14, <1>16, <1>17, RepipedIsSound
<1>19. Sound(World, None)' BY <1>18 DEF z
<1> QED BY <1>1, <1>19 DEF IInv

\* A frame cut short is followed by the start of another.
LEMMA CutIsSound ==
  ASSUME IInv, cut
  PROVE  IInv' /\ reported'
<1> DEFINE w == World
           z == World'
<1>1. /\ UNCHANGED <<clients, raw16_client, tcp, arg, unacked, peer, mute, honest>>
      /\ UNCHANGED <<state, downloading, queue, lent>> /\ reported' = TRUE
      /\ tail' = None
  BY DEF cut, Pipeline!Cut
<1>2. /\ w \in Worlds /\ Sound(w, None) /\ Streaming(w) /\ Downloads(w) /\ Framing(w)
      /\ Chained(w)
  BY DEF IInv, Sound, Framing
<1>3. /\ w.clients = clients /\ w.stream = raw16_client /\ w.peer = peer
      /\ w.queue = queue /\ w.lent = lent /\ w.tail = tail /\ w.state = state
      /\ w.downloading = downloading
  BY WorldFields
<1>4. queue \in Seq(Chunks) /\ lent \in Chunks \cup {None}
      /\ state \in {"idle", "reading", "ready", "closing"} /\ downloading \in BOOLEAN
  BY <1>2, <1>3, WorldTypes
<1>5. /\ z \in Worlds /\ Repiped(w, z)
      /\ z.clients = clients /\ z.stream = raw16_client /\ z.peer = peer
      /\ z.queue = queue /\ z.lent = lent /\ z.tail = None /\ z.state = state
      /\ z.downloading = downloading
  BY <1>1, <1>4, OthersAreSound
<1> HIDE DEF w, z
<1>6. Streaming(z) BY <1>2, <1>3, <1>5 DEF Streaming
<1>7. Downloads(z) BY <1>2, <1>3, <1>5 DEF Downloads
<1>8. Chained(z) BY <1>2, <1>3, <1>5 DEF Chained
<1>9. raw16_client # None => Framed(z, clients[raw16_client])
  BY <1>2, <1>3, <1>5 DEF Framing, Framed
<1>10. Sound(z, None) BY <1>2, <1>5, <1>6, <1>7, <1>8, <1>9, RepipedIsSound
<1>11. Sound(World, None)' BY <1>10 DEF z
<1> QED BY <1>1, <1>11 DEF IInv

\* The task of the service ends no download.
LEMMA FileTaskIsSound ==
  ASSUME IInv, file_task
  PROVE  IInv' /\ reported'
<1> DEFINE w == World
           z == World'
<1>1. /\ UNCHANGED <<clients, raw16_client, tcp, arg, unacked, peer, mute, honest>>
      /\ UNCHANGED <<queue, lent, tail>> /\ reported' = TRUE
      /\ Files!file_task
  BY DEF file_task
<1>2. /\ w \in Worlds /\ Sound(w, None) /\ Streaming(w) /\ Downloads(w)
  BY DEF IInv, Sound
<1>3. /\ w.stream = raw16_client /\ w.queue = queue /\ w.lent = lent /\ w.tail = tail
      /\ w.state = state /\ w.downloading = downloading
  BY WorldFields
<1>4. /\ queue \in Seq(Chunks) /\ lent \in Chunks \cup {None}
      /\ tail \in Chunks \cup {None} /\ state \in {"idle", "reading", "ready", "closing"}
      /\ downloading \in BOOLEAN
  BY <1>2, <1>3, WorldTypes
<1>5. CASE UNCHANGED <<state, downloading>>
  <2>1. World' = World BY <1>1, <1>5 DEF World
  <2>2. Sound(World, None)' BY <1>2, <2>1 DEF w
  <2> QED BY <1>1, <2>2 DEF IInv
<1>6. CASE /\ state \in {"reading", "closing", "ready"} /\ ~downloading
           /\ state' \in {"ready", "closing", "idle"} /\ downloading' = downloading
  <2>1. /\ z \in Worlds /\ Repiped(w, z) /\ z.queue = queue /\ z.lent = lent
        /\ z.tail = tail /\ z.downloading = downloading
    BY <1>1, <1>4, <1>6, OthersAreSound
  <2>2. w.stream = None /\ ~w.downloading BY <1>2, <1>3, <1>6 DEF Streaming
  <2> HIDE DEF w, z
  <2>3. Sound(z, None) BY <1>2, <1>3, <2>1, <2>2, StateIsSound
  <2>4. Sound(World, None)' BY <2>3 DEF z
  <2> QED BY <1>1, <2>4 DEF IInv
<1>7. state = "reading" => ~downloading BY <1>2, <1>3 DEF Downloads
<1> QED BY <1>1, <1>5, <1>6, <1>7 DEF Files!file_task, Files!fileVars

-----------------------------------------------------------------------------
(* The specification.                                                        *)

\* The start, and every step.
LEMMA InitIsSound == Init => IInv /\ reported
<1> SUFFICES ASSUME Init PROVE IInv /\ reported OBVIOUS
<1>1. /\ clients = [c \in Clients |-> Empty] /\ raw16_client = None
      /\ tcp = [p \in Pcbs |-> "free"] /\ arg = [p \in Pcbs |-> None]
      /\ unacked = [p \in Pcbs |-> 0] /\ peer = [p \in Pcbs |-> None]
      /\ queue = <<>> /\ tail = None /\ lent = None
      /\ state = "idle" /\ downloading = FALSE
      /\ mute = {} /\ honest = TRUE /\ reported = TRUE
  BY DEF Init
<1> DEFINE w == World
<1>2. /\ w.clients = clients /\ w.stream = raw16_client /\ w.tcp = tcp /\ w.arg = arg
      /\ w.unacked = unacked /\ w.peer = peer /\ w.queue = queue /\ w.lent = lent
      /\ w.tail = tail /\ w.state = state /\ w.downloading = downloading
      /\ w.honest = honest
  BY WorldFields
<1>3. \A c \in Clients : w.clients[c] = Empty BY <1>1, <1>2
<1>4. w \in Worlds
  <2>1. /\ clients \in [Clients -> Slot] /\ raw16_client \in Clients \cup {None}
        /\ tcp \in [Pcbs -> {"free", "open", "closing"}]
        /\ arg \in [Pcbs -> Clients \cup {None}]
        /\ lent \in Chunks \cup {None} /\ tail \in Chunks \cup {None}
    BY <1>1, EmptySlot
  <2>2. unacked \in [Pcbs -> 0 .. SndBuf] BY <1>1, Sizes
  <2>3. peer \in [Pcbs -> Heads] BY <1>1 DEF Heads
  <2>4. queue \in Seq(Chunks) BY <1>1
  <2>5. /\ state \in {"idle", "reading", "ready", "closing"} /\ downloading \in BOOLEAN
        /\ honest \in BOOLEAN
    BY <1>1
  <2>6. {} \in SUBSET Pcbs /\ "ERR_OK" \in {"ERR_OK", "ERR_ABRT"} OBVIOUS
  <2> QED BY <2>1, <2>2, <2>3, <2>4, <2>5, <2>6 DEF World, Worlds
<1> HIDE DEF w
<1>5. Attachments(w) BY <1>1, <1>2, <1>3, EmptySlot, Sizes DEF Attachments
<1>6. Counted(w, None) BY <1>1, <1>2, <1>3, EmptySlot, Sizes DEF Counted
<1>7. Streaming(w) BY <1>1, <1>2, <1>3, EmptySlot, Sizes DEF Streaming
<1>8. Downloads(w) BY <1>1, <1>2, <1>3, EmptySlot DEF Downloads
<1>9. Framing(w)
  <2>1. Chained(w) BY <1>1, <1>2, EmptyQueue
  <2> QED BY <1>1, <1>2, <2>1, Sizes DEF Framing
<1>10. Sound(w, None)
  BY <1>1, <1>2, <1>4, <1>5, <1>6, <1>7, <1>8, <1>9 DEF Sound
<1> QED BY <1>1, <1>10 DEF IInv, w

LEMMA LwipIsSound ==
  ASSUME IInv, NEW p \in Pcbs, Lwip(p)
  PROVE  IInv' /\ ("deselect_mem" \notin OutputResults => reported')
<1>1. CASE http_accept(p) BY <1>1, AcceptIsSound
<1>2. CASE http_accept_reject(p) BY <1>2, RejectIsSound
<1>3. CASE http_data(p) BY <1>3, DataIsSound
<1>4. CASE http_error(p) BY <1>4, ErrorIsSound
<1>5. CASE fall_silent(p) BY <1>5, MuteIsSound
<1>6. CASE linger(p) BY <1>6, LingerIsSound
<1>7. ASSUME NEW x \in Outcomes(p, 0), http_fin(p, x)
      PROVE  IInv' /\ ("deselect_mem" \notin OutputResults => reported')
  BY <1>7, FinIsSound
<1>8. ASSUME NEW x \in Outcomes(p, 0), http_poll(p, x)
      PROVE  IInv' /\ ("deselect_mem" \notin OutputResults => reported')
  <2>1. x \in Answers BY Answerable
  <2> QED BY <1>8, <2>1, PollIsSound
<1>9. ASSUME NEW x \in Outcomes(p, 0), NEW req \in Requests, http_request(p, req, x)
      PROVE  IInv' /\ ("deselect_mem" \notin OutputResults => reported')
  <2>1. x \in Answers BY Answerable
  <2> QED BY <1>9, <2>1, RequestIsSound
<1>10. ASSUME NEW a \in 1 .. unacked[p], NEW x \in Outcomes(p, a), http_sent(p, a, x)
       PROVE  IInv' /\ ("deselect_mem" \notin OutputResults => reported')
  <2>1. x \in Answers BY Answerable
  <2> QED BY <1>10, <2>1, SentIsSound
<1> QED BY <1>1, <1>2, <1>3, <1>4, <1>5, <1>6, <1>7, <1>8, <1>9, <1>10 DEF Lwip

LEMMA MainLoopIsSound ==
  ASSUME IInv, MainLoop
  PROVE  IInv' /\ reported'
<1>1. CASE reset BY <1>1, ResetIsSound
<1>2. CASE cut BY <1>2, CutIsSound
<1>3. CASE file_task BY <1>3, FileTaskIsSound
<1>4. ASSUME NEW c \in Clients, expire(c) PROVE IInv' /\ reported' BY <1>4, ExpireIsSound
<1>5. CASE Tasks
  <2>1. PICK x \in Answers : task(x) BY <1>5 DEF Tasks, Plain, Outcomes
  <2> QED BY <2>1, TaskIsSound
<1>6. ASSUME NEW seq \in FrameIds, NEW off \in 0 .. F - 1, publish(seq, off)
      PROVE  IInv' /\ reported'
  BY <1>6, PublishIsSound
<1> QED BY <1>1, <1>2, <1>3, <1>4, <1>5, <1>6 DEF MainLoop

LEMMA NextIsSound ==
  ASSUME IInv, [Next]_vars
  PROVE  IInv' /\ ("deselect_mem" \notin OutputResults /\ reported => reported')
<1>1. CASE MainLoop BY <1>1, MainLoopIsSound
<1>2. ASSUME NEW p \in Pcbs, Lwip(p)
      PROVE  IInv' /\ ("deselect_mem" \notin OutputResults /\ reported => reported')
  BY <1>2, LwipIsSound
<1>3. CASE UNCHANGED vars
  <2>1. World' = World BY <1>3 DEF vars, World
  <2>2. Sound(World, None)' BY <2>1 DEF IInv
  <2>3. mute' = mute /\ reported' = reported BY <1>3 DEF vars
  <2> QED BY <2>2, <2>3 DEF IInv
<1> QED BY <1>1, <1>2, <1>3 DEF Next

\* Sound worlds stay sound: whatever the callbacks, the main loop and the other
\* users of the pipeline and of the file service do.
THEOREM Inductive == Spec => []IInv
<1>1. Init => IInv BY InitIsSound
<1>2. IInv /\ [Next]_vars => IInv' BY NextIsSound
<1> QED BY <1>1, <1>2, PTL DEF Spec

\* For any number of slots and connections a callback of lwIP reaches the slot
\* that owns the connection and no other: close_client detaches what lwIP closes
\* on its own, and abort_client and http_error what it frees.
THEOREM SlotsOwnConnections == Spec => []Consistent
<1>1. IInv => Consistent
  <2> SUFFICES ASSUME IInv PROVE Consistent OBVIOUS
  <2>1. /\ World \in Worlds /\ Attachments(World) /\ Chained(World)
        /\ mute \subseteq MayMute /\ reported \in BOOLEAN
    BY DEF IInv, Sound, Framing
  <2>2. TypeOK
    <3>1. /\ clients \in [Clients -> Slot] /\ raw16_client \in Clients \cup {None}
          /\ tcp \in [Pcbs -> {"free", "open", "closing"}]
          /\ arg \in [Pcbs -> Clients \cup {None}] /\ unacked \in [Pcbs -> 0 .. SndBuf]
          /\ peer \in [Pcbs -> Heads] /\ state \in {"idle", "reading", "ready", "closing"}
          /\ downloading \in BOOLEAN /\ honest \in BOOLEAN
      BY <2>1, WorldTypes, WorldFields
    <3>2. Len(queue) <= Depth BY <2>1, WorldFields DEF Chained
    <3>3. {downloading, honest, reported} \subseteq BOOLEAN BY <2>1, <3>1
    <3> QED BY <2>1, <3>1, <3>2, <3>3 DEF TypeOK, Slot, Heads
  <2>3. SlotsMatchConnections
    <3>1. /\ \A p \in Pcbs, c \in Clients : clients[c].pcb = p <=> arg[p] = c
          /\ \A p \in Pcbs : arg[p] # None => tcp[p] = "open"
      BY <2>1, WorldFields DEF Attachments
    <3> QED BY <3>1, Sizes DEF SlotsMatchConnections
  <2> QED BY <2>2, <2>3 DEF Consistent
<1> QED BY <1>1, Inductive, PTL

\* A chunk of the pipeline is lent to the one stream and a file to the one
\* download, and release_client gives both back however the client ends.
THEOREM LeasesHaveOneBorrower == Spec => []LeasesAreAccounted
<1>1. IInv => LeasesAreAccounted
  <2> SUFFICES ASSUME IInv PROVE LeasesAreAccounted OBVIOUS
  <2>1. World \in Worlds /\ Streaming(World) /\ Downloads(World) /\ Counted(World, None)
    BY DEF IInv, Sound
  <2>2. /\ \A c \in Clients : raw16_client = c <=> clients[c].kind = "raw16"
        /\ lent # None => raw16_client # None /\ clients[raw16_client].leased
        /\ \A c \in Clients : clients[c].leased
             => queue # <<>> /\ lent # None /\ lent = queue[1]
        /\ raw16_client # None => state = "idle"
    BY <2>1, WorldFields DEF Streaming
  <2>3. /\ downloading => \E c \in Clients : clients[c].kind = "download"
        /\ \A c \in Clients : clients[c].kind = "download" => downloading
        /\ \A c, d \in Clients :
             clients[c].kind = "download" /\ clients[d].kind = "download" => c = d
    BY <2>1, WorldFields DEF Downloads
  <2>4. \A c \in Clients : clients[c].leased => clients[c].kind = "raw16"
    BY <2>1, WorldFields DEF Counted
  <2>5. raw16_client \in Clients \cup {None} /\ queue \in Seq(Chunks)
    BY <2>1, WorldTypes, WorldFields
  <2>6. queue # <<>> => Head(queue) = queue[1] BY <2>5
  <2>7. lent # None <=> \E c \in Clients : clients[c].leased BY <2>2, <2>5
  <2>8. \A c \in Clients : clients[c].leased => raw16_client = c /\ lent = Head(queue)
    BY <2>2, <2>4, <2>6
  <2> QED BY <2>2, <2>3, <2>7, <2>8 DEF LeasesAreAccounted
<1> QED BY <1>1, Inductive, PTL

\* The peer of a stream gets whole chunks, those of a frame in order from its
\* start, whatever lwIP takes at a time and wherever the source cuts a frame:
\* queue_raw16_data goes on where it stopped, and leases from a frame's start.
THEOREM StreamsAreFramed == Spec => []StreamIsFramed
<1>1. IInv => StreamIsFramed BY WorldFields DEF IInv, Sound, Framing, StreamIsFramed
<1> QED BY <1>1, Inductive, PTL

\* release_client tells the file service that a download is complete exactly
\* when the peer has acknowledged all of it.
THEOREM DownloadsAreHonest == Spec => []DownloadsReportedHonestly
<1>1. IInv => DownloadsReportedHonestly
  BY WorldFields DEF IInv, Sound, DownloadsReportedHonestly
<1> QED BY <1>1, Inductive, PTL

\* A callback returns ERR_ABRT exactly when it has aborted its connection, as
\* lwIP asks, provided that tcp_output does not run the reset of a deselected
\* device and then report that it is out of memory: send_and_close and
\* queue_static_chunk return ERR_OK then.
THEOREM AbortsAreReported ==
  ASSUME "deselect_mem" \notin OutputResults
  PROVE  Spec => []AbortIsReported
<1>1. Init => AbortIsReported BY InitIsSound DEF AbortIsReported
<1>2. IInv /\ AbortIsReported /\ [Next]_vars => AbortIsReported'
  BY NextIsSound DEF AbortIsReported
<1> QED BY <1>1, <1>2, Inductive, PTL DEF Spec
=============================================================================
