------------------------------ MODULE HttpClients ------------------------------
(***************************************************************************)
(* The HTTP server (firmware/Common/App/http_status.c): a few client slots *)
(* on top of lwIP's connections, one RAW16 stream that borrows chunks of   *)
(* the frame pipeline, and downloads that borrow the scratch memory of the *)
(* module file service, both called directly (network on V5F).             *)
(*                                                                         *)
(* lwIP calls the server back from its main loop, so a handler runs to its *)
(* end; what interleaves are the calls.  The one exception is tcp_output,  *)
(* which may run the USB task and through it the unmount callback          *)
(* (t384_ncm.c, ncm_link_output): the results of Output say so.            *)
(*                                                                         *)
(* A handler changes a record of all the state, a "world", step by step;   *)
(* bytes are counted in units: one for an HTTP header, the wire header of  *)
(* a chunk or a part of its payload.                                       *)
(***************************************************************************)
EXTENDS Integers, Sequences, FiniteSetsExt

CONSTANTS
  N,              \* HTTP_CLIENTS
  Pcbs,           \* lwIP's connection blocks
  Requests,       \* requests the hosts send
  Length,         \* units of a page or a downloaded file
  Parts,          \* units of the payload of a chunk
  SndBuf,         \* TCP_SND_BUF: units lwIP keeps unacknowledged
  IdleLimit,      \* HTTP_IDLE_POLL_LIMIT
  DrainBudget,    \* HTTP_IDLE_PIPELINE_DRAIN_BUDGET
  CloseResults,   \* what tcp_close may return
  OutputResults,  \* what tcp_output may do, see Output
  MayMute,        \* connections whose peer may fall silent for good
  Depth, F,       \* chunks the pipeline holds, chunks of a frame
  None

Clients == 1 .. N
FrameIds == {0, 1}
Units == [seq : FrameIds, off : 0 .. F - 1, part : 0 .. Parts]
\* The HTTP header of a stream, and a unit that fits nowhere.
Status == [seq |-> -1, off |-> -1, part |-> Parts]
Broken == [seq |-> -1, off |-> -1, part |-> -1]
Kinds == {"none", "static", "download", "raw16"}

ASSUME ClientAssumption ==
  /\ N \in Nat \ {0} /\ Length \in Nat \ {0} /\ Parts \in Nat \ {0}
  /\ SndBuf \in Nat \ {0} /\ IdleLimit \in Nat \ {0} /\ DrainBudget \in Nat \ {0}
  /\ Requests \subseteq {"page", "small", "stream", "status", "read", "abort", "data"}
  /\ CloseResults \subseteq {"ERR_OK", "ERR_MEM"}
  /\ OutputResults \subseteq {"ok", "fail", "deselect_fail", "deselect_mem"}
  /\ Depth \in Nat \ {0} /\ F \in Nat \ {0}
  /\ None \notin Clients \cup Pcbs \cup Units \cup {Status, Broken}
  /\ None \notin [seq : FrameIds, off : 0 .. F - 1, start : BOOLEAN, end : BOOLEAN]

VARIABLES
  clients,      \* the slots
  raw16_client, \* the slot that streams
  tcp,          \* of each connection: free, open, or closing on its own
  arg,          \* slot its callbacks are attached to
  unacked,      \* units the peer has not acknowledged
  peer,         \* last unit of a stream the peer gets, or broken framing
  queue, tail,  \* the frame pipeline, see ChunkQueue
  lent,
  state, downloading, \* the module file service, see FileService
  mute,         \* connections whose peer sends nothing any more
  honest,       \* history: the last download was reported as it went
  reported      \* history: the last callback reported an abort as lwIP asks

vars == <<clients, raw16_client, tcp, arg, unacked, peer, queue, tail, lent,
          state, downloading, mute, honest, reported>>

Pipeline == INSTANCE ChunkQueue WITH borrowed <- state # "idle"
Files == INSTANCE FileService WITH T <- 1, transaction <- 1

\* A slot after memset.
Empty == [pcb |-> None, kind |-> "none", closing |-> FALSE, idle |-> 0,
          left |-> 0, inflight |-> 0,                   \* static response
          head |-> FALSE, leased |-> FALSE, part |-> 0, \* stream
          synced |-> FALSE,
          late |-> FALSE] \* its stall or download time limit has passed

Init ==
  /\ clients = [c \in Clients |-> Empty]
  /\ raw16_client = None
  /\ tcp = [p \in Pcbs |-> "free"]
  /\ arg = [p \in Pcbs |-> None]
  /\ unacked = [p \in Pcbs |-> 0]
  /\ peer = [p \in Pcbs |-> None]
  /\ queue = <<>> /\ tail = None /\ lent = None
  /\ state = "idle" /\ downloading = FALSE
  /\ mute = {} /\ honest = TRUE /\ reported = TRUE

\* The state a handler starts from, with nothing aborted and ERR_OK to return.
World == [clients |-> clients, stream |-> raw16_client, tcp |-> tcp, arg |-> arg,
          unacked |-> unacked, peer |-> peer, queue |-> queue, lent |-> lent,
          tail |-> tail, state |-> state, downloading |-> downloading,
          honest |-> honest, aborted |-> {}, ret |-> "ERR_OK"]

Become(w) ==
  /\ clients' = w.clients /\ raw16_client' = w.stream
  /\ tcp' = w.tcp /\ arg' = w.arg /\ unacked' = w.unacked /\ peer' = w.peer
  /\ queue' = w.queue /\ lent' = w.lent /\ tail' = w.tail
  /\ state' = w.state /\ downloading' = w.downloading /\ honest' = w.honest
  /\ UNCHANGED mute

\* How lwIP may answer a handler: the units it takes, whether there was space
\* for one more that it refused, what tcp_output does and tcp_close returns.
\* (Only a stream looks at "more", only other clients are closed.)
Answers == {x \in [n : 0 .. SndBuf, more : BOOLEAN, out : OutputResults, close : CloseResults] :
              /\ x.n = 0 => x.out = "ok"
              /\ x.more => x.close = "ERR_OK"}
Plain == {x \in Answers : x.n = 0 /\ ~x.more /\ x.close = "ERR_OK"}
Outcomes(p, acked) == {x \in Answers : x.n <= SndBuf - unacked[p] + acked}

\* The main loop calls the server.
Call(w) == Become(w) /\ reported' = TRUE
\* lwIP calls it back about p, and wants to know whether p was aborted.
Callback(p, w) ==
  Become(w) /\ reported' = (p \in w.aborted <=> w.ret = "ERR_ABRT")

-----------------------------------------------------------------------------
(* Giving up clients.                                                       *)

Complete_Written(k) == k.left = 0
Complete(k) == k.left = 0 /\ k.inflight = 0

DownloadRelease(w, c) ==
  LET k == w.clients[c]
  IN  IF k.kind # "download" THEN w
      ELSE [w EXCEPT !.state = IF w.downloading THEN "idle" ELSE @,
                     !.downloading = FALSE,
                     !.honest = Complete(k) <=> k.left = 0 /\ w.unacked[k.pcb] = 0]

ReleaseChunk(w, c) ==
  IF ~w.clients[c].leased THEN w
  ELSE [w EXCEPT !.queue = Tail(@), !.lent = None,
                 !.clients[c].leased = FALSE, !.clients[c].part = 0]

Freed_Kept(w, c) == DownloadRelease(w, c)
Freed(w, c) == ReleaseChunk(DownloadRelease(w, c), c)

release_client(w, c) ==
  [Freed(w, c) EXCEPT !.stream = IF @ = c THEN None ELSE @,
                      !.clients[c] = Empty]

Detach_Kept(w, p) == w
Detach(w, p) == [w EXCEPT !.arg[p] = None]

Dead(w, p) ==
  [w EXCEPT !.tcp[p] = "free", !.arg[p] = None, !.unacked[p] = 0, !.peer[p] = None]

abort_client(w, c) ==
  LET p == w.clients[c].pcb
  IN  IF p = None THEN release_client(w, c)
      ELSE [Dead(release_client(w, c), p) EXCEPT !.aborted = @ \cup {p}]

AbortThose(w, S) ==
  LET f[c \in 0 .. N] == IF c = 0 THEN w
                         ELSE IF c \in S THEN abort_client(f[c - 1], c) ELSE f[c - 1]
  IN  f[N]

\* abort_client(client); return ERR_ABRT
AbortReturn(w, c) == [abort_client(w, c) EXCEPT !.ret = "ERR_ABRT"]

StreamAborted_Silently(w, c) == abort_client(w, c)
StreamAborted(w, c) == AbortReturn(w, c)

\* close_client: a stream is aborted; otherwise the connection is detached and
\* left to lwIP, or attached again when there is no memory for its end.
close_client(w, c, x) ==
  LET k == w.clients[c]
  IN  IF k.pcb = None THEN w
      ELSE IF k.kind = "raw16" THEN StreamAborted(w, c)
      ELSE IF x.close = "ERR_MEM" THEN [w EXCEPT !.clients[c].closing = TRUE]
      ELSE [release_client(Detach(w, k.pcb), c) EXCEPT !.tcp[k.pcb] = "closing"]

\* tcp_output after a write: done or out of memory, failed, or the host is
\* deselected meanwhile, which resets the server, and then either.
Output(w, c, x) ==
  CASE x.out = "ok"          -> w
    [] x.out = "fail"        -> AbortReturn(w, c)
    [] x.out = "deselect_fail" -> AbortReturn(AbortThose(w, Clients), c)
    [] x.out = "deselect_mem"  -> AbortThose(w, Clients)

-----------------------------------------------------------------------------
(* Responses.                                                               *)

Space(w, c) == SndBuf - w.unacked[w.clients[c].pcb]

\* queue_static_chunk, when lwIP takes x.n units.
queue_static_chunk(w, c, x) ==
  LET k == w.clients[c]
      m == Min({x.n, k.left, Space(w, c)})
  IN  IF k.left = 0
        THEN IF k.inflight # 0 THEN w
             ELSE close_client([w EXCEPT !.clients[c].closing = TRUE], c, x)
        ELSE IF m = 0 THEN w
        ELSE Output([w EXCEPT !.clients[c].left = @ - m,
                              !.clients[c].inflight = @ + m,
                              !.unacked[k.pcb] = @ + m], c, x)

send_static_response(w, c, kind, length, x) ==
  queue_static_chunk([w EXCEPT !.clients[c].kind = kind, !.clients[c].left = length,
                               !.clients[c].inflight = 0, !.clients[c].idle = 0],
                     c, x)

\* send_and_close: all at once or not at all.
send_and_close(w, c, x) ==
  IF x.n = 0 \/ Space(w, c) = 0 THEN AbortReturn(w, c)
  ELSE LET sent == Output([w EXCEPT !.unacked[w.clients[c].pcb] = @ + 1], c, x)
       IN  IF x.out \in {"fail", "deselect_fail"} THEN sent
           ELSE close_client([sent EXCEPT !.clients[c].closing = TRUE], c, x)

\* What the peer makes of a unit that follows another one.
Follows(last, u) ==
  IF u.part > 0 THEN last = [u EXCEPT !.part = @ - 1]
  ELSE /\ last # None /\ last.part = Parts
       /\ u.off = 0 \/ (last.seq = u.seq /\ last.off = u.off - 1)

Wanted_Any(k, chunk) == TRUE
Wanted(k, chunk) == k.synced \/ chunk.start

\* lease_next_raw16_chunk: a stream begins at the start of a frame.
lease_next_raw16_chunk(w, c) ==
  LET good == {i \in DOMAIN w.queue : Wanted(w.clients[c], w.queue[i])}
  IN  IF w.lent # None THEN w
      ELSE IF good = {} THEN [w EXCEPT !.queue = <<>>]
      ELSE [w EXCEPT !.queue = SubSeq(@, Min(good), Len(@)),
                     !.lent = w.queue[Min(good)],
                     !.clients[c].synced = TRUE, !.clients[c].leased = TRUE,
                     !.clients[c].part = 0]

Leased(w, c) == IF w.clients[c].head \/ w.clients[c].leased THEN w
                ELSE lease_next_raw16_chunk(w, c)

\* One write of queue_raw16_data.
Write(w, c) ==
  LET v == Leased(w, c)
      k == v.clients[c]
      u == [seq |-> v.lent.seq, off |-> v.lent.off, part |-> k.part]
      took == [v EXCEPT !.unacked[k.pcb] = @ + 1, !.clients[c].late = FALSE]
  IN  IF k.head
        THEN [took EXCEPT !.clients[c].head = FALSE, !.peer[k.pcb] = Status]
      ELSE IF ~k.leased THEN v
      ELSE LET w2 == [took EXCEPT !.clients[c].part = @ + 1,
                        !.peer[k.pcb] = IF Follows(@, u) THEN u ELSE Broken]
           IN  IF k.part = Parts THEN ReleaseChunk(w2, c) ELSE w2

\* queue_raw16_data, when lwIP takes x.n units; it has leased the next chunk
\* before lwIP refuses more.
queue_raw16_data(w, c, x) ==
  LET m == Min({x.n, Space(w, c)})
      f[i \in 0 .. m] == IF i = 0 THEN w ELSE Write(f[i - 1], c)
      v == IF x.more /\ Space(f[m], c) > 0 THEN Leased(f[m], c) ELSE f[m]
  IN  IF v.unacked = w.unacked THEN v ELSE Output(v, c, x)

send_raw16_stream(w, c, x) ==
  IF w.state # "idle" \/ w.stream # None
    THEN send_and_close(w, c, x)
    ELSE queue_raw16_data([w EXCEPT !.clients[c] = [@ EXCEPT !.kind = "raw16",
                             !.head = TRUE], !.stream = c], c, x)

-----------------------------------------------------------------------------
(* The module file service: the calls of handle_module_request.             *)

\* start pauses the capture, which cuts the open frame, drains the queue and
\* takes the memory; it may fail to, see BlockRing.
Started(w, done) ==
  IF w.stream = None /\ w.state = "idle" /\ w.lent = None
    THEN [w EXCEPT !.state = IF done THEN "reading" ELSE @, !.queue = <<>>,
                   !.tail = None]
    ELSE w

Cancelled(w, at) ==
  LET v == AbortThose(w, {c \in Clients : w.clients[c].kind = "download"})
  IN  IF v.downloading \/ v.state \notin {"reading", "ready"} THEN v
      ELSE [v EXCEPT !.state = IF v.state = "ready" THEN "idle" ELSE at]

\* Each is answered by a short response; the data by the file itself.
handle_module_request(w, c, req, x) ==
  LET reply(v) == send_static_response(v, c, "static", 1, x)
  IN  CASE req = "status" -> reply(w)
        [] req = "read"   -> reply(Started(w, x.more))
        [] req = "abort"  -> reply(Cancelled(w, IF x.more THEN "closing" ELSE "idle"))
        [] req = "data"   ->
             IF w.state # "ready" \/ w.downloading THEN reply(w)
             ELSE send_static_response([w EXCEPT !.downloading = TRUE], c,
                                       "download", Length, x)

-----------------------------------------------------------------------------
(* Callbacks of lwIP.  x: what lwIP takes, and its results.     *)

Attached(p) == arg[p] # None
InUse(c) == clients[c].pcb # None

http_accept(p) ==
  /\ tcp[p] = "free"
  /\ \E c \in Clients :
       /\ ~InUse(c) /\ \A d \in 1 .. c - 1 : InUse(d)
       /\ Callback(p, [World EXCEPT !.clients[c] = [Empty EXCEPT !.pcb = p],
                                    !.tcp[p] = "open", !.arg[p] = c])

\* With every slot in use the connection is aborted at once.
http_accept_reject(p) ==
  /\ tcp[p] = "free" /\ \A c \in Clients : InUse(c)
  /\ Callback(p, [World EXCEPT !.aborted = {p}, !.ret = "ERR_ABRT"])

Heard(w, c) == [w EXCEPT !.clients[c].idle = 0]

\* Data that completes a request, while the slot waits for one.
http_request(p, req, x) ==
  LET c == arg[p]
      w == Heard(World, c)
  IN  /\ tcp[p] = "open" /\ Attached(p) /\ p \notin mute
      /\ clients[c].kind = "none" /\ ~clients[c].closing
      /\ Callback(p,
           CASE req = "page"   -> send_static_response(w, c, "static", Length, x)
             [] req = "small"  -> send_and_close(w, c, x)
             [] req = "stream" -> send_raw16_stream(w, c, x)
             [] OTHER          -> handle_module_request(w, c, req, x))

\* Data of an unfinished request, or discarded because one is being answered.
http_data(p) ==
  /\ tcp[p] = "open" /\ Attached(p) /\ p \notin mute
  /\ Callback(p, Heard(World, arg[p]))

\* The peer has closed its side.
http_fin(p, x) ==
  /\ tcp[p] = "open" /\ Attached(p)
  /\ Callback(p, close_client(World, arg[p], x))

\* The peer acknowledges a units.
http_sent(p, a, x) ==
  LET c == arg[p]
      k == clients[c]
      w == [Heard(World, c) EXCEPT !.unacked[p] = @ - a]
  IN  /\ Attached(p) /\ p \notin mute
      /\ Callback(p,
           IF k.kind \in {"static", "download"}
             THEN queue_static_chunk([w EXCEPT !.clients[c].inflight =
                                        IF a < @ THEN @ - a ELSE 0], c, x)
           ELSE IF k.closing THEN close_client(w, c, x)
           ELSE IF k.kind = "raw16"
             THEN queue_raw16_data([w EXCEPT !.clients[c].late = FALSE], c, x)
           ELSE w)

IdleTooLong_OneLate(k) == k.idle + 1 > IdleLimit
IdleTooLong(k) == k.idle + 1 >= IdleLimit
Refilled(w, c) == w.ret # "ERR_OK" \/ w.clients[c].pcb = None \/ w.clients[c].closing

Idle(w, c) ==
  IF IdleTooLong(w.clients[c]) THEN AbortReturn(w, c)
  ELSE [w EXCEPT !.clients[c].idle = @ + 1]

http_poll(p, x) ==
  LET c == arg[p]
      k == clients[c]
      w == queue_static_chunk(World, c, x)
  IN  /\ Attached(p)
      /\ Callback(p,
           IF k.closing THEN close_client(World, c, x)
           ELSE IF k.kind = "raw16" THEN queue_raw16_data(World, c, x)
           ELSE IF k.kind \in {"static", "download"} /\ k.inflight = 0
             THEN IF Refilled(w, c) THEN w ELSE Idle(w, c)
           ELSE Idle(World, c))

\* lwIP has freed a connection: reset by the peer, or out of retries.
http_error(p) ==
  /\ Attached(p)
  /\ Call(Dead(release_client(World, arg[p]), p))

\* From now on nothing comes from the peer of p.
fall_silent(p) ==
  /\ p \in MayMute \ mute
  /\ mute' = mute \cup {p} /\ reported' = TRUE
  /\ UNCHANGED <<clients, raw16_client, tcp, arg, unacked, peer, queue, tail,
                 lent, state, downloading, honest>>

\* A detached connection ends.
linger(p) ==
  /\ tcp[p] = "closing"
  /\ Call(Dead(World, p))

Lwip(p) ==
  \/ http_accept(p) \/ http_accept_reject(p) \/ http_data(p)
  \/ http_error(p) \/ fall_silent(p) \/ linger(p)
  \/ \E x \in Outcomes(p, 0) :
       \/ http_fin(p, x) \/ http_poll(p, x)
       \/ \E req \in Requests : http_request(p, req, x)
  \/ \E a \in 1 .. unacked[p] : \E x \in Outcomes(p, a) : http_sent(p, a, x)

-----------------------------------------------------------------------------
(* The main loop.                                                           *)

Expired_DownloadOnly(k) == k.kind = "download" /\ k.late
Expired_StreamOnly(k) == k.kind = "raw16" /\ k.late
Expired(k) == k.late

Drained(w) == [w EXCEPT !.queue = SubSeq(@, DrainBudget + 1, Len(@))]

task(x) ==
  LET w == AbortThose(World, {c \in Clients :
                        clients[c].kind = "download" /\ Expired(clients[c])})
      c == raw16_client
  IN  Call(IF c = None THEN IF w.lent = None THEN Drained(w) ELSE w
           ELSE IF clients[c].pcb = None \/ clients[c].closing \/ Expired(clients[c])
             THEN abort_client(w, c)
           ELSE queue_raw16_data(w, c, x))

\* Five seconds without progress of the stream, 15 s of a download.
expire(c) ==
  /\ clients[c].kind \in {"raw16", "download"}
  /\ Call([World EXCEPT !.clients[c].late = TRUE])

\* The host deselects the configuration between two calls.
reset == Call(AbortThose(World, Clients))

\* The other users of the pipeline and of the file service.
publish(seq, off) ==
  /\ reported' = TRUE
  /\ UNCHANGED <<clients, raw16_client, tcp, arg, unacked, peer, state,
                 downloading, mute, honest>>
  /\ Pipeline!Publish(seq, off)

cut ==
  /\ reported' = TRUE
  /\ UNCHANGED <<clients, raw16_client, tcp, arg, unacked, peer, state,
                 downloading, mute, honest>>
  /\ Pipeline!Cut

file_task ==
  /\ Files!file_task
  /\ reported' = TRUE
  /\ UNCHANGED <<clients, raw16_client, tcp, arg, unacked, peer, queue, tail,
                 lent, mute, honest>>

Tasks ==
  \E x \in IF raw16_client = None \/ ~InUse(raw16_client) THEN Plain
           ELSE Outcomes(clients[raw16_client].pcb, 0) : task(x)

MainLoop ==
  \/ reset \/ cut \/ file_task
  \/ \E c \in Clients : expire(c)
  \/ Tasks
  \/ \E seq \in FrameIds, off \in 0 .. F - 1 : publish(seq, off)

Next == MainLoop \/ \E p \in Pcbs : Lwip(p)

\* The main loop turns, its clock runs and lwIP polls; nothing obliges a peer.
Polls(p) == \E x \in Outcomes(p, 0) : http_poll(p, x)

Fairness ==
  /\ WF_vars(Tasks)
  /\ \A c \in Clients : WF_vars(expire(c))
  /\ \A p \in Pcbs : WF_vars(Polls(p))

Spec == Init /\ [][Next]_vars
FairSpec == Spec /\ Fairness
-----------------------------------------------------------------------------
(* Properties.                                                              *)

\* Every field of the slots, connections and services keeps its type.
TypeOK ==
  /\ clients \in [Clients -> [pcb : Pcbs \cup {None}, kind : Kinds, closing : BOOLEAN,
       idle : 0 .. IdleLimit - 1, left : 0 .. Length, inflight : 0 .. Length,
       head : BOOLEAN, leased : BOOLEAN, part : 0 .. Parts, synced : BOOLEAN,
       late : BOOLEAN]]
  /\ raw16_client \in Clients \cup {None}
  /\ tcp \in [Pcbs -> {"free", "open", "closing"}]
  /\ arg \in [Pcbs -> Clients \cup {None}]
  /\ unacked \in [Pcbs -> 0 .. SndBuf]
  /\ peer \in [Pcbs -> Units \cup {None, Status, Broken}]
  /\ Len(queue) <= Depth
  /\ state \in {"idle", "reading", "ready", "closing"}
  /\ mute \subseteq MayMute
  /\ {downloading, honest, reported} \subseteq BOOLEAN

\* A connection calls back the slot that owns it and no other, however its
\* predecessor in the slot ended: a connection lwIP is still closing, or one
\* it has freed, never reaches a reused slot.
SlotsMatchConnections ==
  \A p \in Pcbs, c \in Clients :
    clients[c].pcb = p <=> arg[p] = c /\ tcp[p] = "open"

Consistent == TypeOK /\ SlotsMatchConnections

\* What is borrowed has one borrower: the chunk of the pipeline the one
\* stream, the file of the module one download.  No way a client can end
\* leaves a lease behind, which would stop the pictures or the service.
LeasesAreAccounted ==
  /\ \A c \in Clients : raw16_client = c <=> clients[c].kind = "raw16"
  /\ lent # None <=> \E c \in Clients : clients[c].leased
  /\ \A c \in Clients : clients[c].leased => raw16_client = c /\ lent = Head(queue)
  /\ downloading <=> \E c \in Clients : clients[c].kind = "download"
  /\ \A c, d \in Clients :
       clients[c].kind = "download" /\ clients[d].kind = "download" => c = d
  /\ raw16_client # None => state = "idle"

\* What the peer of a stream receives is a header, then whole chunks: each its
\* wire header and payload, the chunks of a frame in order from its start, a
\* frame cut short followed by the start of another.
StreamIsFramed == \A p \in Pcbs : peer[p] # Broken

\* The file service is told that a download is complete exactly when the peer
\* has acknowledged all of it.
DownloadsReportedHonestly == honest

\* "When calling this from one of the TCP callbacks, make sure you always
\* return ERR_ABRT (and never return ERR_ABRT otherwise" (lwIP's tcp_abort).
AbortIsReported == reported

\* A slot whose peer falls silent is free again, whatever it was doing.
SilentPeerIsDropped ==
  \A p \in Pcbs : (p \in mute /\ Attached(p)) ~> ~Attached(p)

\* A download ends although its peer keeps acknowledging, and gives the memory
\* back: what the file service, and through it the capture, relies on.
DownloadEnds == downloading ~> ~downloading
=============================================================================
