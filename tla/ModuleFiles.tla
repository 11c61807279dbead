----------------------------- MODULE ModuleFiles -----------------------------
(***************************************************************************)
(* The module file service (firmware/Common/Raw16/t384_module_files.c): it *)
(* reads one table, a set of parameters or a state snapshot of the camera  *)
(* module over a UART, command by command, while the capture is paused.    *)
(* A transaction asks who the module is, reads, and asks again.            *)
(*                                                                         *)
(* The module answers a command once, late, damaged or not at all, and can *)
(* be exchanged for another of the same model.  It is modelled from what   *)
(* the service expects of it; so is the time: a limit may expire whenever  *)
(* it runs, except that an answer still on its way when a command times    *)
(* out arrives before a drain has been quiet for 2100 ms.                  *)
(*                                                                         *)
(* A reply is delivered as a whole, and its content is kept to what tells  *)
(* answers apart: the command it answers, a value and the module it is of. *)
(***************************************************************************)
EXTENDS Integers, Sequences

CONSTANTS
  T,            \* transactions are numbered 1 .. T, then from 1 (2^32 - 1)
  M,            \* camera modules, fitted one after the other
  Kinds,        \* what can be asked for
  MaxBlocks,    \* blocks of 512 bytes in a file (64 in the code)
  MaxLine       \* bound on replies on their way; the module's others are lost

ASSUME ModuleAssumption ==
  /\ T \in Nat \ {0} /\ M \in Nat \ {0} /\ MaxBlocks \in Nat \ {0}
  /\ MaxLine \in Nat
  /\ Kinds \subseteq {"table", "distance", "parameters", "state"}

VARIABLES
  state,          \* held is TRUE in exactly READING and READY
  error, downloading, cleanup_failed, transaction, length,
  phase, selected,
  pending,        \* a command is being sent or waits for its answer
  may_be_open,    \* an OPEN was issued and its file not yet closed
  tx,             \* how much of the command is sent: "none", "some", "all"
  command,        \* the command in the transmit buffer
  drained,        \* the drain has thrown something away
  identity,       \* identity_raw: the answers before the read
  payload,        \* what the scratch memory holds
  line,           \* replies on their way or in the receive queue
  camera, handle, \* the module fitted now, and whether it has a file open
  residue         \* the unfinished command in the module's parser

statusVars == <<state, error, downloading, cleanup_failed>>
phaseVars == <<phase, pending, may_be_open, drained>>
resultVars == <<transaction, selected, length, identity, payload>>
txVars == <<tx, command>>
moduleVars == <<camera, handle, residue>>
wireVars == <<resultVars, txVars, line, moduleVars>>
vars == <<statusVars, phaseVars, wireVars>>

StatePhases ==
  {"STATE_GAIN", "STATE_VTEMP", "STATE_FFC", "STATE_SHUTTER", "STATE_GAIN_AFTER"}
QueryPhases == {"PARAMETERS"} \cup StatePhases

\* The command of a phase ...
Asks == [BEFORE_PN |-> "PN", BEFORE_SN |-> "SN", BEFORE_FW |-> "FW",
         AFTER_PN |-> "PN", AFTER_SN |-> "SN", AFTER_FW |-> "FW",
         OPEN |-> "OPEN", INFO |-> "INFO", READ |-> "READ", CLOSE |-> "CLOSE",
         PARAMETERS |-> "PARAMETERS", STATE_GAIN |-> "GAIN",
         STATE_VTEMP |-> "VTEMP", STATE_FFC |-> "FFC",
         STATE_SHUTTER |-> "SHUTTER", STATE_GAIN_AFTER |-> "GAIN"]

\* ... the bytes of data in its answer ...
DataBytes == [PN |-> 32, SN |-> 32, FW |-> 11, OPEN |-> 0, INFO |-> 5,
              READ |-> 512, CLOSE |-> 0, PARAMETERS |-> 6, GAIN |-> 1,
              VTEMP |-> 2, FFC |-> 1, SHUTTER |-> 1]

\* ... and the phase after it, where that does not depend on the answer.
Following == [BEFORE_PN |-> "BEFORE_SN", BEFORE_SN |-> "BEFORE_FW",
              PARAMETERS |-> "AFTER_PN", STATE_GAIN |-> "STATE_VTEMP",
              STATE_VTEMP |-> "STATE_FFC", STATE_FFC |-> "STATE_SHUTTER",
              STATE_SHUTTER |-> "STATE_GAIN_AFTER",
              AFTER_PN |-> "AFTER_SN", AFTER_SN |-> "AFTER_FW"]

Phases == DOMAIN Asks \cup {"DRAIN"}
Commands == DOMAIN DataBytes
Errors == {"TIMEOUT", "BAD_FRAME", "MODULE_ERROR", "BAD_LENGTH", "IDENTITY",
           "NO_SUFFIX", "UART_ERROR", "CANCELLED"}

Unknown == 0 \* a value the module does not tell, or that makes no sense
Damaged == [command |-> "CLOSE", outcome |-> "damaged", value |-> Unknown, from |-> 0]
Bytes(r) == IF r.outcome = "ok" THEN DataBytes[r.command] ELSE 0
Raw(r) == <<r.command, r.value>>

Init ==
  /\ state = "IDLE" /\ error = "NONE"
  /\ downloading = FALSE /\ cleanup_failed = FALSE
  /\ transaction = 0 /\ length = 0
  /\ phase = "BEFORE_PN" /\ selected \in Kinds
  /\ pending = FALSE /\ may_be_open = FALSE
  /\ tx = "none" /\ command = "PN" /\ drained = FALSE
  /\ identity = [c \in {"PN", "SN", "FW"} |-> <<c, Unknown>>]
  /\ payload = <<>>
  /\ line = <<>>
  /\ camera = 1 /\ handle = FALSE /\ residue = "NONE"

-----------------------------------------------------------------------------
(* Ends and failures.                                                       *)

\* failed_done() and, with lock, what refuses every later transaction.
finish(e, lock) ==
  /\ error' = e
  /\ state' = IF e = "CANCELLED" THEN "ABORTED" ELSE "ERROR"
  /\ downloading' = FALSE
  /\ cleanup_failed' = (cleanup_failed \/ lock)
  /\ pending' = FALSE

First(e) == IF error = "NONE" THEN e ELSE error

\* Mistaken variants of operations end in a mark that says what is wrong in
\* them: each is a bug the properties below must catch.
Locks_NotOpened(e, p, open, sent) ==
  \/ p \in QueryPhases /\ sent # "none" /\ e # "MODULE_ERROR"
  \/ p = "CLOSE"
  \/ p = "OPEN" /\ sent # "all"

Locks_NotCutShort(e, p, open, sent) ==
  \/ p \in QueryPhases /\ sent # "none" /\ e # "MODULE_ERROR"
  \/ p = "CLOSE"

\* The module may still answer, or act on, what it has been sent, and a CLOSE
\* could not put that right.
Locks(e, p, open, sent) ==
  \/ p \in QueryPhases /\ sent # "none" /\ e # "MODULE_ERROR"
  \/ p = "CLOSE"
  \/ p = "OPEN" /\ open /\ sent # "all"

\* fail(), called in phase p: the first error stays, and a file that may be open
\* is closed after what is on the line has passed.
fail(e, p, open, sent) ==
  LET locks == Locks(e, p, open, sent) IN
  /\ may_be_open' = open
  /\ \/ /\ locks \/ ~open
        /\ finish(First(e), locks)
        /\ phase' = p
        /\ UNCHANGED drained
     \/ /\ open /\ ~locks
        /\ error' = First(e)
        /\ phase' = "DRAIN" /\ pending' = FALSE /\ drained' = FALSE
        /\ UNCHANGED <<state, downloading, cleanup_failed>>

Fail(e) == fail(e, phase, may_be_open, tx)

-----------------------------------------------------------------------------
(* The camera module.                                                       *)

\* What the module can tell: a text that is no name, a file that is not there
\* or too long and a gain other than before included.
Values(c) ==
  CASE c = "PN" -> {Unknown, 1}
    [] c = "SN" -> {Unknown, camera}
    [] c = "INFO" -> IF handle THEN 0 .. MaxBlocks ELSE {Unknown}
    [] c = "READ" -> {Len(payload) + 1}
    [] c = "GAIN" -> {1, 2}
    [] OTHER -> {1}

Answers(c) ==
  {[command |-> c, outcome |-> "refused", value |-> Unknown, from |-> camera]}
  \cup IF c = "READ" /\ ~handle THEN {}
       ELSE {[command |-> c, outcome |-> "ok", value |-> v, from |-> camera] :
               v \in Values(c)}

\* It carries the command out, and the answer may be damaged or get lost.
answer(c) ==
  \E r \in Answers(c) :
    /\ handle' = IF r.outcome = "ok" /\ c \in {"OPEN", "CLOSE"}
                 THEN c = "OPEN" ELSE handle
    /\ \/ line' = line
       \/ /\ Len(line) < MaxLine
          /\ line' \in {Append(line, r), Append(line, Damaged)}

\* It has all bytes of a command.  They may be taken for the rest of one that
\* was cut short before, and then neither is carried out.
module_hears(c) ==
  /\ \/ answer(c)
     \/ /\ residue # "NONE"
        /\ UNCHANGED <<handle, line>>
  /\ residue' = "NONE"
  /\ UNCHANGED camera

\* Another module is fitted, not in the middle of a command.
exchange ==
  /\ camera < M
  /\ tx # "some"
  /\ camera' = camera + 1
  /\ handle' = FALSE
  /\ residue' = "NONE"
  /\ UNCHANGED <<statusVars, phaseVars, resultVars, txVars, line>>

-----------------------------------------------------------------------------
(* Requests.                                                                *)

NextTransaction_NoWrap == transaction + 1
NextTransaction == IF transaction = T THEN 1 ELSE transaction + 1

\* The pause flushes the receive queue: replies that have arrived are gone,
\* those on their way are not.
start(k) ==
  /\ state \notin {"READING", "READY"} /\ ~cleanup_failed
  /\ transaction' = NextTransaction
  /\ state' = "READING" /\ error' = "NONE"
  /\ downloading' = FALSE /\ cleanup_failed' = FALSE
  /\ length' = 0 /\ payload' = <<>>
  /\ selected' = k
  /\ phase' = "BEFORE_PN"
  /\ pending' = FALSE /\ may_be_open' = FALSE
  /\ \E n \in 0 .. Len(line) : line' = SubSeq(line, n + 1, Len(line))
  /\ UNCHANGED <<drained, identity, txVars, moduleVars>>

\* After a failed cleanup every start is refused until the next boot.
start_refused == cleanup_failed /\ UNCHANGED vars

\* A command that is being sent is finished first: its answer, or its timeout,
\* then ends the transaction.
abort ==
  /\ ~downloading
  /\ \/ /\ state = "READY"
        /\ finish("CANCELLED", FALSE)
        /\ UNCHANGED <<phase, may_be_open, drained>>
     \/ /\ state = "READING" /\ error = "NONE"
        /\ \/ /\ pending /\ tx # "all"
              /\ error' = "CANCELLED"
              /\ UNCHANGED <<state, downloading, cleanup_failed, phaseVars>>
           \/ /\ ~(pending /\ tx # "all")
              /\ Fail("CANCELLED")
  /\ UNCHANGED wireVars

download(t) ==
  /\ state = "READY" /\ ~downloading /\ transaction = t
  /\ downloading' = TRUE
  /\ UNCHANGED <<state, error, cleanup_failed, phaseVars, wireVars>>

download_release(complete) ==
  /\ downloading
  /\ state' = IF complete THEN "DONE" ELSE "ABORTED"
  /\ error' = IF complete THEN error ELSE "CANCELLED"
  /\ downloading' = FALSE /\ pending' = FALSE
  /\ UNCHANGED <<cleanup_failed, phase, may_be_open, drained, wireVars>>

Requests == \/ \E k \in Kinds : start(k)
            \/ start_refused
            \/ abort
            \/ \E t \in 1 .. T : download(t)
            \/ \E complete \in BOOLEAN : download_release(complete)

-----------------------------------------------------------------------------
(* The task: one iteration takes one of these ways.                         *)

\* A file nobody downloads for 60 seconds.
expire ==
  /\ state = "READY" /\ ~downloading
  /\ finish("TIMEOUT", FALSE)
  /\ UNCHANGED <<phase, may_be_open, drained, wireVars>>

Draining == state = "READING" /\ phase = "DRAIN"
Running == state = "READING" /\ phase # "DRAIN"

\* Whatever arrives while draining, noise too, restarts the quiet time.
drain_discard ==
  /\ Draining
  /\ line' = IF line = <<>> THEN line ELSE Tail(line)
  /\ drained' = TRUE
  /\ UNCHANGED <<statusVars, phase, pending, may_be_open, resultVars, txVars,
                 moduleVars>>

\* Not quiet for 2100 of 4000 ms, which takes something arriving.
drain_limit ==
  /\ Draining /\ drained
  /\ finish(error, TRUE)
  /\ UNCHANGED <<phase, may_be_open, drained, wireVars>>

drain_quiet_Now ==
  /\ Draining
  /\ phase' = "CLOSE"
  /\ UNCHANGED <<statusVars, pending, may_be_open, drained, wireVars>>

drain_quiet ==
  /\ Draining /\ line = <<>>
  /\ phase' = "CLOSE"
  /\ UNCHANGED <<statusVars, pending, may_be_open, drained, wireVars>>

\* The 30 seconds of the transaction are over.
deadline == Running /\ error = "NONE" /\ Fail("TIMEOUT") /\ UNCHANGED wireVars

\* The path of a distance table needs a suffix in the product name.  It is made
\* after the transmit offset is reset and before anything counts as open.
no_suffix ==
  /\ Running /\ ~pending
  /\ phase = "OPEN" /\ selected = "distance"
  /\ tx' = "none"
  /\ fail("NO_SUFFIX", phase, may_be_open, "none")
  /\ UNCHANGED <<command, resultVars, line, moduleVars>>

\* issue(): the next command is put into the transmit buffer.  What was left of
\* the previous one is never sent.
issue ==
  /\ Running /\ ~pending
  /\ residue' = IF tx = "some" THEN command ELSE residue
  /\ command' = Asks[phase]
  /\ tx' = "none"
  /\ pending' = TRUE
  /\ may_be_open' = (may_be_open \/ phase = "OPEN")
  /\ UNCHANGED <<statusVars, phase, drained, resultVars, line, camera, handle>>

command_timeout_NoError ==
  Running /\ pending /\ error = "NONE" /\ Fail("TIMEOUT") /\ UNCHANGED wireVars

\* Two seconds after issue().
command_timeout == Running /\ pending /\ Fail("TIMEOUT") /\ UNCHANGED wireVars

\* The UART interrupt saw an error, or its queue ran over.
uart_error == Running /\ pending /\ Fail("UART_ERROR") /\ UNCHANGED wireVars

transmit ==
  /\ Running /\ pending /\ tx # "all"
  /\ \/ /\ tx = "none" /\ tx' = "some"
        /\ UNCHANGED <<line, moduleVars>>
     \/ /\ tx' = "all"
        /\ module_hears(command)
  /\ UNCHANGED <<statusVars, phaseVars, resultVars, command>>
-----------------------------------------------------------------------------
(* The task: an answer.                                                     *)

\* Bytes of a frame that is given up half-way stay in the queue.
Leave == line' = Tail(line) \/ line' = <<Damaged>> \o Tail(line)

Arrived == Running /\ pending /\ line # <<>>

\* Something arrives before the command is sent, or does not look like the
\* frame that is due.
bad_frame ==
  /\ Arrived
  /\ \/ tx # "all" /\ Fail("BAD_FRAME")
     \/ /\ tx = "all" /\ Head(line).outcome = "damaged"
        /\ Fail("BAD_FRAME")
     \/ /\ tx = "all" /\ Head(line).outcome # "damaged"
        /\ Bytes(Head(line)) > DataBytes[Asks[phase]]
        /\ Fail("BAD_LENGTH")
  /\ Leave
  /\ UNCHANGED <<resultVars, txVars, moduleVars>>

Keep(r) == payload' = Append(payload, r)

\* A well-formed refusal.  One of a state query is kept as an unknown value, but
\* the gain has to be the same unknown at both ends of the snapshot.
refused ==
  /\ Arrived /\ tx = "all"
  /\ Head(line).outcome = "refused"
  /\ \/ /\ phase \notin StatePhases
        /\ fail("MODULE_ERROR", phase, may_be_open /\ phase # "OPEN", tx)
        /\ UNCHANGED payload
     \/ /\ phase \in StatePhases \ {"STATE_GAIN_AFTER"}
        /\ phase' = Following[phase] /\ pending' = FALSE
        /\ Keep(Head(line))
        /\ UNCHANGED <<statusVars, may_be_open, drained>>
     \/ /\ phase = "STATE_GAIN_AFTER" /\ payload[1].outcome = "refused"
        /\ phase' = "AFTER_PN" /\ pending' = FALSE
        /\ UNCHANGED <<statusVars, may_be_open, drained, payload>>
     \/ /\ phase = "STATE_GAIN_AFTER" /\ payload[1].outcome # "refused"
        /\ fail("IDENTITY", "AFTER_PN", may_be_open, tx)
        /\ UNCHANGED payload
  /\ line' = Tail(line)
  /\ UNCHANGED <<transaction, selected, length, identity, txVars, moduleVars>>

\* An answer of the wrong length, or one that comes after the transaction has
\* been cancelled.
unwanted ==
  /\ Arrived /\ tx = "all"
  /\ LET r == Head(line) IN
     /\ r.outcome = "ok"
     /\ \/ Bytes(r) < DataBytes[Asks[phase]] /\ Fail("BAD_LENGTH")
        \/ /\ Bytes(r) = DataBytes[Asks[phase]]
           /\ error # "NONE" /\ phase # "CLOSE"
           /\ Fail(error)
  /\ line' = Tail(line)
  /\ UNCHANGED <<resultVars, txVars, moduleVars>>

Accepts_AfterCancel(p) ==
  /\ Arrived /\ tx = "all" /\ phase = p
  /\ Head(line).outcome = "ok"
  /\ Bytes(Head(line)) = DataBytes[Asks[p]]
  /\ line' = Tail(line)
  /\ UNCHANGED <<txVars, moduleVars>>

\* The answer the command waits for, as far as its length tells.
Accepts(p) ==
  /\ Arrived /\ tx = "all" /\ phase = p
  /\ Head(line).outcome = "ok"
  /\ Bytes(Head(line)) = DataBytes[Asks[p]]
  /\ error = "NONE" \/ p = "CLOSE"
  /\ line' = Tail(line)
  /\ UNCHANGED <<txVars, moduleVars>>

Proceed(p) ==
  /\ phase' = p
  /\ pending' = FALSE
  /\ UNCHANGED <<statusVars, may_be_open, drained>>

FirstRead == CASE selected = "state" -> "STATE_GAIN"
               [] selected = "parameters" -> "PARAMETERS"
               [] OTHER -> "OPEN"

identity_before ==
  \E p \in {"BEFORE_PN", "BEFORE_SN", "BEFORE_FW"} :
    /\ Accepts(p)
    /\ identity' = [identity EXCEPT ![Asks[p]] = Raw(Head(line))]
    /\ \/ /\ p # "BEFORE_FW" /\ Head(line).value = Unknown
          /\ Fail("IDENTITY")
       \/ /\ p # "BEFORE_FW" /\ Head(line).value # Unknown
          /\ Proceed(Following[p])
       \/ p = "BEFORE_FW" /\ Proceed(FirstRead)
    /\ UNCHANGED <<transaction, selected, length, payload>>

query ==
  \E p \in QueryPhases \ {"STATE_GAIN_AFTER"} :
    /\ Accepts(p)
    /\ Keep(Head(line))
    /\ Proceed(Following[p])
    /\ UNCHANGED <<transaction, selected, length, identity>>

gain_after ==
  /\ Accepts("STATE_GAIN_AFTER")
  /\ \/ /\ Head(line).value = payload[1].value
        /\ Proceed("AFTER_PN")
     \/ /\ Head(line).value # payload[1].value
        /\ fail("IDENTITY", "AFTER_PN", may_be_open, tx)
  /\ UNCHANGED resultVars

opened ==
  /\ Accepts("OPEN")
  /\ Proceed("INFO")
  /\ UNCHANGED resultVars

info ==
  /\ Accepts("INFO")
  /\ \/ /\ Head(line).value = Unknown
        /\ Fail("MODULE_ERROR") \/ Fail("BAD_LENGTH")
     \/ /\ Head(line).value # Unknown
        /\ Proceed("READ")
  /\ length' = Head(line).value
  /\ UNCHANGED <<transaction, selected, identity, payload>>

read_block ==
  /\ Accepts("READ")
  /\ Keep(Head(line))
  /\ Proceed(IF Len(payload) + 1 = length THEN "CLOSE" ELSE "READ")
  /\ UNCHANGED <<transaction, selected, length, identity>>

closed ==
  /\ Accepts("CLOSE")
  /\ may_be_open' = FALSE
  /\ \/ /\ error = "NONE"
        /\ phase' = "AFTER_PN" /\ pending' = FALSE
        /\ UNCHANGED <<statusVars, drained>>
     \/ /\ error # "NONE"
        /\ finish(error, FALSE)
        /\ UNCHANGED <<phase, drained>>
  /\ UNCHANGED resultVars

Same_Model(p) == Head(line).command = identity[Asks[p]][1]
Same(p) == Raw(Head(line)) = identity[Asks[p]]

\* Who the module is must not have changed meanwhile.
identity_after ==
  \E p \in {"AFTER_PN", "AFTER_SN", "AFTER_FW"} :
    /\ Accepts(p)
    /\ \/ ~Same(p) /\ Fail("IDENTITY")
       \/ Same(p) /\ p # "AFTER_FW" /\ Proceed(Following[p])
       \/ /\ Same(p) /\ p = "AFTER_FW"
          /\ state' = "READY" /\ pending' = FALSE
          /\ UNCHANGED <<error, downloading, cleanup_failed, phase, may_be_open,
                         drained>>
    /\ UNCHANGED resultVars

Response == \/ bad_frame \/ refused \/ unwanted \/ identity_before \/ query
            \/ gain_after \/ opened \/ info \/ read_block \/ closed
            \/ identity_after

Task == \/ expire \/ drain_discard \/ drain_limit \/ drain_quiet \/ deadline
        \/ no_suffix \/ issue \/ command_timeout \/ uart_error \/ transmit
        \/ Response

Next == Requests \/ Task \/ exchange

\* The main loop keeps running the task, and its clock: a command that is not
\* answered times out, what is on the line arrives and then the line is quiet,
\* and a file nobody downloads expires.
Fairness ==
  WF_vars(issue \/ command_timeout \/ drain_discard \/ drain_quiet \/ expire)

Spec == Init /\ [][Next]_vars
FairSpec == Spec /\ Fairness

-----------------------------------------------------------------------------
(* Properties.                                                              *)

Replies == [command : Commands, outcome : {"ok", "refused", "damaged"},
            value : Nat, from : 0 .. M]

\* Every variable keeps its type; transaction numbers survive their wrap.
TypeOK ==
  /\ state \in {"IDLE", "READING", "READY", "DONE", "ERROR", "ABORTED"}
  /\ error \in Errors \cup {"NONE"}
  /\ downloading \in BOOLEAN /\ cleanup_failed \in BOOLEAN
  /\ transaction \in 0 .. T /\ length \in Nat
  /\ phase \in Phases /\ selected \in Kinds
  /\ pending \in BOOLEAN /\ may_be_open \in BOOLEAN /\ drained \in BOOLEAN
  /\ tx \in {"none", "some", "all"} /\ command \in Commands
  /\ identity \in [{"PN", "SN", "FW"} -> Commands \X Nat]
  /\ payload \in Seq(Replies) /\ line \in Seq(Replies)
  /\ camera \in 1 .. M /\ handle \in BOOLEAN
  /\ residue \in Commands \cup {"NONE"}

\* A file of the module is never forgotten: when no transaction is left to close
\* it, the service starts no other one, whatever answers were lost, late or
\* damaged and wherever an abort or a limit fell.
OpenFileIsKnown == handle => (state = "READING" /\ may_be_open) \/ cleanup_failed

\* The result is what it is said to be: every piece is the module's own answer to
\* the command it was asked with, in order, and all of them come from the one
\* module whose serial number is reported, although late answers to earlier
\* commands may be taken for it and modules are exchanged.
Pieces == CASE selected = "state" -> <<"GAIN", "VTEMP", "FFC", "SHUTTER">>
            [] selected = "parameters" -> <<"PARAMETERS">>
            [] OTHER -> [i \in 1 .. length |-> "READ"]
ResultIsGenuine ==
  state = "READY" =>
    /\ identity["PN"][1] = "PN" /\ identity["SN"][1] = "SN"
    /\ Len(payload) = Len(Pieces)
    /\ \A i \in 1 .. Len(payload) :
         payload[i].outcome = "ok" =>
           /\ payload[i].command = Pieces[i]
           /\ payload[i].from = identity["SN"][2]
           /\ Pieces[i] = "READ" => payload[i].value = i

\* "Finish an in-flight OPEN packet before cleanup: otherwise CLOSE bytes could
\* be consumed as the remaining file-name payload" (lines 397-398).
CloseIsNotSwallowed == ~(residue = "OPEN" /\ pending /\ command = "CLOSE")

\* What the service itself refuses, or a module that has changed, leaves nothing
\* uncertain and does not keep the next transaction from starting.
LocalErrorsNeverLock == error \in {"IDENTITY", "NO_SUFFIX"} => ~cleanup_failed

\* The scratch memory comes back, and with it the capture, unless a client
\* downloads.
ScratchComesBack ==
  state \in {"READING", "READY"} ~> state \notin {"READING", "READY"} \/ downloading

\* The callers' view: reading, closing after an error, ready, idle.
Stage == IF state = "READING" /\ error = "NONE" THEN "reading"
         ELSE IF state = "READING" THEN "closing"
         ELSE IF state = "READY" THEN "ready" ELSE "idle"
Number == IF transaction = 0 THEN T ELSE transaction

Service == INSTANCE FileService WITH state <- Stage, transaction <- Number

\* The service is the one the other core's calls are checked with.
ImplementsFileService == Service!FileSpec

\* "After an uncertain query response, don't issue CLOSE or let a delayed
\* response contaminate a new query" (lines 94-95): with no file open, only a
\* query that is still unanswered locks the service.  The code breaks this
\* between an answer and the next query (ModuleFilesLock.cfg).
OnlyDoubtLocks ==
  [][~may_be_open /\ ~cleanup_failed /\ cleanup_failed' => pending]_vars

\* "even a lost/partial ACK requires cleanup" (line 182): a transaction whose
\* file may be open, with nothing left to wait for, does not end before a CLOSE
\* is sent.  The code breaks this when it is cancelled just before it sends CLOSE
\* (ModuleFilesClose.cfg).
OpenFileIsClosed ==
  [][(/\ state = "READING" /\ state' # "READING"
      /\ may_be_open /\ ~pending /\ phase # "DRAIN") => command = "CLOSE"]_vars
=============================================================================
