-------------------------- MODULE ModuleFiles_proofs --------------------------
(***************************************************************************)
(* Proofs about ModuleFiles, for every number of transactions, modules,    *)
(* kinds and blocks.                                                       *)
(*                                                                         *)
(* The first part needs nothing about what the module answers: which       *)
(* failures lock the service, that an unfinished OPEN does, and that the   *)
(* service is what its callers are checked with, follow from the order in  *)
(* which the phases issue commands.                                        *)
(*                                                                         *)
(* The second part is about the answers.  A reply carries no number, and   *)
(* is told from another by its length alone; that an open file is never    *)
(* forgotten and that a result is genuine is therefore true only as long   *)
(* as few replies of earlier transactions are still on their way.          *)
(***************************************************************************)
EXTENDS ModuleFiles, SequenceTheorems, TLAPS

FilePhases == {"OPEN", "INFO", "READ", "CLOSE", "DRAIN"}

\* Only an ended transaction can have locked the service, and only a result can
\* be lent.
LockedIsOver == cleanup_failed => state \in {"ERROR", "ABORTED"}
LentIsReady == downloading => state = "READY"

\* A transaction goes on after an error only to finish a command or close a file.
GoesOnWithDoubt == state = "READING" => error \notin {"IDENTITY", "NO_SUFFIX"}

\* A file may be open only between OPEN and the answer to CLOSE.
OpenInFilePhases ==
  state = "READING" /\ may_be_open =>
    /\ phase \in FilePhases
    /\ phase = "OPEN" => pending

\* The command waiting for its answer is the one of the phase, and an OPEN not
\* yet issued has opened nothing.
PendingIsAsked ==
  pending => /\ state = "READING" /\ phase # "DRAIN"
             /\ command = Asks[phase]
             /\ phase = "OPEN" => may_be_open

\* An OPEN cut short is the end of the service.
CutOpenLocks ==
  /\ residue # "OPEN"
  /\ command = "OPEN" /\ tx = "some" => pending \/ cleanup_failed

CInv == /\ LockedIsOver /\ LentIsReady /\ GoesOnWithDoubt
        /\ OpenInFilePhases /\ PendingIsAsked /\ CutOpenLocks
        /\ LocalErrorsNeverLock

IInv == TypeOK /\ CInv

-----------------------------------------------------------------------------
\* The tables of phases and commands.
LEMMA Tables ==
  /\ Commands = {"PN", "SN", "FW", "OPEN", "INFO", "READ", "CLOSE",
                 "PARAMETERS", "GAIN", "VTEMP", "FFC", "SHUTTER"}
  /\ Phases = {"BEFORE_PN", "BEFORE_SN", "BEFORE_FW", "AFTER_PN", "AFTER_SN",
               "AFTER_FW", "OPEN", "INFO", "READ", "CLOSE", "PARAMETERS",
               "STATE_GAIN", "STATE_VTEMP", "STATE_FFC", "STATE_SHUTTER",
               "STATE_GAIN_AFTER", "DRAIN"}
  /\ \A p \in Phases \ {"DRAIN"} : Asks[p] \in Commands
  /\ \A p \in Phases \ {"DRAIN"} :
       /\ Asks[p] = "OPEN" <=> p = "OPEN"
       /\ Asks[p] = "CLOSE" <=> p = "CLOSE"
  /\ \A p \in {"BEFORE_PN", "BEFORE_SN", "BEFORE_FW", "AFTER_PN", "AFTER_SN", "AFTER_FW"} :
       Asks[p] \in {"PN", "SN", "FW"}
  /\ \A p \in DOMAIN Following : Following[p] \in Phases \ FilePhases
  /\ FirstRead \in Phases \ {"DRAIN", "INFO", "READ", "CLOSE"}
  <1>1. Commands = {"PN", "SN", "FW", "OPEN", "INFO", "READ", "CLOSE",
                    "PARAMETERS", "GAIN", "VTEMP", "FFC", "SHUTTER"}
    BY DEF Commands, DataBytes
  <1>2. Phases = {"BEFORE_PN", "BEFORE_SN", "BEFORE_FW", "AFTER_PN", "AFTER_SN",
                  "AFTER_FW", "OPEN", "INFO", "READ", "CLOSE", "PARAMETERS",
                  "STATE_GAIN", "STATE_VTEMP", "STATE_FFC", "STATE_SHUTTER",
                  "STATE_GAIN_AFTER", "DRAIN"}
    BY DEF Phases, Asks
  <1>3. \A p \in Phases \ {"DRAIN"} : Asks[p] \in Commands
    BY <1>1, <1>2 DEF Asks
  <1>4. \A p \in Phases \ {"DRAIN"} :
          /\ Asks[p] = "OPEN" <=> p = "OPEN"
          /\ Asks[p] = "CLOSE" <=> p = "CLOSE"
    BY <1>2 DEF Asks
  <1>5. \A p \in {"BEFORE_PN", "BEFORE_SN", "BEFORE_FW", "AFTER_PN", "AFTER_SN", "AFTER_FW"} :
          Asks[p] \in {"PN", "SN", "FW"}
    BY DEF Asks
  <1>6. \A p \in DOMAIN Following : Following[p] \in Phases \ FilePhases
    BY <1>2 DEF Following, FilePhases
  <1>7. FirstRead \in Phases \ {"DRAIN", "INFO", "READ", "CLOSE"}
    BY <1>2 DEF FirstRead
  <1> QED BY <1>1, <1>2, <1>3, <1>4, <1>5, <1>6, <1>7
-----------------------------------------------------------------------------
\* An end keeps the types of what it assigns.
LEMMA FinishType ==
  ASSUME TypeOK, NEW e \in Errors, NEW lock \in BOOLEAN, finish(e, lock)
  PROVE  /\ state' \in {"ERROR", "ABORTED"} /\ error' \in Errors
         /\ downloading' \in BOOLEAN /\ cleanup_failed' \in BOOLEAN /\ pending' \in BOOLEAN
  BY DEF TypeOK, finish

\* And so does a failure.
LEMMA FailType ==
  ASSUME TypeOK, NEW e \in Errors, NEW p \in Phases, NEW open \in BOOLEAN, NEW sent,
         fail(e, p, open, sent)
  PROVE  /\ state' \in {"IDLE", "READING", "READY", "DONE", "ERROR", "ABORTED"}
         /\ error' \in Errors \cup {"NONE"}
         /\ downloading' \in BOOLEAN /\ cleanup_failed' \in BOOLEAN
         /\ phase' \in Phases /\ pending' \in BOOLEAN /\ may_be_open' \in BOOLEAN
         /\ drained' \in BOOLEAN
  <1>1. First(e) \in Errors  BY DEF First, TypeOK
  <1>2. Locks(e, p, open, sent) \in BOOLEAN  BY DEF Locks
  <1>3. CASE /\ Locks(e, p, open, sent) \/ ~open
             /\ finish(First(e), Locks(e, p, open, sent))
             /\ phase' = p /\ UNCHANGED drained
    BY <1>1, <1>2, <1>3, FinishType DEF fail, TypeOK
  <1>4. CASE /\ error' = First(e)
             /\ phase' = "DRAIN" /\ pending' = FALSE /\ drained' = FALSE
             /\ UNCHANGED <<state, downloading, cleanup_failed>>
    BY <1>1, <1>4, Tables DEF fail, TypeOK
  <1> QED BY <1>3, <1>4 DEF fail

\* A failure while reading keeps the rest, when a local error comes with no file
\* open and outside the queries, and an OPEN cut short is seen to be one.
LEMMA FailSafe ==
  ASSUME TypeOK, CInv, state = "READING",
         NEW e \in Errors, NEW p \in Phases, NEW open \in BOOLEAN, NEW sent,
         fail(e, p, open, sent),
         e \in {"IDENTITY", "NO_SUFFIX"} =>
           ~open /\ p \notin QueryPhases /\ p # "CLOSE",
         open => p \in FilePhases,
         command' = "OPEN" /\ tx' = "some" => p = "OPEN" /\ open /\ sent = "some",
         UNCHANGED residue
  PROVE  CInv'
  <1>0. ~cleanup_failed  BY DEF CInv, LockedIsOver
  <1>1. Locks(e, p, open, sent) \in BOOLEAN  BY DEF Locks
  <1>2. e \in {"IDENTITY", "NO_SUFFIX"} => ~Locks(e, p, open, sent) /\ ~open
    BY DEF Locks
  <1>3. command' = "OPEN" /\ tx' = "some" => Locks(e, p, open, sent)
    BY DEF Locks
  <1>4. First(e) \in {"IDENTITY", "NO_SUFFIX"} => First(e) = e
    BY DEF First, CInv, GoesOnWithDoubt
  <1>5. residue' # "OPEN"  BY DEF CInv, CutOpenLocks
  <1>6. CASE /\ Locks(e, p, open, sent) \/ ~open
             /\ finish(First(e), Locks(e, p, open, sent))
             /\ phase' = p /\ UNCHANGED drained
    <2>1. /\ state' \in {"ERROR", "ABORTED"} /\ error' = First(e) /\ ~downloading' /\ ~pending'
          /\ cleanup_failed' = Locks(e, p, open, sent)
      BY <1>0, <1>1, <1>6 DEF finish
    <2>2. LocalErrorsNeverLock'
      BY <2>1, <1>2, <1>4 DEF LocalErrorsNeverLock
    <2>3. CutOpenLocks'  BY <2>1, <1>3, <1>5 DEF CutOpenLocks
    <2> QED BY <2>1, <2>2, <2>3
            DEF CInv, LockedIsOver, LentIsReady, GoesOnWithDoubt, OpenInFilePhases, PendingIsAsked
  <1>7. CASE /\ open /\ ~Locks(e, p, open, sent)
             /\ error' = First(e)
             /\ phase' = "DRAIN" /\ pending' = FALSE /\ drained' = FALSE
             /\ UNCHANGED <<state, downloading, cleanup_failed>>
    <2>1. First(e) \notin {"IDENTITY", "NO_SUFFIX"}  BY <1>7, <1>2, <1>4
    <2>2. CutOpenLocks'  BY <1>7, <1>3, <1>5 DEF CutOpenLocks
    <2>3. ~pending' /\ ~cleanup_failed' /\ ~downloading'
      BY <1>0, <1>7 DEF CInv, LentIsReady
    <2> QED BY <1>7, <2>1, <2>2, <2>3
            DEF CInv, LockedIsOver, LentIsReady, GoesOnWithDoubt, OpenInFilePhases,
                PendingIsAsked, LocalErrorsNeverLock, FilePhases
  <1> QED BY <1>6, <1>7 DEF fail

\* An end outside a failure: nothing local, nothing locked that was not over.
LEMMA FinishSafe ==
  ASSUME TypeOK, CInv, NEW e, NEW lock \in BOOLEAN, finish(e, lock),
         e \notin {"IDENTITY", "NO_SUFFIX"},
         command = "OPEN" /\ tx = "some" /\ pending => lock,
         UNCHANGED <<command, tx, residue>>
  PROVE  CInv'
  <1>1. /\ state' \in {"ERROR", "ABORTED"} /\ error' = e /\ ~downloading' /\ ~pending'
        /\ cleanup_failed' = (cleanup_failed \/ lock)
    BY DEF finish
  <1>2. CutOpenLocks'  BY <1>1 DEF CutOpenLocks, CInv
  <1> QED BY <1>1, <1>2 DEF CInv, LockedIsOver, LentIsReady, GoesOnWithDoubt,
          OpenInFilePhases, PendingIsAsked, LocalErrorsNeverLock
-----------------------------------------------------------------------------
\* What the module tells fits into a reply.
LEMMA ValuesNat ==
  ASSUME TypeOK, ModuleAssumption, NEW c \in Commands
  PROVE  Values(c) \subseteq Nat
  <1>1. Len(payload) + 1 \in Nat  BY DEF TypeOK
  <1>2. camera \in Nat /\ MaxBlocks \in Nat  BY DEF TypeOK, ModuleAssumption
  <1>3. 0 .. MaxBlocks \subseteq Nat /\ {Unknown} \subseteq Nat /\ {1, 2} \subseteq Nat
        /\ {1} \subseteq Nat /\ {Unknown, 1} \subseteq Nat /\ {Unknown, camera} \subseteq Nat
        /\ {Len(payload) + 1} \subseteq Nat
    BY <1>1, <1>2 DEF Unknown
  <1>4. (IF handle THEN 0 .. MaxBlocks ELSE {Unknown}) \subseteq Nat  BY <1>3
  <1> QED BY <1>3, <1>4, Zenon DEF Values

LEMMA AnswersType ==
  ASSUME TypeOK, ModuleAssumption, NEW c \in Commands
  PROVE  Answers(c) \subseteq Replies /\ Damaged \in Replies
  <1>1. camera \in 0 .. M /\ 0 \in 0 .. M  BY DEF TypeOK, ModuleAssumption
  <1>2. Damaged \in Replies  BY <1>1, Tables DEF Damaged, Replies, Unknown
  <1>3. \A v \in Nat : [command |-> c, outcome |-> "ok", value |-> v, from |-> camera] \in Replies
    BY <1>1 DEF Replies
  <1>4. [command |-> c, outcome |-> "refused", value |-> Unknown, from |-> camera] \in Replies
    BY <1>1 DEF Replies, Unknown
  <1>5. \A v \in Values(c) :
          [command |-> c, outcome |-> "ok", value |-> v, from |-> camera] \in Replies
    BY <1>3, ValuesNat
  <1> QED BY <1>2, <1>4, <1>5 DEF Answers

\* The module keeps its types when it hears a command.
LEMMA HearsType ==
  ASSUME TypeOK, ModuleAssumption, NEW c \in Commands, module_hears(c)
  PROVE  line' \in Seq(Replies) /\ handle' \in BOOLEAN
         /\ residue' = "NONE" /\ camera' = camera
  <1>1. residue' = "NONE" /\ camera' = camera  BY DEF module_hears
  <1>2. CASE answer(c)
    <2>1. PICK r \in Answers(c) :
            /\ handle' = IF r.outcome = "ok" /\ c \in {"OPEN", "CLOSE"}
                         THEN c = "OPEN" ELSE handle
            /\ \/ line' = line
               \/ /\ Len(line) < MaxLine
                  /\ line' \in {Append(line, r), Append(line, Damaged)}
      BY <1>2, Zenon DEF answer
    <2>2. handle \in BOOLEAN  BY DEF TypeOK
    <2>9. handle' = (c = "OPEN") \/ handle' = handle  BY <2>1
    <2>3. handle' \in BOOLEAN  BY <2>2, <2>9
    <2>4. r \in Replies /\ Damaged \in Replies  BY AnswersType
    <2>5. line' = line \/ line' = Append(line, r) \/ line' = Append(line, Damaged)
      BY <2>1, Zenon
    <2>6. line \in Seq(Replies)  BY DEF TypeOK
    <2>7. Append(line, r) \in Seq(Replies) /\ Append(line, Damaged) \in Seq(Replies)
      BY <2>4, <2>6
    <2>8. line' \in Seq(Replies)  BY <2>5, <2>6, <2>7
    <2> QED BY <1>1, <2>3, <2>8
  <1>3. CASE UNCHANGED <<handle, line>>  BY <1>1, <1>3 DEF TypeOK
  <1> QED BY <1>1, <1>2, <1>3 DEF module_hears
-----------------------------------------------------------------------------
\* TypeOK in the parts that the operations change or leave together.
StatusTyped ==
  /\ state \in {"IDLE", "READING", "READY", "DONE", "ERROR", "ABORTED"}
  /\ error \in Errors \cup {"NONE"}
  /\ downloading \in BOOLEAN /\ cleanup_failed \in BOOLEAN
PhaseTyped ==
  /\ phase \in Phases /\ pending \in BOOLEAN /\ may_be_open \in BOOLEAN
  /\ drained \in BOOLEAN
ResultTyped ==
  /\ transaction \in 0 .. T /\ length \in Nat /\ selected \in Kinds
  /\ identity \in [{"PN", "SN", "FW"} -> Commands \X Nat]
  /\ payload \in Seq(Replies)
TxTyped == tx \in {"none", "some", "all"} /\ command \in Commands
LineTyped == line \in Seq(Replies)
CameraTyped ==
  camera \in 1 .. M /\ handle \in BOOLEAN /\ residue \in Commands \cup {"NONE"}

LEMMA TypeParts ==
  /\ TypeOK <=> /\ StatusTyped /\ PhaseTyped /\ ResultTyped
                /\ TxTyped /\ LineTyped /\ CameraTyped
  /\ /\ StatusTyped' /\ PhaseTyped' /\ ResultTyped'
     /\ TxTyped' /\ LineTyped' /\ CameraTyped'
     => TypeOK'
  BY DEF TypeOK, StatusTyped, PhaseTyped, ResultTyped, TxTyped, LineTyped, CameraTyped

LEMMA TypeUnchanged ==
  ASSUME TypeOK
  PROVE  /\ UNCHANGED statusVars => StatusTyped'
         /\ UNCHANGED phaseVars => PhaseTyped'
         /\ UNCHANGED resultVars => ResultTyped'
         /\ UNCHANGED txVars => TxTyped'
         /\ UNCHANGED line => LineTyped'
         /\ UNCHANGED moduleVars => CameraTyped'
         /\ UNCHANGED wireVars => ResultTyped' /\ TxTyped' /\ LineTyped' /\ CameraTyped'
  <1>1. UNCHANGED statusVars => StatusTyped'
    BY TypeParts DEF statusVars, StatusTyped
  <1>2. UNCHANGED phaseVars => PhaseTyped'
    BY TypeParts DEF phaseVars, PhaseTyped
  <1>3. UNCHANGED resultVars => ResultTyped'
    BY TypeParts DEF resultVars, ResultTyped
  <1>4. UNCHANGED txVars => TxTyped'
    BY TypeParts DEF txVars, TxTyped
  <1>5. UNCHANGED line => LineTyped'
    BY TypeParts DEF LineTyped
  <1>6. UNCHANGED moduleVars => CameraTyped'
    BY TypeParts DEF moduleVars, CameraTyped
  <1> QED BY <1>1, <1>2, <1>3, <1>4, <1>5, <1>6 DEF wireVars

LEMMA FailTyped ==
  ASSUME TypeOK, NEW e \in Errors, NEW p \in Phases, NEW open \in BOOLEAN, NEW sent,
         fail(e, p, open, sent)
  PROVE  StatusTyped' /\ PhaseTyped'
  BY FailType DEF StatusTyped, PhaseTyped

LEMMA FailHere ==
  ASSUME TypeOK, NEW e \in Errors, Fail(e)
  PROVE  StatusTyped' /\ PhaseTyped'
  BY FailTyped DEF Fail, TypeOK

\* Taking a reply from the line leaves a line of replies, whatever of it stays.
LEMMA TailType ==
  ASSUME TypeOK, ModuleAssumption, line # <<>>
  PROVE  /\ Head(line) \in Replies
         /\ line' = Tail(line) => LineTyped'
         /\ Leave => LineTyped'
  <1>1. line \in Seq(Replies)  BY DEF TypeOK
  <1>2. Head(line) \in Replies /\ Tail(line) \in Seq(Replies)  BY <1>1
  <1>3. Damaged \in Replies  BY AnswersType, Tables
  <1>4. <<Damaged>> \o Tail(line) \in Seq(Replies)  BY <1>2, <1>3
  <1> QED BY <1>2, <1>4 DEF Leave, LineTyped

\* An answer that is kept makes a longer payload.
LEMMA KeepType ==
  ASSUME TypeOK, NEW r \in Replies, Keep(r)
  PROVE  payload' \in Seq(Replies)
  BY DEF TypeOK, Keep
-----------------------------------------------------------------------------
(* Every operation keeps the types.                                         *)

LEMMA StartType ==
  ASSUME TypeOK, ModuleAssumption, NEW k \in Kinds, start(k)
  PROVE  TypeOK'
  <1>1. StatusTyped'  BY DEF start, StatusTyped
  <1>2. PhaseTyped'
    BY Tables DEF start, PhaseTyped, TypeOK
  <1>3. NextTransaction \in 0 .. T  BY DEF NextTransaction, TypeOK, ModuleAssumption
  <1>4. ResultTyped'
    <2>1. payload' \in Seq(Replies)  BY DEF start
    <2> QED BY <1>3, <2>1 DEF start, ResultTyped, TypeOK
  <1>5. LineTyped'
    <2>1. PICK n \in 0 .. Len(line) : line' = SubSeq(line, n + 1, Len(line))
      BY DEF start
    <2>2. line \in Seq(Replies)  BY DEF TypeOK
    <2>3. SubSeq(line, n + 1, Len(line)) \in Seq(Replies)  BY <2>2
    <2> QED BY <2>1, <2>3 DEF LineTyped
  <1>6. TxTyped' /\ CameraTyped'  BY TypeUnchanged DEF start
  <1> QED BY <1>1, <1>2, <1>4, <1>5, <1>6, TypeParts

LEMMA RequestType ==
  ASSUME TypeOK, ModuleAssumption, Requests
  PROVE  TypeOK'
  <1>1. ASSUME NEW k \in Kinds, start(k)  PROVE TypeOK'  BY <1>1, StartType
  <1>2. CASE start_refused
    <2>1. UNCHANGED <<statusVars, phaseVars, wireVars>>  BY <1>2 DEF start_refused, vars
    <2> QED BY <2>1, TypeUnchanged, TypeParts
  <1>3. CASE abort
    <2>1. UNCHANGED wireVars  BY <1>3 DEF abort
    <2>2. CASE finish("CANCELLED", FALSE) /\ UNCHANGED <<phase, may_be_open, drained>>
      <3>1. "CANCELLED" \in Errors /\ FALSE \in BOOLEAN  BY DEF Errors
      <3>2. StatusTyped' /\ PhaseTyped'
        BY <2>2, <3>1, FinishType DEF StatusTyped, PhaseTyped, TypeOK
      <3> QED BY <2>1, <3>2, TypeUnchanged, TypeParts
    <2>3. CASE error' = "CANCELLED" /\ UNCHANGED <<state, downloading, cleanup_failed, phaseVars>>
      BY <2>1, <2>3, TypeUnchanged, TypeParts DEF StatusTyped, Errors
    <2>4. CASE Fail("CANCELLED")
      <3>1. "CANCELLED" \in Errors  BY DEF Errors
      <3> QED BY <2>1, <2>4, <3>1, FailHere, TypeUnchanged, TypeParts
    <2> QED BY <1>3, <2>2, <2>3, <2>4 DEF abort
  <1>4. ASSUME NEW t \in 1 .. T, download(t)  PROVE TypeOK'
    <2>1. UNCHANGED <<state, error, cleanup_failed, phaseVars, wireVars>> /\ downloading' = TRUE
      BY <1>4 DEF download
    <2>2. StatusTyped'  BY <2>1, TypeParts DEF StatusTyped
    <2> QED BY <2>1, <2>2, TypeUnchanged, TypeParts
  <1>5. ASSUME NEW complete \in BOOLEAN, download_release(complete)  PROVE TypeOK'
    <2>1. StatusTyped'  BY <1>5, TypeParts DEF download_release, StatusTyped, Errors
    <2>2. PhaseTyped'  BY <1>5, TypeParts DEF download_release, PhaseTyped
    <2>3. UNCHANGED wireVars  BY <1>5 DEF download_release
    <2> QED BY <2>1, <2>2, <2>3, TypeUnchanged, TypeParts
  <1> QED BY <1>1, <1>2, <1>3, <1>4, <1>5 DEF Requests

LEMMA ClockType ==
  ASSUME TypeOK, ModuleAssumption,
         expire \/ drain_discard \/ drain_limit \/ drain_quiet \/ deadline \/ no_suffix
  PROVE  TypeOK'
  <1>0. {"TIMEOUT", "NO_SUFFIX"} \subseteq Errors  BY DEF Errors
  <1>1. CASE expire
    <2>1. StatusTyped' /\ PhaseTyped'
      BY <1>0, <1>1, FinishType DEF expire, StatusTyped, PhaseTyped, TypeOK
    <2> QED BY <1>1, <2>1, TypeUnchanged, TypeParts DEF expire
  <1>2. CASE drain_discard
    <2>1. line' = line \/ (line # <<>> /\ line' = Tail(line))  BY <1>2 DEF drain_discard
    <2>2. LineTyped'  BY <2>1, TailType, TypeUnchanged
    <2>3. PhaseTyped'  BY <1>2, TypeParts DEF drain_discard, PhaseTyped
    <2> QED BY <1>2, <2>2, <2>3, TypeUnchanged, TypeParts DEF drain_discard
  <1>3. CASE drain_limit
    <2>1. finish(error, TRUE) /\ UNCHANGED <<phase, may_be_open, drained>>
      BY <1>3 DEF drain_limit
    <2>2. StatusTyped' /\ PhaseTyped'
      BY <2>1 DEF finish, StatusTyped, PhaseTyped, TypeOK
    <2> QED BY <1>3, <2>2, TypeUnchanged, TypeParts DEF drain_limit
  <1>4. CASE drain_quiet
    <2>1. PhaseTyped'  BY <1>4, TypeParts, Tables DEF drain_quiet, PhaseTyped
    <2> QED BY <1>4, <2>1, TypeUnchanged, TypeParts DEF drain_quiet
  <1>5. CASE deadline
    BY <1>0, <1>5, FailHere, TypeUnchanged, TypeParts DEF deadline
  <1>6. CASE no_suffix
    <2>1. StatusTyped' /\ PhaseTyped'
      <3>1. phase \in Phases /\ may_be_open \in BOOLEAN  BY DEF TypeOK
      <3> QED BY <1>0, <1>6, <3>1, FailTyped DEF no_suffix
    <2>2. TxTyped'  BY <1>6, TypeParts DEF no_suffix, TxTyped
    <2> QED BY <1>6, <2>1, <2>2, TypeUnchanged, TypeParts DEF no_suffix
  <1> QED BY <1>1, <1>2, <1>3, <1>4, <1>5, <1>6

LEMMA CommandType ==
  ASSUME TypeOK, ModuleAssumption,
         issue \/ command_timeout \/ uart_error \/ transmit
  PROVE  TypeOK'
  <1>0. {"TIMEOUT", "UART_ERROR"} \subseteq Errors  BY DEF Errors
  <1>1. CASE issue
    <2>1. Asks[phase] \in Commands  BY <1>1, Tables DEF issue, Running, TypeOK
    <2>2. TxTyped'  BY <1>1, <2>1 DEF issue, TxTyped
    <2>3. PhaseTyped'  BY <1>1, TypeParts DEF issue, PhaseTyped
    <2>4. CameraTyped'  BY <1>1, TypeParts DEF issue, CameraTyped, TxTyped
    <2>5. UNCHANGED <<statusVars, resultVars, line>>  BY <1>1 DEF issue
    <2> QED BY <2>2, <2>3, <2>4, <2>5, TypeUnchanged, TypeParts
  <1>2. CASE command_timeout
    BY <1>0, <1>2, FailHere, TypeUnchanged, TypeParts DEF command_timeout
  <1>3. CASE uart_error
    BY <1>0, <1>3, FailHere, TypeUnchanged, TypeParts DEF uart_error
  <1>4. CASE transmit
    <2>1. UNCHANGED <<statusVars, phaseVars, resultVars, command>>  BY <1>4 DEF transmit
    <2>2. TxTyped'  BY <1>4, TypeParts DEF transmit, TxTyped
    <2>3. LineTyped' /\ CameraTyped'
      <3>1. CASE UNCHANGED <<line, moduleVars>>  BY <3>1, TypeUnchanged
      <3>2. CASE module_hears(command)
        <4>1. command \in Commands  BY DEF TypeOK
        <4>2. /\ line' \in Seq(Replies) /\ handle' \in BOOLEAN
              /\ residue' = "NONE" /\ camera' = camera
          BY <3>2, <4>1, HearsType
        <4> QED BY <4>2 DEF LineTyped, CameraTyped, TypeOK
      <3> QED BY <1>4, <3>1, <3>2 DEF transmit
    <2> QED BY <2>1, <2>2, <2>3, TypeUnchanged, TypeParts
  <1> QED BY <1>1, <1>2, <1>3, <1>4

LEMMA ProceedType ==
  ASSUME TypeOK, NEW p \in Phases, Proceed(p)
  PROVE  StatusTyped' /\ PhaseTyped'
  <1>1. UNCHANGED statusVars  BY DEF Proceed
  <1>2. PhaseTyped'  BY TypeParts DEF Proceed, PhaseTyped
  <1> QED BY <1>1, <1>2, TypeUnchanged

\* An answer that is accepted leaves the wire as it should.
LEMMA AcceptsType ==
  ASSUME TypeOK, ModuleAssumption, NEW p, Accepts(p)
  PROVE  /\ TxTyped' /\ LineTyped' /\ CameraTyped'
         /\ Head(line) \in Replies /\ phase = p /\ p \in Phases \ {"DRAIN"}
         /\ UNCHANGED residue
  <1>1. line # <<>>  BY DEF Accepts, Arrived
  <1>2. UNCHANGED <<txVars, moduleVars>> /\ line' = Tail(line) /\ phase = p
    BY DEF Accepts
  <1>3. p \in Phases \ {"DRAIN"}  BY <1>2 DEF Accepts, Arrived, Running, TypeOK
  <1> QED BY <1>1, <1>2, <1>3, TailType, TypeUnchanged DEF moduleVars

LEMMA RefusalType ==
  ASSUME TypeOK, ModuleAssumption, bad_frame \/ refused \/ unwanted
  PROVE  TypeOK'
  <1>0. {"BAD_FRAME", "BAD_LENGTH", "MODULE_ERROR", "IDENTITY"} \subseteq Errors
    BY DEF Errors
  <1>1. line # <<>>  BY DEF bad_frame, refused, unwanted, Arrived
  <1>2. CASE bad_frame
    <2>1. Fail("BAD_FRAME") \/ Fail("BAD_LENGTH")  BY <1>2 DEF bad_frame
    <2>2. StatusTyped' /\ PhaseTyped'  BY <1>0, <2>1, FailHere
    <2>3. Leave /\ UNCHANGED <<resultVars, txVars, moduleVars>>  BY <1>2 DEF bad_frame
    <2> QED BY <1>1, <2>2, <2>3, TailType, TypeUnchanged, TypeParts
  <1>3. CASE refused
    <2>1. /\ line' = Tail(line)
          /\ UNCHANGED <<transaction, selected, length, identity, txVars, moduleVars>>
      BY <1>3 DEF refused
    <2>2. Head(line) \in Replies  BY <1>1, TailType
    <2>3. payload' \in Seq(Replies)
      <3>1. UNCHANGED payload \/ Keep(Head(line))  BY <1>3 DEF refused
      <3> QED BY <2>2, <3>1, KeepType DEF TypeOK
    <2>4. ResultTyped'  BY <2>1, <2>3, TypeParts DEF ResultTyped
    <2>5. StatusTyped' /\ PhaseTyped'
      <3>1. CASE fail("MODULE_ERROR", phase, may_be_open /\ phase # "OPEN", tx)
        <4>1. phase \in Phases /\ (may_be_open /\ phase # "OPEN") \in BOOLEAN
          BY DEF TypeOK
        <4> QED BY <1>0, <3>1, <4>1, FailTyped
      <3>2. CASE fail("IDENTITY", "AFTER_PN", may_be_open, tx)
        <4>1. "AFTER_PN" \in Phases /\ may_be_open \in BOOLEAN  BY Tables DEF TypeOK
        <4> QED BY <1>0, <3>2, <4>1, FailTyped
      <3>3. CASE /\ phase' \in Phases /\ pending' = FALSE
                 /\ UNCHANGED <<statusVars, may_be_open, drained>>
        BY <3>3, TypeUnchanged, TypeParts DEF PhaseTyped
      <3>4. "AFTER_PN" \in Phases /\ (phase \in StatePhases \ {"STATE_GAIN_AFTER"} =>
              Following[phase] \in Phases)
        BY Tables DEF StatePhases, Following
      <3> QED BY <1>3, <3>1, <3>2, <3>3, <3>4 DEF refused
    <2> QED BY <1>1, <2>1, <2>4, <2>5, TailType, TypeUnchanged, TypeParts
  <1>4. CASE unwanted
    <2>1. /\ line' = Tail(line) /\ UNCHANGED <<resultVars, txVars, moduleVars>>
          /\ Fail("BAD_LENGTH") \/ (error # "NONE" /\ Fail(error))
      BY <1>4 DEF unwanted
    <2>2. error # "NONE" => error \in Errors  BY DEF TypeOK
    <2>3. StatusTyped' /\ PhaseTyped'  BY <1>0, <2>1, <2>2, FailHere
    <2> QED BY <1>1, <2>1, <2>3, TailType, TypeUnchanged, TypeParts
  <1> QED BY <1>2, <1>3, <1>4

LEMMA AnswerType ==
  ASSUME TypeOK, ModuleAssumption,
         \/ identity_before \/ query \/ gain_after \/ opened \/ info
         \/ read_block \/ closed \/ identity_after
  PROVE  TypeOK'
  <1>0. {"IDENTITY", "MODULE_ERROR", "BAD_LENGTH"} \subseteq Errors  BY DEF Errors
  <1>1. \A p \in DOMAIN Following : Following[p] \in Phases  BY Tables
  <1>2. CASE identity_before
    <2>1. PICK p \in {"BEFORE_PN", "BEFORE_SN", "BEFORE_FW"} :
            /\ Accepts(p)
            /\ identity' = [identity EXCEPT ![Asks[p]] = Raw(Head(line))]
            /\ \/ Fail("IDENTITY")
               \/ p # "BEFORE_FW" /\ Proceed(Following[p])
               \/ Proceed(FirstRead)
            /\ UNCHANGED <<transaction, selected, length, payload>>
      BY <1>2 DEF identity_before
    <2>2. /\ TxTyped' /\ LineTyped' /\ CameraTyped'
          /\ Head(line) \in Replies
      BY <2>1, AcceptsType
    <2>3. Raw(Head(line)) \in Commands \X Nat  BY <2>2 DEF Raw, Replies
    <2>4. ResultTyped'
      <3>1. identity' \in [{"PN", "SN", "FW"} -> Commands \X Nat]
        BY <2>1, <2>3 DEF TypeOK
      <3> QED BY <2>1, <3>1, TypeParts DEF ResultTyped
    <2>5. p # "BEFORE_FW" => Following[p] \in Phases
      BY <1>1 DEF Following
    <2>6. StatusTyped' /\ PhaseTyped'
      BY <1>0, <2>1, <2>5, Tables, FailHere, ProceedType
    <2> QED BY <2>2, <2>4, <2>6, TypeParts
  <1>3. CASE query
    <2>1. PICK p \in QueryPhases \ {"STATE_GAIN_AFTER"} :
            /\ Accepts(p) /\ Keep(Head(line)) /\ Proceed(Following[p])
            /\ UNCHANGED <<transaction, selected, length, identity>>
      BY <1>3 DEF query
    <2>2. /\ TxTyped' /\ LineTyped' /\ CameraTyped'
          /\ Head(line) \in Replies
      BY <2>1, AcceptsType
    <2>3. ResultTyped'
      <3>1. payload' \in Seq(Replies)  BY <2>1, <2>2, KeepType
      <3> QED BY <2>1, <3>1, TypeParts DEF ResultTyped
    <2>4. Following[p] \in Phases  BY <1>1 DEF Following, QueryPhases, StatePhases
    <2> QED BY <2>1, <2>2, <2>3, <2>4, ProceedType, TypeParts
  <1>4. CASE gain_after
    <2>1. /\ TxTyped' /\ LineTyped' /\ CameraTyped'
      BY <1>4, AcceptsType DEF gain_after
    <2>2. CASE Proceed("AFTER_PN")
      BY <1>4, <2>1, <2>2, Tables, ProceedType, TypeUnchanged, TypeParts DEF gain_after
    <2>3. CASE fail("IDENTITY", "AFTER_PN", may_be_open, tx)
      <3>1. "AFTER_PN" \in Phases /\ may_be_open \in BOOLEAN  BY Tables DEF TypeOK
      <3>2. StatusTyped' /\ PhaseTyped'  BY <1>0, <2>3, <3>1, FailTyped
      <3> QED BY <1>4, <2>1, <3>2, TypeUnchanged, TypeParts DEF gain_after
    <2> QED BY <1>4, <2>2, <2>3 DEF gain_after
  <1>5. CASE opened
    <2>1. /\ Accepts("OPEN") /\ Proceed("INFO") /\ UNCHANGED resultVars
      BY <1>5 DEF opened
    <2> QED BY <2>1, AcceptsType, ProceedType, Tables, TypeUnchanged, TypeParts
  <1>6. CASE info
    <2>1. /\ Accepts("INFO")
          /\ Fail("MODULE_ERROR") \/ Fail("BAD_LENGTH") \/ Proceed("READ")
          /\ length' = Head(line).value
          /\ UNCHANGED <<transaction, selected, identity, payload>>
      BY <1>6 DEF info
    <2>2. /\ TxTyped' /\ LineTyped' /\ CameraTyped'
          /\ Head(line) \in Replies
      BY <2>1, AcceptsType
    <2>3. Head(line).value \in Nat  BY <2>2 DEF Replies
    <2>4. ResultTyped'  BY <2>1, <2>3, TypeParts DEF ResultTyped
    <2>5. StatusTyped' /\ PhaseTyped'  BY <1>0, <2>1, FailHere, ProceedType, Tables
    <2> QED BY <2>2, <2>4, <2>5, TypeParts
  <1>7. CASE read_block
    <2>1. /\ Accepts("READ") /\ Keep(Head(line))
          /\ Proceed("CLOSE") \/ Proceed("READ")
          /\ UNCHANGED <<transaction, selected, length, identity>>
      BY <1>7 DEF read_block
    <2>2. /\ TxTyped' /\ LineTyped' /\ CameraTyped'
          /\ Head(line) \in Replies
      BY <2>1, AcceptsType
    <2>3. ResultTyped'
      <3>1. payload' \in Seq(Replies)  BY <2>1, <2>2, KeepType
      <3> QED BY <2>1, <3>1, TypeParts DEF ResultTyped
    <2> QED BY <2>1, <2>2, <2>3, ProceedType, Tables, TypeParts
  <1>8. CASE closed
    <2>1. /\ TxTyped' /\ LineTyped' /\ CameraTyped'
      BY <1>8, AcceptsType DEF closed
    <2>2. ResultTyped'  BY <1>8, TypeUnchanged DEF closed
    <2>3. CASE error = "NONE"
      <3>1. /\ phase' = "AFTER_PN" /\ ~pending' /\ pending' \in BOOLEAN /\ ~may_be_open'
            /\ may_be_open' \in BOOLEAN /\ UNCHANGED <<statusVars, drained>>
        BY <1>8, <2>3 DEF closed
      <3>2. PhaseTyped'  BY <3>1, TypeParts, Tables DEF PhaseTyped
      <3> QED BY <2>1, <2>2, <3>1, <3>2, TypeUnchanged, TypeParts
    <2>4. CASE error # "NONE"
      <3>1. /\ finish(error, FALSE) /\ may_be_open' = FALSE
            /\ UNCHANGED <<phase, drained>>
        BY <1>8, <2>4 DEF closed
      <3>2. error \in Errors  BY <2>4 DEF TypeOK
      <3>3. StatusTyped' /\ PhaseTyped'
        BY <3>1, <3>2, FinishType DEF StatusTyped, PhaseTyped, TypeOK
      <3> QED BY <2>1, <2>2, <3>3, TypeParts
    <2> QED BY <2>3, <2>4
  <1>9. CASE identity_after
    <2>1. PICK p \in {"AFTER_PN", "AFTER_SN", "AFTER_FW"} :
            /\ Accepts(p) /\ UNCHANGED resultVars
            /\ \/ Fail("IDENTITY")
               \/ p # "AFTER_FW" /\ Proceed(Following[p])
               \/ /\ state' = "READY" /\ pending' = FALSE
                  /\ UNCHANGED <<error, downloading, cleanup_failed, phase, may_be_open,
                                 drained>>
      BY <1>9 DEF identity_after
    <2>2. p # "AFTER_FW" => Following[p] \in Phases  BY <1>1 DEF Following
    <2>3. CASE /\ state' = "READY" /\ pending' = FALSE
               /\ UNCHANGED <<error, downloading, cleanup_failed, phase, may_be_open, drained>>
      <3>1. StatusTyped' /\ PhaseTyped'
        BY <2>3, TypeParts DEF StatusTyped, PhaseTyped
      <3> QED BY <2>1, <3>1, AcceptsType, TypeUnchanged, TypeParts
    <2>4. CASE Fail("IDENTITY") \/ (p # "AFTER_FW" /\ Proceed(Following[p]))
      <3>1. StatusTyped' /\ PhaseTyped'
        BY <1>0, <2>2, <2>4, FailHere, ProceedType
      <3> QED BY <2>1, <3>1, AcceptsType, TypeUnchanged, TypeParts
    <2> QED BY <2>1, <2>3, <2>4
  <1> QED BY <1>2, <1>3, <1>4, <1>5, <1>6, <1>7, <1>8, <1>9

\* Every step keeps the types.
LEMMA TypeStep ==
  ASSUME TypeOK, ModuleAssumption, [Next]_vars
  PROVE  TypeOK'
  <1>1. CASE Requests  BY <1>1, RequestType
  <1>2. CASE Task  BY <1>2, ClockType, CommandType, RefusalType, AnswerType DEF Task, Response
  <1>3. CASE exchange
    <2>1. /\ camera < M /\ camera' = camera + 1
          /\ handle' = FALSE /\ residue' = "NONE"
          /\ UNCHANGED <<statusVars, phaseVars, resultVars, txVars, line>>
      BY <1>3 DEF exchange
    <2>2. camera \in 1 .. M /\ M \in Nat  BY DEF TypeOK, ModuleAssumption
    <2>3. camera' \in 1 .. M  BY <2>1, <2>2
    <2>4. CameraTyped'  BY <2>1, <2>3 DEF CameraTyped
    <2> QED BY <2>1, <2>4, TypeUnchanged, TypeParts
  <1>4. CASE UNCHANGED vars
    <2>1. UNCHANGED <<statusVars, phaseVars, wireVars>>  BY <1>4 DEF vars
    <2> QED BY <2>1, TypeUnchanged, TypeParts
  <1> QED BY <1>1, <1>2, <1>3, <1>4 DEF Next
-----------------------------------------------------------------------------
(* Every operation keeps the control invariant.                             *)

\* A failure of the phase the transaction is in.
LEMMA FailHereSafe ==
  ASSUME TypeOK, CInv, state = "READING", NEW e \in Errors, Fail(e),
         e \in {"IDENTITY", "NO_SUFFIX"} => phase \notin QueryPhases \cup FilePhases,
         UNCHANGED <<command, tx, residue>>
  PROVE  CInv'
  <1>1. may_be_open => phase \in FilePhases  BY DEF CInv, OpenInFilePhases
  <1>2. command = "OPEN" /\ tx = "some" => phase = "OPEN" /\ may_be_open
    <2>1. command = "OPEN" /\ tx = "some" => pending
      BY DEF CInv, CutOpenLocks, LockedIsOver
    <2>2. phase \in Phases  BY DEF TypeOK
    <2> QED BY <2>1, <2>2, Tables DEF CInv, PendingIsAsked
  <1>3. phase \in Phases /\ may_be_open \in BOOLEAN  BY DEF TypeOK
  <1>4. fail(e, phase, may_be_open, tx)  BY DEF Fail
  <1>5. e \in {"IDENTITY", "NO_SUFFIX"} =>
          ~may_be_open /\ phase \notin QueryPhases /\ phase # "CLOSE"
    BY <1>1 DEF FilePhases
  <1>6. command' = "OPEN" /\ tx' = "some" => phase = "OPEN" /\ may_be_open /\ tx = "some"
    BY <1>2
  <1> QED BY <1>1, <1>3, <1>4, <1>5, <1>6, FailSafe

\* Going on to another phase after an answer.
LEMMA ProceedSafe ==
  ASSUME TypeOK, CInv, state = "READING", tx = "all", NEW p, Proceed(p),
         may_be_open => p \in FilePhases \ {"OPEN"},
         UNCHANGED <<txVars, residue>>
  PROVE  CInv'
  <1>1. /\ UNCHANGED <<state, error, downloading, cleanup_failed, may_be_open>>
        /\ phase' = p /\ ~pending' /\ tx' = "all" /\ residue' = residue
    BY DEF Proceed, statusVars, txVars
  <1> QED BY <1>1 DEF CInv, LockedIsOver, LentIsReady, GoesOnWithDoubt, OpenInFilePhases,
          PendingIsAsked, CutOpenLocks, LocalErrorsNeverLock

\* What leaves the status, the phase and the transmit buffer alone.
LEMMA FrameSafe ==
  ASSUME CInv, UNCHANGED <<state, error, downloading, cleanup_failed, phase, pending,
                           may_be_open, tx, command>>,
         residue' \in {residue, "NONE"}
  PROVE  CInv'
  BY DEF CInv, LockedIsOver, LentIsReady, GoesOnWithDoubt, OpenInFilePhases,
         PendingIsAsked, CutOpenLocks, LocalErrorsNeverLock

LEMMA RequestSafe ==
  ASSUME TypeOK, CInv, Requests
  PROVE  CInv'
  <1>1. ASSUME NEW k \in Kinds, start(k)  PROVE CInv'
    <2>1. state # "READING" /\ ~cleanup_failed  BY <1>1 DEF start
    <2>2. ~pending  BY <2>1 DEF CInv, PendingIsAsked
    <2>3. ~(command = "OPEN" /\ tx = "some") /\ residue # "OPEN"
      BY <2>1, <2>2 DEF CInv, CutOpenLocks
    <2>4. /\ state' = "READING" /\ error' = "NONE" /\ ~downloading' /\ ~cleanup_failed'
          /\ ~pending' /\ ~may_be_open'
          /\ command' = command /\ tx' = tx /\ residue' = residue
      BY <1>1 DEF start, txVars, moduleVars
    <2> QED BY <2>3, <2>4 DEF CInv, LockedIsOver, LentIsReady, GoesOnWithDoubt,
            OpenInFilePhases, PendingIsAsked, CutOpenLocks, LocalErrorsNeverLock
  <1>2. CASE start_refused
    BY <1>2, FrameSafe DEF start_refused, vars, statusVars, phaseVars, wireVars, txVars,
                           moduleVars
  <1>3. CASE abort
    <2>0. UNCHANGED <<command, tx, residue>>  BY <1>3 DEF abort, wireVars, txVars, moduleVars
    <2>1. CASE state = "READY" /\ finish("CANCELLED", FALSE)
      <3>1. ~pending  BY <2>1 DEF CInv, PendingIsAsked
      <3> QED BY <2>0, <2>1, <3>1, FinishSafe
    <2>2. CASE /\ state = "READING" /\ error' = "CANCELLED"
               /\ UNCHANGED <<state, downloading, cleanup_failed, phaseVars>>
      BY <2>0, <2>2 DEF phaseVars, CInv, LockedIsOver, LentIsReady, GoesOnWithDoubt,
         OpenInFilePhases, PendingIsAsked, CutOpenLocks, LocalErrorsNeverLock
    <2>3. CASE state = "READING" /\ Fail("CANCELLED")
      <3>1. "CANCELLED" \in Errors  BY DEF Errors
      <3> QED BY <2>0, <2>3, <3>1, FailHereSafe
    <2> QED BY <1>3, <2>1, <2>2, <2>3 DEF abort
  <1>4. ASSUME NEW t \in 1 .. T, download(t)  PROVE CInv'
    <2>1. /\ state = "READY" /\ downloading'
          /\ UNCHANGED <<state, error, cleanup_failed, phase, pending, may_be_open,
                         tx, command, residue>>
      BY <1>4 DEF download, phaseVars, wireVars, txVars, moduleVars
    <2> QED BY <2>1 DEF CInv, LockedIsOver, LentIsReady, GoesOnWithDoubt,
            OpenInFilePhases, PendingIsAsked, CutOpenLocks, LocalErrorsNeverLock
  <1>5. ASSUME NEW complete \in BOOLEAN, download_release(complete)  PROVE CInv'
    <2>1. state = "READY" /\ ~cleanup_failed /\ ~pending
      BY <1>5 DEF download_release, CInv, LentIsReady, LockedIsOver, PendingIsAsked
    <2>2. ~(command = "OPEN" /\ tx = "some") /\ residue # "OPEN"
      BY <2>1 DEF CInv, CutOpenLocks
    <2>3. /\ state' \in {"DONE", "ABORTED"} /\ ~downloading' /\ ~pending'
          /\ UNCHANGED <<cleanup_failed, command, tx, residue>>
      BY <1>5 DEF download_release, wireVars, txVars, moduleVars
    <2> QED BY <2>1, <2>2, <2>3 DEF CInv, LockedIsOver, LentIsReady, GoesOnWithDoubt,
            OpenInFilePhases, PendingIsAsked, CutOpenLocks, LocalErrorsNeverLock
  <1> QED BY <1>1, <1>2, <1>3, <1>4, <1>5 DEF Requests

LEMMA ClockSafe ==
  ASSUME TypeOK, CInv,
         expire \/ drain_discard \/ drain_limit \/ drain_quiet \/ deadline \/ no_suffix
  PROVE  CInv'
  <1>0. {"TIMEOUT", "NO_SUFFIX"} \subseteq Errors  BY DEF Errors
  <1>1. CASE expire
    <2>1. UNCHANGED <<command, tx, residue>>  BY <1>1 DEF expire, wireVars, txVars, moduleVars
    <2>2. ~pending  BY <1>1 DEF expire, CInv, PendingIsAsked
    <2> QED BY <1>1, <2>1, <2>2, FinishSafe DEF expire
  <1>2. CASE drain_discard
    BY <1>2, FrameSafe DEF drain_discard, statusVars, txVars, moduleVars
  <1>3. CASE drain_limit
    <2>1. UNCHANGED <<command, tx, residue>>
      BY <1>3 DEF drain_limit, wireVars, txVars, moduleVars
    <2>2. finish(error, TRUE) /\ error \notin {"IDENTITY", "NO_SUFFIX"}
      BY <1>3 DEF drain_limit, Draining, CInv, GoesOnWithDoubt
    <2> QED BY <2>1, <2>2, FinishSafe
  <1>4. CASE drain_quiet
    <2>1. state = "READING" /\ ~pending
      BY <1>4 DEF drain_quiet, Draining, CInv, PendingIsAsked
    <2>2. /\ phase' = "CLOSE"
          /\ UNCHANGED <<state, error, downloading, cleanup_failed, pending, may_be_open,
                         tx, command, residue>>
      BY <1>4 DEF drain_quiet, statusVars, wireVars, txVars, moduleVars
    <2> QED BY <2>1, <2>2 DEF CInv, LockedIsOver, LentIsReady, GoesOnWithDoubt, FilePhases,
            OpenInFilePhases, PendingIsAsked, CutOpenLocks, LocalErrorsNeverLock
  <1>5. CASE deadline
    <2>1. UNCHANGED <<command, tx, residue>>
      BY <1>5 DEF deadline, wireVars, txVars, moduleVars
    <2> QED BY <1>0, <1>5, <2>1, FailHereSafe DEF deadline, Running
  <1>6. CASE no_suffix
    <2>1. state = "READING" /\ phase = "OPEN" /\ ~may_be_open /\ tx' = "none"
          /\ residue' = residue /\ fail("NO_SUFFIX", phase, may_be_open, "none")
      BY <1>6 DEF no_suffix, Running, moduleVars, CInv, OpenInFilePhases
    <2>2. phase \in Phases /\ may_be_open \in BOOLEAN /\ phase \notin QueryPhases
      BY <2>1 DEF TypeOK, QueryPhases, StatePhases
    <2>3. "NO_SUFFIX" \in Errors  BY DEF Errors
    <2>4. phase # "CLOSE" /\ ~(command' = "OPEN" /\ tx' = "some")  BY <2>1
    <2> QED BY <2>1, <2>2, <2>3, <2>4, FailSafe
  <1> QED BY <1>1, <1>2, <1>3, <1>4, <1>5, <1>6

LEMMA CommandSafe ==
  ASSUME TypeOK, CInv,
         issue \/ command_timeout \/ uart_error \/ transmit
  PROVE  CInv'
  <1>0. {"TIMEOUT", "UART_ERROR"} \subseteq Errors  BY DEF Errors
  <1>1. CASE issue
    <2>1. /\ state = "READING" /\ phase # "DRAIN" /\ ~pending /\ ~cleanup_failed
          /\ ~downloading
      BY <1>1 DEF issue, Running, CInv, LockedIsOver, LentIsReady
    <2>2. residue' # "OPEN"
      BY <1>1, <2>1 DEF issue, CInv, CutOpenLocks
    <2>3. /\ command' = Asks[phase] /\ tx' = "none" /\ pending'
          /\ may_be_open' = (may_be_open \/ phase = "OPEN")
          /\ UNCHANGED <<state, error, downloading, cleanup_failed, phase>>
      BY <1>1 DEF issue, statusVars
    <2>4. may_be_open' => phase \in FilePhases
      BY <2>1, <2>3 DEF CInv, OpenInFilePhases, FilePhases
    <2> QED BY <2>1, <2>2, <2>3, <2>4 DEF CInv, LockedIsOver, LentIsReady, GoesOnWithDoubt,
            OpenInFilePhases, PendingIsAsked, CutOpenLocks, LocalErrorsNeverLock
  <1>2. CASE command_timeout
    <2>1. UNCHANGED <<command, tx, residue>>
      BY <1>2 DEF command_timeout, wireVars, txVars, moduleVars
    <2> QED BY <1>0, <1>2, <2>1, FailHereSafe DEF command_timeout, Running
  <1>3. CASE uart_error
    <2>1. UNCHANGED <<command, tx, residue>>
      BY <1>3 DEF uart_error, wireVars, txVars, moduleVars
    <2> QED BY <1>0, <1>3, <2>1, FailHereSafe DEF uart_error, Running
  <1>4. CASE transmit
    <2>1. residue' \in {residue, "NONE"}
      BY <1>4 DEF transmit, moduleVars, module_hears
    <2>2. /\ pending
          /\ UNCHANGED <<state, error, downloading, cleanup_failed, phase, pending,
                         may_be_open, command>>
      BY <1>4 DEF transmit, statusVars, phaseVars
    <2> QED BY <2>1, <2>2 DEF CInv, LockedIsOver, LentIsReady, GoesOnWithDoubt,
            OpenInFilePhases, PendingIsAsked, CutOpenLocks, LocalErrorsNeverLock
  <1> QED BY <1>1, <1>2, <1>3, <1>4

LEMMA RefusalSafe ==
  ASSUME TypeOK, CInv, bad_frame \/ refused \/ unwanted
  PROVE  CInv'
  <1>0. {"BAD_FRAME", "BAD_LENGTH", "MODULE_ERROR", "IDENTITY"} \subseteq Errors
    BY DEF Errors
  <1>1. state = "READING" /\ UNCHANGED <<txVars, moduleVars>>
    BY DEF bad_frame, refused, unwanted, Arrived, Running
  <1>2. UNCHANGED <<command, tx, residue>>  BY <1>1 DEF txVars, moduleVars
  <1>3. CASE bad_frame
    <2>1. Fail("BAD_FRAME") \/ Fail("BAD_LENGTH")  BY <1>3 DEF bad_frame
    <2> QED BY <1>0, <1>1, <1>2, <2>1, FailHereSafe
  <1>4. CASE refused
    <2>0. tx = "all" /\ tx' = "all"  BY <1>2, <1>4 DEF refused
    <2>1. CASE fail("MODULE_ERROR", phase, may_be_open /\ phase # "OPEN", tx)
      <3>1. phase \in Phases /\ (may_be_open /\ phase # "OPEN") \in BOOLEAN
        BY DEF TypeOK
      <3>2. may_be_open /\ phase # "OPEN" => phase \in FilePhases
        BY <1>1 DEF CInv, OpenInFilePhases
      <3> QED BY <1>0, <1>1, <1>2, <2>0, <2>1, <3>1, <3>2, FailSafe
    <2>2. CASE phase \in StatePhases
      <3>1. ~may_be_open
        BY <1>1, <2>2 DEF CInv, OpenInFilePhases, FilePhases, StatePhases
      <3>2. CASE /\ phase' \in Phases /\ pending' = FALSE
                 /\ UNCHANGED <<statusVars, may_be_open, drained>>
        <4>1. Proceed(phase')  BY <3>2 DEF Proceed
        <4> QED BY <1>1, <1>2, <2>0, <3>1, <4>1, ProceedSafe
      <3>3. CASE fail("IDENTITY", "AFTER_PN", may_be_open, tx)
        <4>1. /\ "AFTER_PN" \in Phases /\ may_be_open \in BOOLEAN
              /\ "AFTER_PN" \notin QueryPhases
          BY Tables DEF TypeOK, QueryPhases, StatePhases
        <4>2. ~(command' = "OPEN" /\ tx' = "some")  BY <2>0
        <4> QED BY <1>0, <1>1, <1>2, <3>1, <3>3, <4>1, <4>2, FailSafe
      <3>4. "AFTER_PN" \in Phases /\ (phase \in StatePhases \ {"STATE_GAIN_AFTER"} =>
              Following[phase] \in Phases)
        BY Tables DEF StatePhases, Following
      <3> QED BY <1>4, <2>2, <3>2, <3>3, <3>4 DEF refused
    <2> QED BY <1>4, <2>1, <2>2 DEF refused, StatePhases
  <1>5. CASE unwanted
    <2>1. Fail("BAD_LENGTH") \/ (error # "NONE" /\ Fail(error))  BY <1>5 DEF unwanted
    <2>2. /\ error # "NONE" => error \in Errors
          /\ error \notin {"IDENTITY", "NO_SUFFIX"}
      BY <1>1 DEF TypeOK, CInv, GoesOnWithDoubt
    <2> QED BY <1>0, <1>1, <1>2, <2>1, <2>2, FailHereSafe
  <1> QED BY <1>3, <1>4, <1>5

LEMMA AnswerSafe ==
  ASSUME TypeOK, CInv,
         \/ identity_before \/ query \/ gain_after \/ opened \/ info
         \/ read_block \/ closed \/ identity_after
  PROVE  CInv'
  <1>0. {"IDENTITY", "MODULE_ERROR", "BAD_LENGTH"} \subseteq Errors  BY DEF Errors
  <1>1. ASSUME NEW p, Accepts(p)
        PROVE  /\ state = "READING" /\ tx = "all" /\ phase = p
               /\ error = "NONE" \/ p = "CLOSE"
               /\ UNCHANGED <<command, tx, residue>> /\ UNCHANGED <<txVars, residue>>
    BY <1>1 DEF Accepts, Arrived, Running, txVars, moduleVars
  <1>2. state = "READING" /\ phase \notin FilePhases => ~may_be_open
    BY DEF CInv, OpenInFilePhases
  <1>3. CASE identity_before
    <2>1. PICK p \in {"BEFORE_PN", "BEFORE_SN", "BEFORE_FW"} :
            /\ Accepts(p)
            /\ \/ Fail("IDENTITY")
               \/ Proceed(Following[p])
               \/ Proceed(FirstRead)
      BY <1>3 DEF identity_before
    <2>2. phase = p /\ phase \notin FilePhases /\ phase \notin QueryPhases
      BY <2>1, <1>1 DEF FilePhases, QueryPhases, StatePhases
    <2> QED BY <1>0, <1>1, <1>2, <2>1, <2>2, FailHereSafe, ProceedSafe
  <1>4. CASE query
    <2>1. PICK p \in QueryPhases : Accepts(p) /\ Proceed(Following[p])
      BY <1>4 DEF query
    <2>2. phase = p /\ phase \notin FilePhases
      BY <2>1, <1>1 DEF FilePhases, QueryPhases, StatePhases
    <2> QED BY <1>1, <1>2, <2>1, <2>2, ProceedSafe
  <1>5. CASE gain_after
    <2>1. Accepts("STATE_GAIN_AFTER")  BY <1>5 DEF gain_after
    <2>2. phase = "STATE_GAIN_AFTER" /\ phase \notin FilePhases /\ state = "READING"
      BY <2>1, <1>1 DEF FilePhases
    <2>3. CASE Proceed("AFTER_PN")
      BY <1>1, <1>2, <2>1, <2>2, <2>3, ProceedSafe
    <2>4. CASE fail("IDENTITY", "AFTER_PN", may_be_open, tx)
      <3>1. /\ "AFTER_PN" \in Phases /\ may_be_open \in BOOLEAN
            /\ "AFTER_PN" \notin QueryPhases /\ ~may_be_open
        BY <1>2, <2>2, Tables DEF TypeOK, QueryPhases, StatePhases
      <3>2. ~(command' = "OPEN" /\ tx' = "some") /\ UNCHANGED residue
        BY <1>1, <2>1
      <3> QED BY <1>0, <2>2, <2>4, <3>1, <3>2, FailSafe
    <2> QED BY <1>5, <2>3, <2>4 DEF gain_after
  <1>6. CASE opened
    <2>1. Accepts("OPEN") /\ Proceed("INFO")  BY <1>6 DEF opened
    <2>2. "INFO" \in FilePhases \ {"OPEN"}  BY DEF FilePhases
    <2> QED BY <1>1, <2>1, <2>2, ProceedSafe
  <1>7. CASE info
    <2>1. Accepts("INFO") /\ (Fail("MODULE_ERROR") \/ Fail("BAD_LENGTH") \/ Proceed("READ"))
      BY <1>7 DEF info
    <2>2. "READ" \in FilePhases \ {"OPEN"}  BY DEF FilePhases
    <2> QED BY <1>0, <1>1, <2>1, <2>2, FailHereSafe, ProceedSafe
  <1>8. CASE read_block
    <2>1. Accepts("READ") /\ (Proceed("CLOSE") \/ Proceed("READ"))  BY <1>8 DEF read_block
    <2>2. {"READ", "CLOSE"} \subseteq FilePhases \ {"OPEN"}  BY DEF FilePhases
    <2> QED BY <1>1, <2>1, <2>2, ProceedSafe
  <1>9. CASE closed
    <2>1. /\ state = "READING" /\ tx = "all" /\ UNCHANGED <<command, tx, residue>>
      BY <1>1, <1>9 DEF closed
    <2>2. CASE error = "NONE"
      <3>1. /\ phase' = "AFTER_PN" /\ ~pending' /\ ~may_be_open'
            /\ UNCHANGED <<state, error, downloading, cleanup_failed>>
        BY <1>9, <2>2 DEF closed, statusVars
      <3> QED BY <2>1, <3>1 DEF CInv, LockedIsOver, LentIsReady, GoesOnWithDoubt,
              OpenInFilePhases, PendingIsAsked, CutOpenLocks, LocalErrorsNeverLock
    <2>3. CASE error # "NONE"
      <3>1. finish(error, FALSE)  BY <1>9, <2>3 DEF closed
      <3>2. error \notin {"IDENTITY", "NO_SUFFIX"}  BY <2>1 DEF CInv, GoesOnWithDoubt
      <3> QED BY <2>1, <3>1, <3>2, FinishSafe
    <2> QED BY <2>2, <2>3
  <1>10. CASE identity_after
    <2>1. PICK p \in {"AFTER_PN", "AFTER_SN", "AFTER_FW"} :
            /\ Accepts(p)
            /\ \/ Fail("IDENTITY")
               \/ Proceed(Following[p])
               \/ /\ state' = "READY" /\ pending' = FALSE
                  /\ UNCHANGED <<error, downloading, cleanup_failed, phase, may_be_open,
                                 drained>>
      BY <1>10 DEF identity_after
    <2>2. phase = p /\ phase \notin FilePhases /\ phase \notin QueryPhases
      BY <2>1, <1>1 DEF FilePhases, QueryPhases, StatePhases
    <2>3. CASE Fail("IDENTITY") \/ Proceed(Following[p])
      BY <1>0, <1>1, <1>2, <2>1, <2>2, <2>3, FailHereSafe, ProceedSafe
    <2>4. CASE /\ state' = "READY" /\ pending' = FALSE
               /\ UNCHANGED <<error, downloading, cleanup_failed, phase, may_be_open, drained>>
      <3>1. state = "READING" /\ tx = "all" /\ UNCHANGED <<command, tx, residue>>
        BY <1>1, <2>1
      <3> QED BY <2>4, <3>1 DEF CInv, LockedIsOver, LentIsReady, GoesOnWithDoubt,
              OpenInFilePhases, PendingIsAsked, CutOpenLocks, LocalErrorsNeverLock
    <2> QED BY <2>1, <2>3, <2>4
  <1> QED BY <1>3, <1>4, <1>5, <1>6, <1>7, <1>8, <1>9, <1>10
-----------------------------------------------------------------------------
(* The theorems.                                                            *)

\* The invariant holds before the first request ...
THEOREM InitInductive ==
  ASSUME ModuleAssumption  PROVE Init => IInv
  <1> SUFFICES ASSUME Init PROVE IInv  OBVIOUS
  <1>1. TypeOK
    <2>1. /\ "PN" \in Commands /\ {"PN", "SN", "FW"} \subseteq Commands
          /\ "BEFORE_PN" \in Phases
      BY Tables
    <2>2. identity \in [{"PN", "SN", "FW"} -> Commands \X Nat]
      BY <2>1 DEF Init, Unknown
    <2>3. payload \in Seq(Replies) /\ line \in Seq(Replies)  BY DEF Init
    <2>4. StatusTyped /\ PhaseTyped /\ TxTyped /\ LineTyped
      BY <2>1, <2>3 DEF Init, StatusTyped, PhaseTyped, TxTyped, LineTyped
    <2>5. ResultTyped /\ CameraTyped
      <3>1. /\ transaction = 0 /\ length = 0 /\ selected \in Kinds
            /\ camera = 1 /\ handle = FALSE /\ residue = "NONE"
        BY DEF Init
      <3>2. 0 \in 0 .. T /\ 1 \in 1 .. M  BY DEF ModuleAssumption
      <3> QED BY <2>2, <2>3, <3>1, <3>2 DEF ResultTyped, CameraTyped
    <2> QED BY <2>4, <2>5, TypeParts
  <1>2. CInv
    BY DEF Init, CInv, LockedIsOver, LentIsReady, GoesOnWithDoubt,
           OpenInFilePhases, PendingIsAsked, CutOpenLocks, LocalErrorsNeverLock
  <1> QED BY <1>1, <1>2 DEF IInv

\* ... and after every step.
THEOREM NextInductive ==
  ASSUME ModuleAssumption  PROVE IInv /\ [Next]_vars => IInv'
  <1> SUFFICES ASSUME TypeOK, CInv, [Next]_vars  PROVE IInv'  BY DEF IInv
  <1>1. TypeOK'  BY TypeStep
  <1>2. CInv'
    <2>1. CASE Requests  BY <2>1, RequestSafe
    <2>2. CASE Task
      BY <2>2, ClockSafe, CommandSafe, RefusalSafe, AnswerSafe DEF Task, Response
    <2>3. CASE exchange
      BY <2>3, FrameSafe DEF exchange, statusVars, phaseVars, txVars
    <2>4. CASE UNCHANGED vars
      BY <2>4, FrameSafe DEF vars, statusVars, phaseVars, wireVars, txVars, moduleVars
    <2> QED BY <2>1, <2>2, <2>3, <2>4 DEF Next
  <1> QED BY <1>1, <1>2 DEF IInv

\* The invariant of the service, whatever the module does.
THEOREM Invariance == Spec => []IInv
  <1>1. Init => IInv  BY ModuleAssumption, InitInductive
  <1>2. IInv /\ [Next]_vars => IInv'  BY ModuleAssumption, NextInductive
  <1> QED BY <1>1, <1>2, PTL DEF Spec

\* Every variable keeps its type, the wrapping transaction number included.
THEOREM TypeSafety == Spec => []TypeOK
  <1>1. IInv => TypeOK  BY DEF IInv
  <1> QED BY <1>1, Invariance, PTL

\* A local refusal or a changed module never locks the service.
THEOREM LocalErrorSafety == Spec => []LocalErrorsNeverLock
  <1>1. IInv => LocalErrorsNeverLock  BY DEF IInv, CInv
  <1> QED BY <1>1, Invariance, PTL

\* A CLOSE is never taken for the rest of an OPEN: an OPEN cut short locks the
\* service, so that no command follows it.
THEOREM CloseSafety == Spec => []CloseIsNotSwallowed
  <1>1. IInv => CloseIsNotSwallowed  BY DEF IInv, CInv, CutOpenLocks, CloseIsNotSwallowed
  <1> QED BY <1>1, Invariance, PTL
-----------------------------------------------------------------------------
(* The service is the one its callers are checked with.                     *)

\* A step of a transaction that neither restarts nor lends is one of the abstract
\* task.
LEMMA ReadingStep ==
  ASSUME TypeOK, CInv, state = "READING", UNCHANGED transaction, downloading' = FALSE,
         \/ Stage' = Stage
         \/ Stage' \in {"closing", "idle"}
         \/ Stage = "reading" /\ Stage' = "ready"
  PROVE  Service!FileNext
  <1>1. Number' = Number  BY DEF Number
  <1>2. downloading = FALSE  BY DEF CInv, LentIsReady, TypeOK
  <1>3. Stage \in {"reading", "closing"}  BY DEF Stage
  <1>4. Service!file_task
    BY <1>1, <1>2, <1>3 DEF Service!file_task, Service!fileVars
  <1> QED BY <1>4 DEF Service!FileNext

\* A failure closes or ends the transaction.
LEMMA FailStage ==
  ASSUME TypeOK, CInv, state = "READING", NEW e \in Errors, NEW p, NEW open, NEW sent,
         fail(e, p, open, sent)
  PROVE  Stage' \in {"closing", "idle"} /\ downloading' = FALSE
  <1>1. First(e) # "NONE"  BY DEF First, Errors
  <1>2. downloading = FALSE  BY DEF CInv, LentIsReady, TypeOK
  <1>3. ASSUME NEW lock, finish(First(e), lock)
        PROVE  Stage' \in {"closing", "idle"} /\ downloading' = FALSE
    BY <1>3 DEF finish, Stage
  <1>4. ASSUME error' = First(e), UNCHANGED <<state, downloading, cleanup_failed>>
        PROVE  Stage' \in {"closing", "idle"} /\ downloading' = FALSE
    BY <1>1, <1>2, <1>4 DEF Stage
  <1> QED BY <1>3, <1>4 DEF fail

LEMMA FailStep ==
  ASSUME TypeOK, CInv, state = "READING", NEW e \in Errors, Fail(e), UNCHANGED transaction
  PROVE  Service!FileNext
  BY FailStage, ReadingStep DEF Fail

\* What leaves the status alone is not seen from outside.
LEMMA IdleStep ==
  ASSUME UNCHANGED <<statusVars, transaction>>
  PROVE  UNCHANGED Service!fileVars
  BY DEF statusVars, Stage, Number, Service!fileVars

LEMMA RequestStep ==
  ASSUME TypeOK, CInv, ModuleAssumption, Requests
  PROVE  [Service!FileNext]_(Service!fileVars)
  <1>1. ASSUME NEW k \in Kinds, start(k)  PROVE Service!FileNext
    <2>1. Stage = "idle" /\ Stage' = "reading" /\ downloading' = FALSE
      BY <1>1 DEF start, Stage
    <2>2. Number' = Service!NextTransaction
      BY <1>1 DEF start, Number, NextTransaction, Service!NextTransaction, TypeOK, ModuleAssumption
    <2>3. Service!start(TRUE)  BY <2>1, <2>2 DEF Service!start
    <2> QED BY <2>3 DEF Service!FileNext
  <1>2. CASE start_refused
    <2>1. UNCHANGED <<statusVars, transaction>>
      BY <1>2 DEF start_refused, vars, wireVars, resultVars
    <2> QED BY <2>1, IdleStep
  <1>3. CASE abort
    <2>0. UNCHANGED transaction  BY <1>3 DEF abort, wireVars, resultVars
    <2>1. CASE state = "READY" /\ finish("CANCELLED", FALSE)
      <3>1. Stage = "ready" /\ Stage' = "idle" /\ downloading' = FALSE /\ downloading = FALSE
        BY <1>3, <2>1 DEF finish, Stage, abort, TypeOK
      <3>2. Service!abort  BY <2>0, <3>1 DEF Service!abort, Number
      <3> QED BY <3>2 DEF Service!FileNext
    <2>2. CASE /\ state = "READING" /\ error' = "CANCELLED"
               /\ UNCHANGED <<state, downloading, cleanup_failed>>
      <3>1. Stage' = "closing" /\ downloading' = FALSE
        BY <2>2 DEF Stage, CInv, LentIsReady, TypeOK
      <3> QED BY <2>0, <2>2, <3>1, ReadingStep
    <2>3. CASE state = "READING" /\ Fail("CANCELLED")
      BY <2>0, <2>3, FailStep DEF Errors
    <2> QED BY <1>3, <2>1, <2>2, <2>3 DEF abort
  <1>4. ASSUME NEW t \in 1 .. T, download(t)  PROVE Service!FileNext
    <2>1. /\ state = "READY" /\ ~downloading /\ transaction = t /\ downloading' = TRUE
          /\ UNCHANGED <<state, error, transaction>>
      BY <1>4 DEF download, wireVars, resultVars
    <2>2. Stage = "ready" /\ Stage' = Stage /\ Number = t /\ Number' = Number
      BY <2>1 DEF Stage, Number
    <2>3. Service!Downloadable(t) /\ Service!download
      BY <2>1, <2>2 DEF Service!Downloadable, Service!download
    <2> QED BY <2>3 DEF Service!FileNext, Service!Transactions
  <1>5. ASSUME NEW complete \in BOOLEAN, download_release(complete)  PROVE Service!FileNext
    <2>1. /\ downloading /\ state' \in {"DONE", "ABORTED"} /\ downloading' = FALSE
          /\ UNCHANGED transaction
      BY <1>5 DEF download_release, wireVars, resultVars
    <2>2. Stage' = "idle" /\ Number' = Number  BY <2>1 DEF Stage, Number
    <2>3. Service!download_release  BY <2>1, <2>2 DEF Service!download_release
    <2> QED BY <2>3 DEF Service!FileNext
  <1> QED BY <1>1, <1>2, <1>3, <1>4, <1>5 DEF Requests

LEMMA ClockStep ==
  ASSUME TypeOK, CInv, \/ expire \/ drain_discard \/ drain_limit \/ drain_quiet
                       \/ deadline \/ no_suffix \/ issue \/ command_timeout
                       \/ uart_error \/ transmit
  PROVE  [Service!FileNext]_(Service!fileVars)
  <1>0. {"TIMEOUT", "UART_ERROR", "NO_SUFFIX"} \subseteq Errors  BY DEF Errors
  <1>1. UNCHANGED transaction
    BY DEF expire, drain_discard, drain_limit, drain_quiet, deadline, no_suffix, issue,
           command_timeout, uart_error, transmit, wireVars, resultVars
  <1>2. CASE expire
    <2>1. Stage = "ready" /\ Stage' = "idle" /\ downloading' = FALSE /\ downloading = FALSE
      BY <1>2 DEF expire, finish, Stage, TypeOK
    <2>2. Service!file_task  BY <1>1, <2>1 DEF Service!file_task, Number
    <2> QED BY <2>2 DEF Service!FileNext
  <1>3. CASE drain_discard \/ drain_quiet \/ issue \/ transmit
    <2>1. UNCHANGED statusVars  BY <1>3 DEF drain_discard, drain_quiet, issue, transmit
    <2> QED BY <1>1, <2>1, IdleStep
  <1>4. CASE drain_limit
    <2>1. state = "READING" /\ Stage' = "idle" /\ downloading' = FALSE
      BY <1>4 DEF drain_limit, Draining, finish, Stage
    <2> QED BY <1>1, <2>1, ReadingStep
  <1>5. CASE deadline \/ command_timeout \/ uart_error
    <2>1. state = "READING" /\ (Fail("TIMEOUT") \/ Fail("UART_ERROR"))
      BY <1>5 DEF deadline, command_timeout, uart_error, Running
    <2> QED BY <1>0, <1>1, <2>1, FailStep
  <1>6. CASE no_suffix
    <2>1. state = "READING" /\ fail("NO_SUFFIX", phase, may_be_open, "none")
      BY <1>6 DEF no_suffix, Running
    <2> QED BY <1>0, <1>1, <2>1, FailStage, ReadingStep
  <1> QED BY <1>2, <1>3, <1>4, <1>5, <1>6

LEMMA ResponseStep ==
  ASSUME TypeOK, CInv, Response
  PROVE  [Service!FileNext]_(Service!fileVars)
  <1>0. {"BAD_FRAME", "BAD_LENGTH", "MODULE_ERROR", "IDENTITY"} \subseteq Errors
    BY DEF Errors
  <1>1. state = "READING"
    BY DEF Response, bad_frame, refused, unwanted, identity_before, query, gain_after,
           opened, info, read_block, closed, identity_after, Accepts, Arrived, Running
  <1>2. UNCHANGED transaction
    BY DEF Response, bad_frame, refused, unwanted, identity_before, query, gain_after,
           opened, info, read_block, closed, identity_after, resultVars
  <1>3. CASE UNCHANGED statusVars  BY <1>2, <1>3, IdleStep
  <1>4. ASSUME NEW e \in Errors, Fail(e)  PROVE Service!FileNext
    BY <1>1, <1>2, <1>4, FailStep
  <1>5. ASSUME NEW e \in Errors, NEW p, NEW open, fail(e, p, open, tx)
        PROVE  Service!FileNext
    BY <1>1, <1>2, <1>5, FailStage, ReadingStep
  <1>6. CASE bad_frame \/ refused
    <2>1. \/ UNCHANGED statusVars
          \/ Fail("BAD_FRAME") \/ Fail("BAD_LENGTH")
          \/ fail("MODULE_ERROR", phase, may_be_open /\ phase # "OPEN", tx)
          \/ fail("IDENTITY", "AFTER_PN", may_be_open, tx)
      BY <1>6 DEF bad_frame, refused
    <2> QED BY <1>0, <1>3, <1>4, <1>5, <2>1
  <1>7. CASE unwanted
    <2>1. Fail("BAD_LENGTH") \/ (error # "NONE" /\ Fail(error))  BY <1>7 DEF unwanted
    <2>2. error # "NONE" => error \in Errors  BY DEF TypeOK
    <2> QED BY <1>0, <1>4, <2>1, <2>2
  <1>8. CASE \/ identity_before \/ query \/ gain_after \/ opened \/ info \/ read_block
    <2>1. \/ UNCHANGED statusVars
          \/ Fail("IDENTITY") \/ Fail("MODULE_ERROR") \/ Fail("BAD_LENGTH")
          \/ fail("IDENTITY", "AFTER_PN", may_be_open, tx)
      BY <1>8 DEF identity_before, query, gain_after, opened, info, read_block, Proceed
    <2> QED BY <1>0, <1>3, <1>4, <1>5, <2>1
  <1>9. CASE closed
    <2>1. CASE error = "NONE"
      BY <1>3, <1>9, <2>1 DEF closed
    <2>2. CASE error # "NONE"
      <3>1. Stage' = "idle" /\ downloading' = FALSE
        BY <1>9, <2>2 DEF closed, finish, Stage
      <3> QED BY <1>1, <1>2, <3>1, ReadingStep
    <2> QED BY <2>1, <2>2
  <1>10. CASE identity_after
    <2>1. PICK p \in {"AFTER_PN", "AFTER_SN", "AFTER_FW"} :
            /\ Accepts(p)
            /\ \/ Fail("IDENTITY")
               \/ UNCHANGED statusVars
               \/ state' = "READY" /\ UNCHANGED <<error, downloading>>
      BY <1>10 DEF identity_after, Proceed
    <2>2. error = "NONE"  BY <2>1 DEF Accepts
    <2>3. CASE state' = "READY" /\ UNCHANGED <<error, downloading>>
      <3>1. Stage = "reading" /\ Stage' = "ready" /\ downloading' = FALSE
        BY <1>1, <2>2, <2>3 DEF Stage, CInv, LentIsReady, TypeOK
      <3> QED BY <1>1, <1>2, <3>1, ReadingStep
    <2> QED BY <1>0, <1>3, <1>4, <2>1, <2>3
  <1> QED BY <1>6, <1>7, <1>8, <1>9, <1>10 DEF Response

\* The service refines what DualcoreRpc calls from the other core, for any file,
\* any module and any loss of answers: a transaction that was cancelled never
\* becomes ready, and a result that is lent stays.
THEOREM ServiceRefinement == Spec => ImplementsFileService
  <1>1. Init => Service!FileInit
    BY DEF Init, Service!FileInit, Stage, Number
  <1>2. IInv /\ [Next]_vars => [Service!FileNext]_(Service!fileVars)
    <2> SUFFICES ASSUME TypeOK, CInv, [Next]_vars
                 PROVE  [Service!FileNext]_(Service!fileVars)
      BY DEF IInv
    <2>1. CASE Requests  BY <2>1, ModuleAssumption, RequestStep
    <2>2. CASE Task  BY <2>2, ClockStep, ResponseStep DEF Task
    <2>3. CASE exchange  BY <2>3, IdleStep DEF exchange, resultVars
    <2>4. CASE UNCHANGED vars  BY <2>4, IdleStep DEF vars, wireVars, resultVars
    <2> QED BY <2>1, <2>2, <2>3, <2>4 DEF Next
  <1> QED BY <1>1, <1>2, Invariance, PTL DEF Spec, ImplementsFileService, Service!FileSpec
-----------------------------------------------------------------------------
(* What the answers are.                                                    *)
(*                                                                          *)
(* The three identity answers a transaction begins with have 32, 32 and 11  *)
(* bytes, and none is accepted in the place of another length.  If no more  *)
(* than two replies to earlier commands are still to come, they can be      *)
(* taken for the answers to PN and SN, but what is then accepted as the 11  *)
(* bytes of FW cannot be one of the answers to PN and SN that follow them:  *)
(* it is the answer to FW itself, and the last reply on the line.  From     *)
(* there to the end the line holds the answer to the command that has been  *)
(* sent and nothing else.                                                   *)

\* A command of this phase has been sent completely and waits for its answer.
Waits(p) == state = "READING" /\ phase = p /\ pending /\ tx = "all"

\* While a transaction sends its first command, at most two replies to commands of
\* earlier ones are still on their way.
TwoLateReplies ==
  state = "READING" /\ phase = "BEFORE_PN" /\ pending /\ tx # "all" => Len(line) <= 2

\* The phases in which only the answer to the command may be on the line.
ReadPhases == Phases \ {"BEFORE_PN", "BEFORE_SN", "BEFORE_FW", "DRAIN"}

Serial == identity["SN"]

\* Modules are numbered in the order they are fitted: no reply, piece or serial
\* number is of one yet to come, and no piece is older than the serial number.
Marked ==
  /\ \A i \in DOMAIN line :
       /\ line[i].from <= camera
       /\ line[i].command = "SN" => line[i].value \in {Unknown, line[i].from}
  /\ \A j \in DOMAIN payload : payload[j].from <= camera
  /\ Serial[1] = "SN" =>
       /\ Serial[2] <= camera
       /\ \A j \in DOMAIN payload : Serial[2] <= payload[j].from

AnswerTo(r, asked) == r.outcome = "damaged" \/ r.command \in asked

\* Behind two late replies there is the answer to PN ...
ThirdIsPN ==
  Waits("BEFORE_PN") => \A i \in DOMAIN line : i <= 2 \/ AnswerTo(line[i], {"PN"})

\* ... then, when one has been taken for it, behind the other also that to SN ...
SecondIsSN ==
  state = "READING" /\ phase = "BEFORE_SN" =>
    \A i \in DOMAIN line : i = 1 \/ AnswerTo(line[i], {"PN", "SN"})

\* ... and before the answer to FW there are only those two, which are longer.
LastIsFW ==
  state = "READING" /\ phase = "BEFORE_FW" =>
    \A i \in DOMAIN line :
      \/ AnswerTo(line[i], {"PN", "SN"})
      \/ Waits("BEFORE_FW") /\ i = Len(line) /\ AnswerTo(line[i], {"FW"})

\* The module's answer to the command: no older than what is known already, and
\* what it says of the file is true.
Fresh(r) ==
  /\ r.command = Asks[phase]
  /\ Serial[1] = "SN" => Serial[2] <= r.from
  /\ \A j \in DOMAIN payload : payload[j].from <= r.from
  /\ phase = "READ" /\ r.outcome = "ok" => r.value = Len(payload) + 1
  /\ handle => ~(phase = "OPEN" /\ r.outcome = "refused")
               /\ ~(phase = "CLOSE" /\ r.outcome = "ok")

OnlyFresh ==
  state = "READING" /\ phase \in ReadPhases =>
    \/ line = <<>>
    \/ /\ pending /\ tx = "all" /\ Len(line) = 1
       /\ Head(line).outcome = "damaged" \/ Fresh(Head(line))

Synchronised == ThirdIsPN /\ SecondIsSN /\ LastIsFW /\ OnlyFresh

\* In phase OPEN the file can only have been opened by the OPEN that was sent.
OpenedByOpen ==
  state = "READING" /\ phase = "OPEN" /\ handle => pending /\ tx = "all"

\* What has been kept is what was asked for, in order ...
PiecesMatch ==
  \A j \in DOMAIN payload :
    /\ j <= Len(Pieces)
    /\ payload[j].outcome = "ok" =>
         /\ payload[j].command = Pieces[j]
         /\ Pieces[j] = "READ" => payload[j].value = j

\* ... and as much of it as the phase tells.
EnoughPieces ==
  /\ phase \in {"BEFORE_PN", "BEFORE_SN", "BEFORE_FW", "OPEN", "INFO",
                "PARAMETERS", "STATE_GAIN"} => payload = <<>>
  /\ phase = "STATE_VTEMP" => Len(payload) = 1
  /\ phase = "STATE_FFC" => Len(payload) = 2
  /\ phase = "STATE_SHUTTER" => Len(payload) = 3
  /\ phase = "STATE_GAIN_AFTER" => Len(payload) = 4
  /\ phase = "READ" => Len(payload) < length
  /\ phase \in {"CLOSE", "AFTER_PN", "AFTER_SN", "AFTER_FW"} => Len(payload) = Len(Pieces)

\* Each kind has its phases.
PhaseOfKind ==
  /\ phase \in {"OPEN", "INFO", "READ"} => selected \notin {"state", "parameters"}
  /\ phase = "PARAMETERS" => selected = "parameters"
  /\ phase \in StatePhases => selected = "state"

\* What the end repeats of the beginning is known to be the right answer, and no
\* late one: the product name, then the serial number.  A serial number told
\* before the first piece and again after the last is of the one module they all
\* are of.
SameModule ==
  /\ phase \notin {"BEFORE_PN", "BEFORE_SN"} => Serial[2] # Unknown
  /\ phase \in {"AFTER_SN", "AFTER_FW"} => identity["PN"][1] = "PN"
  /\ phase = "AFTER_FW" =>
       /\ Serial[1] = "SN"
       /\ \A j \in DOMAIN payload : payload[j].from = Serial[2]

\* A transaction without an error reads what it should.
Reads ==
  state = "READING" /\ error = "NONE" =>
    /\ phase # "DRAIN"
    /\ PiecesMatch /\ EnoughPieces /\ PhaseOfKind /\ SameModule

\* The invariant: what was to be shown, and what it rests on.
SInv == /\ Marked /\ Synchronised
        /\ OpenedByOpen /\ OpenFileIsKnown
        /\ Reads /\ ResultIsGenuine

\* Of a transaction that is over, or goes on only to close its file, nothing of all
\* this is needed but that the file is known.
Over == \/ state \notin {"READING", "READY"}
        \/ state = "READING" /\ phase = "DRAIN" /\ error # "NONE"

-----------------------------------------------------------------------------
(* Ends and failures.                                                       *)

\* Nothing is expected of a transaction after its error.
LEMMA OverSound ==
  ASSUME Over'
  PROVE  Synchronised' /\ OpenedByOpen' /\ Reads' /\ ResultIsGenuine'
  <1>1. Synchronised'
    BY DEF Over, Synchronised, ThirdIsPN, SecondIsSN, LastIsFW, OnlyFresh, ReadPhases, Waits
  <1>2. OpenedByOpen' /\ Reads'
    BY DEF Over, OpenedByOpen, Reads
  <1>3. ResultIsGenuine'  BY DEF Over, ResultIsGenuine
  <1> QED BY <1>1, <1>2, <1>3

\* A failure after which no file is open that CLOSE does not follow.
LEMMA FailOver ==
  ASSUME TypeOK, CInv, state = "READING", NEW e \in Errors, NEW p, NEW open \in BOOLEAN,
         NEW sent, fail(e, p, open, sent), handle' => open
  PROVE  Over' /\ OpenFileIsKnown'
  <1>1. Locks(e, p, open, sent) \in BOOLEAN  BY DEF Locks
  <1>2. First(e) # "NONE"  BY DEF First, Errors, TypeOK
  <1>3. CASE /\ Locks(e, p, open, sent) \/ ~open
             /\ finish(First(e), Locks(e, p, open, sent))
    <2>1. state' \in {"ERROR", "ABORTED"}  BY <1>3 DEF finish
    <2>2. handle' => cleanup_failed'  BY <1>1, <1>3 DEF finish
    <2> QED BY <2>1, <2>2 DEF Over, OpenFileIsKnown
  <1>4. CASE /\ open /\ error' = First(e) /\ phase' = "DRAIN" /\ UNCHANGED state
    <2>1. may_be_open'  BY <1>4 DEF fail
    <2> QED BY <1>2, <1>4, <2>1 DEF Over, OpenFileIsKnown
  <1> QED BY <1>3, <1>4 DEF fail

\* ... as when it fails where it is.
LEMMA FailHereOver ==
  ASSUME TypeOK, CInv, OpenFileIsKnown, state = "READING", NEW e \in Errors, Fail(e),
         handle' = handle
  PROVE  Over' /\ OpenFileIsKnown'
  <1>1. handle' => may_be_open
    BY DEF OpenFileIsKnown, CInv, LockedIsOver
  <1>2. may_be_open \in BOOLEAN  BY DEF TypeOK
  <1>3. fail(e, phase, may_be_open, tx)  BY DEF Fail
  <1> QED BY <1>1, <1>2, <1>3, FailOver

\* The sequences of the line.
LEMMA TailParts ==
  ASSUME NEW S, NEW s \in Seq(S), s # <<>>
  PROVE  /\ Tail(s) \in Seq(S) /\ Len(Tail(s)) = Len(s) - 1
         /\ Head(s) = s[1] /\ Head(s) \in S /\ Len(s) >= 1
         /\ \A i \in DOMAIN Tail(s) : i + 1 \in DOMAIN s /\ Tail(s)[i] = s[i + 1]
         /\ Len(s) = 1 => Tail(s) = <<>>
  <1>1. /\ Tail(s) \in Seq(S) /\ Len(Tail(s)) = Len(s) - 1
        /\ Head(s) = s[1] /\ Head(s) \in S /\ Len(s) \in Nat
    OBVIOUS
  <1>2. Len(s) # 0  BY EmptySeq
  <1>3. \A i \in DOMAIN Tail(s) : i + 1 \in DOMAIN s /\ Tail(s)[i] = s[i + 1]
    BY <1>1, <1>2
  <1>4. Len(s) = 1 => Tail(s) = <<>>
    <2>1. \A t \in Seq(S) : Len(t) = 0 => t = <<>>  BY EmptySeq
    <2>2. Len(s) = 1 => Len(Tail(s)) = 0  BY <1>1
    <2> QED BY <1>1, <2>1, <2>2, Zenon
  <1> QED BY <1>1, <1>2, <1>3, <1>4

LEMMA AppendParts ==
  ASSUME NEW S, NEW s \in Seq(S), NEW r \in S
  PROVE  /\ Append(s, r) \in Seq(S) /\ Len(Append(s, r)) = Len(s) + 1
         /\ Append(s, r)[Len(s) + 1] = r
         /\ DOMAIN Append(s, r) = 1 .. Len(s) + 1
         /\ \A i \in 1 .. Len(s) : Append(s, r)[i] = s[i]
         /\ Head(Append(s, r)) = Append(s, r)[1]
         /\ Append(s, r) # <<>>
  BY AppendProperties

\* A frame given up half-way leaves a damaged rest in its place.
LEMMA LeaveParts ==
  ASSUME TypeOK, ModuleAssumption, line # <<>>, NEW i \in DOMAIN (<<Damaged>> \o Tail(line))
  PROVE  \/ (<<Damaged>> \o Tail(line))[i] = Damaged
         \/ /\ i \in DOMAIN line
            /\ (<<Damaged>> \o Tail(line))[i] = line[i]
  <1>1. line \in Seq(Replies) /\ Damaged \in Replies  BY AnswersType, Tables DEF TypeOK
  <1>2. /\ Tail(line) \in Seq(Replies) /\ Len(Tail(line)) = Len(line) - 1
        /\ \A j \in DOMAIN Tail(line) : j + 1 \in DOMAIN line /\ Tail(line)[j] = line[j + 1]
    BY <1>1, TailParts, Zenon
  <1>3. <<Damaged>> \in Seq(Replies) /\ Len(<<Damaged>>) = 1 /\ <<Damaged>>[1] = Damaged
    BY <1>1
  <1>4. /\ DOMAIN (<<Damaged>> \o Tail(line)) = 1 .. 1 + Len(Tail(line))
        /\ i = 1 => (<<Damaged>> \o Tail(line))[i] = Damaged
        /\ i # 1 => (<<Damaged>> \o Tail(line))[i] = Tail(line)[i - 1]
    BY <1>2, <1>3
  <1>5. DOMAIN Tail(line) = 1 .. Len(Tail(line)) /\ Len(Tail(line)) \in Nat  BY <1>2
  <1>6. i # 1 => i - 1 \in DOMAIN Tail(line) /\ i - 1 + 1 = i  BY <1>4, <1>5
  <1> QED BY <1>2, <1>4, <1>6

\* Taking a reply, and leaving something of it behind, keeps what the replies say.
LEMMA TailLine ==
  ASSUME TypeOK, ModuleAssumption, Marked, line # <<>>, Leave, camera' = camera
  PROVE  \A i \in DOMAIN line' :
           /\ line'[i].from <= camera'
           /\ line'[i].command = "SN" => line'[i].value \in {Unknown, line'[i].from}
  <1>1. line \in Seq(Replies) /\ camera \in Nat  BY DEF TypeOK
  <1>2. /\ \A i \in DOMAIN line :
              /\ line[i].from <= camera
              /\ line[i].command = "SN" => line[i].value \in {Unknown, line[i].from}
    BY DEF Marked
  <1>3. Damaged.from <= camera /\ Damaged.command # "SN"
    BY <1>1 DEF Damaged
  <1>4. CASE line' = Tail(line)
    BY <1>4, <1>1, <1>2, TailParts
  <1>5. CASE line' = <<Damaged>> \o Tail(line)
    BY <1>5, <1>2, <1>3, LeaveParts
  <1> QED BY <1>4, <1>5 DEF Leave

LEMMA TailMarked ==
  ASSUME TypeOK, ModuleAssumption, Marked, line # <<>>, Leave,
         UNCHANGED <<camera, payload, identity>>
  PROVE  Marked'
  BY TailLine DEF Marked, Serial

\* Every number that is compared is one.
LEMMA Numbers ==
  ASSUME TypeOK
  PROVE  /\ camera \in Nat /\ Serial[2] \in Nat
         /\ \A i \in DOMAIN line : line[i] \in Replies /\ line[i].from \in Nat
         /\ \A j \in DOMAIN payload : payload[j] \in Replies /\ payload[j].from \in Nat
  <1>1. \A r \in Replies : r.from \in Nat  BY DEF Replies
  <1>2. camera \in Nat  BY DEF TypeOK
  <1>3. Serial \in Commands \X Nat  BY DEF TypeOK, Serial
  <1>4. line \in Seq(Replies) /\ payload \in Seq(Replies)  BY DEF TypeOK
  <1>5. \A i \in DOMAIN line : line[i] \in Replies  BY <1>4
  <1>6. \A j \in DOMAIN payload : payload[j] \in Replies  BY <1>4
  <1> QED BY <1>1, <1>2, <1>3, <1>5, <1>6

\* The parts of the state a step may leave alone.
LEMMA MarkedKept ==
  ASSUME TypeOK, Marked, UNCHANGED <<line, payload, identity>>,
         camera' >= camera, camera' \in Nat
  PROVE  Marked'
  <1>1. /\ camera \in Nat /\ Serial[2] \in Nat
        /\ \A i \in DOMAIN line : line[i].from \in Nat
        /\ \A j \in DOMAIN payload : payload[j].from \in Nat
    BY Numbers
  <1>2. Serial' = Serial  BY DEF Serial
  <1>3. \A i \in DOMAIN line :
          /\ line[i].from <= camera'
          /\ line[i].command = "SN" => line[i].value \in {Unknown, line[i].from}
    BY <1>1 DEF Marked
  <1>4. \A j \in DOMAIN payload : payload[j].from <= camera'  BY <1>1 DEF Marked
  <1>5. Serial[1] = "SN" =>
          Serial[2] <= camera' /\ \A j \in DOMAIN payload : Serial[2] <= payload[j].from
    BY <1>1 DEF Marked
  <1> QED BY <1>2, <1>3, <1>4, <1>5 DEF Marked

\* ... and those a request may change without ending or starting anything.
LEMMA SoundKept ==
  ASSUME SInv, UNCHANGED <<state, phase, pending, may_be_open, cleanup_failed>>,
         UNCHANGED wireVars, error' \in {error, "CANCELLED"}
  PROVE  SInv'
  <1> USE DEF wireVars, resultVars, txVars, moduleVars
  <1>1. Marked'  BY DEF SInv, Marked, Serial
  <1>2. Synchronised'
    <2>1. ThirdIsPN' /\ SecondIsSN'
      BY DEF SInv, Synchronised, ThirdIsPN, SecondIsSN, AnswerTo, Waits
    <2>2. LastIsFW'  BY DEF SInv, Synchronised, LastIsFW, AnswerTo, Waits
    <2>3. OnlyFresh'  BY DEF SInv, Synchronised, OnlyFresh, Fresh, Serial
    <2> QED BY <2>1, <2>2, <2>3 DEF Synchronised
  <1>3. OpenedByOpen' /\ OpenFileIsKnown'
    BY DEF SInv, OpenedByOpen, OpenFileIsKnown
  <1>4. Pieces' = Pieces  BY DEF Pieces
  <1>5. Reads'
    <2>1. CASE error' = "CANCELLED"  BY <2>1 DEF Reads
    <2>2. CASE error' = error
      BY <2>2, <1>4 DEF SInv, Reads, PiecesMatch, EnoughPieces, PhaseOfKind, SameModule, Serial
    <2> QED BY <2>1, <2>2
  <1>6. ResultIsGenuine'  BY <1>4 DEF SInv, ResultIsGenuine
  <1> QED BY <1>1, <1>2, <1>3, <1>5, <1>6 DEF SInv

\* What a failure or an end with nothing else leaves.
LEMMA OverStep ==
  ASSUME TypeOK, SInv, Over', OpenFileIsKnown', UNCHANGED <<line, payload, identity, camera>>
  PROVE  SInv'
  <1>1. camera' >= camera /\ camera' \in Nat  BY DEF TypeOK
  <1>2. Marked'  BY <1>1, MarkedKept DEF SInv
  <1> QED BY <1>2, OverSound DEF SInv

\* A request starts a transaction that has kept nothing, or ends one.
LEMMA RequestSound ==
  ASSUME TypeOK, CInv, SInv, Requests
  PROVE  SInv'
  <1>0. OpenFileIsKnown /\ (state = "READING" => ~cleanup_failed)
    BY DEF SInv, CInv, LockedIsOver
  <1>1. ASSUME NEW k \in Kinds, start(k)  PROVE SInv'
    <2>1. PICK n \in 0 .. Len(line) : line' = SubSeq(line, n + 1, Len(line))
      BY <1>1 DEF start
    <2>2. /\ state' = "READING" /\ phase' = "BEFORE_PN" /\ payload' = <<>> /\ ~pending'
          /\ error' = "NONE"
          /\ UNCHANGED <<camera, handle, identity>>
      BY <1>1 DEF start, moduleVars
    <2>3. line \in Seq(Replies)  BY DEF TypeOK
    <2>4. \A i \in DOMAIN line' : \E j \in DOMAIN line : line'[i] = line[j]
      <3>1. Len(line) \in Nat /\ DOMAIN line = 1 .. Len(line)  BY <2>3
      <3>2. SubSeq(line, n + 1, Len(line)) = [i \in 1 .. Len(line) - n |-> line[n + i]]
        BY <2>3, <3>1
      <3>3. \A i \in 1 .. Len(line) - n : n + i \in DOMAIN line  BY <3>1
      <3> QED BY <2>1, <3>2, <3>3
    <2>5. Marked'  BY <2>2, <2>4 DEF SInv, Marked, Serial
    <2>6. Synchronised' /\ OpenedByOpen'
      BY <2>2 DEF Synchronised, ThirdIsPN, SecondIsSN, LastIsFW, OnlyFresh, OpenedByOpen,
                  ReadPhases, Waits
    <2>7. OpenFileIsKnown'
      BY <1>0, <1>1, <2>2 DEF start, OpenFileIsKnown
    <2>8. Reads' /\ ResultIsGenuine'
      <3>1. PiecesMatch'  BY <2>2 DEF PiecesMatch
      <3>2. EnoughPieces' /\ PhaseOfKind' /\ SameModule'
        BY <2>2 DEF EnoughPieces, PhaseOfKind, SameModule, StatePhases
      <3> QED BY <2>2, <3>1, <3>2 DEF Reads, ResultIsGenuine
    <2> QED BY <2>5, <2>6, <2>7, <2>8 DEF SInv
  <1>2. CASE start_refused
    BY <1>2, SoundKept DEF start_refused, vars, statusVars, phaseVars
  <1>3. CASE abort
    <2>0. UNCHANGED wireVars /\ UNCHANGED <<line, payload, identity, camera, handle>>
      BY <1>3 DEF abort, wireVars, resultVars, moduleVars
    <2>1. CASE state = "READY" /\ finish("CANCELLED", FALSE)
      <3>1. Over' /\ OpenFileIsKnown'
        BY <1>0, <2>0, <2>1 DEF finish, Over, OpenFileIsKnown
      <3> QED BY <2>0, <3>1, OverStep
    <2>2. CASE /\ state = "READING" /\ error' = "CANCELLED"
               /\ UNCHANGED <<state, downloading, cleanup_failed, phaseVars>>
      BY <2>0, <2>2, SoundKept DEF phaseVars
    <2>3. CASE state = "READING" /\ Fail("CANCELLED")
      <3>1. "CANCELLED" \in Errors  BY DEF Errors
      <3>2. Over' /\ OpenFileIsKnown'  BY <1>0, <2>0, <2>3, <3>1, FailHereOver
      <3> QED BY <2>0, <3>2, OverStep
    <2> QED BY <1>3, <2>1, <2>2, <2>3 DEF abort
  <1>4. ASSUME NEW t \in 1 .. T, download(t)  PROVE SInv'
    BY <1>4, SoundKept DEF download, phaseVars
  <1>5. ASSUME NEW complete \in BOOLEAN, download_release(complete)  PROVE SInv'
    <2>1. /\ state = "READY" /\ state' \in {"DONE", "ABORTED"}
          /\ UNCHANGED <<line, payload, identity, camera, handle, cleanup_failed>>
      BY <1>5 DEF download_release, wireVars, resultVars, moduleVars, CInv, LentIsReady
    <2>2. Over' /\ OpenFileIsKnown'  BY <1>0, <2>1 DEF Over, OpenFileIsKnown
    <2> QED BY <2>1, <2>2, OverStep
  <1> QED BY <1>1, <1>2, <1>3, <1>4, <1>5 DEF Requests

\* Limits and the drain end a transaction, or lead to its CLOSE.
LEMMA ClockSound ==
  ASSUME TypeOK, CInv, SInv,
         \/ expire \/ drain_discard \/ drain_limit \/ drain_quiet \/ deadline \/ no_suffix
         \/ command_timeout \/ uart_error,
         ModuleAssumption
  PROVE  SInv'
  <1>0. /\ {"TIMEOUT", "UART_ERROR", "NO_SUFFIX"} \subseteq Errors
        /\ OpenFileIsKnown /\ (state = "READING" => ~cleanup_failed)
    BY DEF Errors, SInv, CInv, LockedIsOver
  <1>1. ASSUME UNCHANGED wireVars
        PROVE  UNCHANGED <<line, payload, identity, camera, handle>>
    BY <1>1 DEF wireVars, resultVars, moduleVars
  <1>2. CASE expire
    <2>1. /\ state = "READY" /\ state' = "ERROR"
          /\ cleanup_failed => cleanup_failed'
      BY <1>2 DEF expire, finish
    <2>2. UNCHANGED <<line, payload, identity, camera, handle>>  BY <1>1, <1>2 DEF expire
    <2>3. Over' /\ OpenFileIsKnown'
      BY <1>0, <2>1, <2>2 DEF Over, OpenFileIsKnown
    <2> QED BY <2>2, <2>3, OverStep
  <1>3. CASE drain_limit
    <2>1. state' \in {"ERROR", "ABORTED"} /\ cleanup_failed'
      BY <1>3 DEF drain_limit, finish
    <2>2. UNCHANGED <<line, payload, identity, camera, handle>>  BY <1>1, <1>3 DEF drain_limit
    <2>3. Over' /\ OpenFileIsKnown'  BY <2>1 DEF Over, OpenFileIsKnown
    <2> QED BY <2>2, <2>3, OverStep
  <1>4. ASSUME state = "READING", NEW e \in Errors, Fail(e), UNCHANGED wireVars  PROVE SInv'
    <2>1. Over' /\ OpenFileIsKnown'  BY <1>0, <1>1, <1>4, FailHereOver
    <2> QED BY <1>1, <1>4, <2>1, OverStep
  <1>5. CASE deadline \/ command_timeout \/ uart_error
    BY <1>0, <1>4, <1>5 DEF deadline, command_timeout, uart_error, Running
  <1>6. CASE no_suffix
    <2>1. /\ state = "READING" /\ fail("NO_SUFFIX", phase, may_be_open, "none")
          /\ UNCHANGED <<line, payload, identity, camera, handle>>
      BY <1>6 DEF no_suffix, Running, resultVars, moduleVars
    <2>2. handle' => may_be_open  BY <1>0, <2>1 DEF OpenFileIsKnown
    <2>3. may_be_open \in BOOLEAN  BY DEF TypeOK
    <2>4. Over' /\ OpenFileIsKnown'  BY <1>0, <2>1, <2>2, <2>3, FailOver
    <2> QED BY <2>1, <2>4, OverStep
  <1>7. state = "READING" /\ phase = "DRAIN" => error # "NONE"  BY DEF SInv, Reads
  <1>8. CASE drain_discard
    <2>1. /\ state = "READING" /\ phase = "DRAIN" /\ line' \in {line, Tail(line)}
          /\ line = <<>> => line' = line
          /\ UNCHANGED <<state, error, cleanup_failed, phase, may_be_open, payload, identity,
                         camera, handle>>
      BY <1>8 DEF drain_discard, Draining, statusVars, resultVars, moduleVars
    <2>2. Over' /\ OpenFileIsKnown'
      BY <1>0, <1>7, <2>1 DEF Over, OpenFileIsKnown
    <2>3. CASE line' = line  BY <2>1, <2>2, <2>3, OverStep
    <2>4. CASE line # <<>> /\ line' = Tail(line)
      <3>1. Leave  BY <2>4 DEF Leave
      <3>2. Marked'  BY <2>1, <2>4, <3>1, TailMarked DEF SInv
      <3> QED BY <2>2, <3>2, OverSound DEF SInv
    <2> QED BY <2>1, <2>3, <2>4
  <1>9. CASE drain_quiet
    <2>1. /\ state = "READING" /\ phase = "DRAIN" /\ line = <<>> /\ phase' = "CLOSE"
          /\ UNCHANGED <<state, error, cleanup_failed, may_be_open, handle>>
          /\ UNCHANGED <<line, payload, identity, camera>>
      BY <1>9 DEF drain_quiet, Draining, statusVars, wireVars, resultVars, moduleVars
    <2>2. Marked'
      <3>1. camera' >= camera /\ camera' \in Nat  BY <2>1 DEF TypeOK
      <3> QED BY <2>1, <3>1, MarkedKept DEF SInv
    <2>3. Synchronised' /\ OpenedByOpen' /\ OpenFileIsKnown'
      BY <1>0, <2>1 DEF Synchronised, ThirdIsPN, SecondIsSN, LastIsFW, OnlyFresh,
                        OpenedByOpen, OpenFileIsKnown, Waits
    <2>4. Reads' /\ ResultIsGenuine'  BY <1>7, <2>1 DEF Reads, ResultIsGenuine
    <2> QED BY <2>2, <2>3, <2>4 DEF SInv
  <1> QED BY <1>2, <1>3, <1>5, <1>6, <1>8, <1>9

\* A module that is fitted has no file open, and is newer than all replies.
LEMMA ExchangeSound ==
  ASSUME TypeOK, SInv, exchange
  PROVE  SInv'
  <1>1. /\ ~handle' /\ camera' = camera + 1
        /\ UNCHANGED <<line, payload, identity, selected, length, state, error, phase, pending, tx>>
    BY DEF exchange, statusVars, phaseVars, resultVars, txVars
  <1>2. Marked'
    <2>1. camera' >= camera /\ camera' \in Nat  BY <1>1 DEF TypeOK
    <2> QED BY <1>1, <2>1, MarkedKept DEF SInv
  <1>3. Synchronised'
    <2>1. ThirdIsPN' /\ SecondIsSN'
      BY <1>1 DEF SInv, Synchronised, ThirdIsPN, SecondIsSN, AnswerTo, Waits
    <2>2. LastIsFW'  BY <1>1 DEF SInv, Synchronised, LastIsFW, AnswerTo, Waits
    <2>3. OnlyFresh'  BY <1>1 DEF SInv, Synchronised, OnlyFresh, Fresh, Serial
    <2> QED BY <2>1, <2>2, <2>3 DEF Synchronised
  <1>4. OpenedByOpen' /\ OpenFileIsKnown'  BY <1>1 DEF OpenedByOpen, OpenFileIsKnown
  <1>5. Pieces' = Pieces  BY <1>1 DEF Pieces
  <1>6. Reads'
    BY <1>1, <1>5 DEF SInv, Reads, PiecesMatch, EnoughPieces, PhaseOfKind, SameModule, Serial
  <1>7. ResultIsGenuine'  BY <1>1, <1>5 DEF SInv, ResultIsGenuine
  <1> QED BY <1>2, <1>3, <1>4, <1>6, <1>7 DEF SInv

\* A command that has not been sent completely leaves no doubt about the line.
LEMMA NotSent ==
  ASSUME SInv, state = "READING", ~(pending /\ tx = "all")
  PROVE  /\ phase = "BEFORE_SN" =>
              \A i \in DOMAIN line : i = 1 \/ AnswerTo(line[i], {"PN", "SN"})
         /\ phase = "BEFORE_FW" => \A i \in DOMAIN line : AnswerTo(line[i], {"PN", "SN"})
         /\ phase \in ReadPhases => line = <<>>
         /\ phase = "OPEN" => ~handle
  BY DEF SInv, Synchronised, SecondIsSN, LastIsFW, OnlyFresh, OpenedByOpen, Waits

\* While a command is put together or sent, nothing else changes.
LEMMA SendSound ==
  ASSUME TypeOK, CInv, SInv, state = "READING", ~(pending /\ tx = "all"),
         UNCHANGED <<state, error, cleanup_failed, phase, line, camera, handle>>,
         UNCHANGED resultVars, may_be_open => may_be_open',
         Waits("BEFORE_PN")' => Len(line) <= 2
  PROVE  SInv'
  <1>1. UNCHANGED <<payload, identity, selected, length>>  BY DEF resultVars
  <1>2. Marked'
    <2>1. camera' >= camera /\ camera' \in Nat  BY DEF TypeOK
    <2> QED BY <1>1, <2>1, MarkedKept DEF SInv
  <1>3. Synchronised' /\ OpenedByOpen'
    <2>0. ThirdIsPN'
      <3>1. line \in Seq(Replies)  BY DEF TypeOK
      <3>2. DOMAIN line = 1 .. Len(line) /\ Len(line) \in Nat  BY <3>1
      <3> QED BY <3>2 DEF ThirdIsPN
    <2>1. SecondIsSN'  BY NotSent DEF SecondIsSN, AnswerTo
    <2>2. LastIsFW'  BY NotSent DEF LastIsFW, AnswerTo
    <2>3. OnlyFresh'  BY NotSent DEF OnlyFresh
    <2>4. OpenedByOpen'  BY NotSent DEF OpenedByOpen
    <2> QED BY <2>0, <2>1, <2>2, <2>3, <2>4 DEF Synchronised
  <1>4. OpenFileIsKnown'  BY DEF SInv, OpenFileIsKnown
  <1>5. Pieces' = Pieces  BY <1>1 DEF Pieces
  <1>6. Reads'
    BY <1>1, <1>5 DEF SInv, Reads, PiecesMatch, EnoughPieces, PhaseOfKind, SameModule, Serial
  <1>7. ResultIsGenuine'  BY DEF ResultIsGenuine
  <1> QED BY <1>2, <1>3, <1>4, <1>6, <1>7 DEF SInv

\* What the module can answer to a command.
LEMMA AnswersParts ==
  ASSUME TypeOK, ModuleAssumption, NEW c \in Commands, NEW r \in Answers(c)
  PROVE  /\ r.command = c /\ r.from = camera
         /\ r \in Replies /\ Damaged \in Replies /\ r.outcome # "damaged"
         /\ c = "SN" => r.value \in {Unknown, camera}
         /\ c = "READ" /\ r.outcome = "ok" => r.value = Len(payload) + 1
  <1>1. CASE r = [command |-> c, outcome |-> "refused", value |-> Unknown, from |-> camera]
    BY <1>1, AnswersType
  <1>2. CASE \E v \in Values(c) :
               r = [command |-> c, outcome |-> "ok", value |-> v, from |-> camera]
    <2>1. PICK v \in Values(c) :
            r = [command |-> c, outcome |-> "ok", value |-> v, from |-> camera]
      BY <1>2
    <2>2. c = "SN" => Values(c) = {Unknown, camera}  BY Zenon DEF Values
    <2>3. c = "READ" => Values(c) = {Len(payload) + 1}  BY Zenon DEF Values
    <2> QED BY <2>1, <2>2, <2>3, AnswersType
  <1> QED BY <1>1, <1>2 DEF Answers

\* The answer to a command that has just been sent is the only one on the line,
\* once the transaction reads.
LEMMA AnswerSound ==
  ASSUME TypeOK, CInv, SInv, ModuleAssumption, TwoLateReplies,
         state = "READING", pending, tx # "all", tx' = "all", answer(command),
         UNCHANGED <<state, error, cleanup_failed, phase, pending, may_be_open, camera>>,
         UNCHANGED resultVars
  PROVE  SInv'
  <1>1. /\ UNCHANGED <<payload, identity, selected, length>>
        /\ Serial' = Serial
    BY DEF resultVars, Serial
  <1>2. command \in Commands /\ command = Asks[phase] /\ phase \in Phases \ {"DRAIN"}
    BY DEF TypeOK, CInv, PendingIsAsked
  <1>3. PICK r \in Answers(command) :
          /\ handle' = IF r.outcome = "ok" /\ command \in {"OPEN", "CLOSE"}
                       THEN command = "OPEN" ELSE handle
          /\ \/ line' = line
             \/ /\ Len(line) < MaxLine
                /\ line' \in {Append(line, r), Append(line, Damaged)}
    BY Zenon DEF answer
  <1>4. /\ r.command = command /\ r.from = camera
        /\ r \in Replies /\ Damaged \in Replies /\ r.outcome # "damaged"
        /\ command = "SN" => r.value \in {Unknown, camera}
        /\ command = "READ" /\ r.outcome = "ok" => r.value = Len(payload) + 1
    BY <1>2, AnswersParts
  <1>5. \E x \in {r, Damaged} : line' = line \/ line' = Append(line, x)
    BY <1>3
  <1>6. PICK x \in {r, Damaged} : line' = line \/ line' = Append(line, x)
    BY <1>5
  <1>7. /\ x \in Replies /\ x.from <= camera /\ AnswerTo(x, {command})
        /\ x.command = "SN" => x.value \in {Unknown, x.from}
        /\ x = r \/ x.outcome = "damaged"
    BY <1>4, Numbers DEF Damaged, AnswerTo
  <1>8. line \in Seq(Replies)  BY DEF TypeOK
  <1>9. /\ Len(line) \in Nat /\ DOMAIN line = 1 .. Len(line)
        /\ line = <<>> => Len(line) = 0
        /\ line # <<>> => Head(line) = line[1]
    BY <1>8
  <1>10. ASSUME line' = Append(line, x)
         PROVE  /\ Len(line') = Len(line) + 1 /\ line'[Len(line) + 1] = x
                /\ DOMAIN line' = 1 .. Len(line) + 1
                /\ \A i \in 1 .. Len(line) : line'[i] = line[i]
                /\ Head(line') = line'[1]
    BY <1>7, <1>8, <1>10, AppendParts
  <1>11. Marked'
    <2>1. \A i \in DOMAIN line' : (i \in DOMAIN line /\ line'[i] = line[i]) \/ line'[i] = x
      BY <1>6, <1>9, <1>10
    <2> QED BY <1>1, <1>7, <2>1 DEF SInv, Marked
  <1>12. \A i \in DOMAIN line' :
           (i \in DOMAIN line /\ line'[i] = line[i]) \/ (i = Len(line') /\ line'[i] = x)
    BY <1>6, <1>9, <1>10
  <1>13. ThirdIsPN' /\ SecondIsSN' /\ LastIsFW'
    <2>1. ThirdIsPN'
      <3> SUFFICES ASSUME phase = "BEFORE_PN"
                   PROVE  \A i \in DOMAIN line' : i <= 2 \/ AnswerTo(line'[i], {"PN"})
        BY DEF ThirdIsPN, Waits, AnswerTo
      <3>1. command = "PN"  BY <1>2 DEF Asks
      <3>2. \A i \in DOMAIN line : i <= 2  BY <1>9 DEF TwoLateReplies
      <3> QED BY <1>7, <1>12, <3>1, <3>2
    <2>2. SecondIsSN'
      <3> SUFFICES ASSUME phase = "BEFORE_SN"
                   PROVE  \A i \in DOMAIN line' : i = 1 \/ AnswerTo(line'[i], {"PN", "SN"})
        BY DEF SecondIsSN, AnswerTo
      <3>1. command = "SN"  BY <1>2 DEF Asks
      <3>2. \A i \in DOMAIN line : i = 1 \/ AnswerTo(line[i], {"PN", "SN"})  BY NotSent
      <3>3. AnswerTo(x, {"PN", "SN"})  BY <1>7, <3>1 DEF AnswerTo
      <3> QED BY <1>12, <3>2, <3>3
    <2>3. LastIsFW'
      <3> SUFFICES ASSUME phase = "BEFORE_FW"
                   PROVE  \A i \in DOMAIN line' :
                            \/ AnswerTo(line'[i], {"PN", "SN"})
                            \/ i = Len(line') /\ AnswerTo(line'[i], {"FW"})
        BY DEF LastIsFW, Waits, AnswerTo
      <3>1. command = "FW"  BY <1>2 DEF Asks
      <3>2. \A i \in DOMAIN line : AnswerTo(line[i], {"PN", "SN"})  BY NotSent
      <3> QED BY <1>7, <1>12, <3>1, <3>2
    <2> QED BY <2>1, <2>2, <2>3
  <1>14. OnlyFresh'
    <2> SUFFICES ASSUME phase \in ReadPhases, line' # <<>>
                 PROVE  /\ Len(line') = 1
                        /\ Head(line').outcome = "damaged" \/ Fresh(Head(line))'
      BY DEF OnlyFresh
    <2>1. line = <<>>  BY NotSent
    <2>2. line' = Append(line, x) /\ Len(line') = 1 /\ Head(line') = x
      BY <1>6, <1>9, <1>10, <2>1
    <2>3. CASE x = r
      <3>1. /\ Serial[1] = "SN" => Serial[2] <= r.from
            /\ \A j \in DOMAIN payload : payload[j].from <= r.from
        BY <1>4 DEF SInv, Marked
      <3>2. phase = "READ" => command = "READ"  BY <1>2 DEF Asks
      <3>3. ~(handle' /\ phase = "OPEN" /\ r.outcome = "refused")
        BY <1>3, NotSent
      <3>4. ~(handle' /\ phase = "CLOSE" /\ r.outcome = "ok")
        <4>1. phase = "CLOSE" => command = "CLOSE"  BY <1>2 DEF Asks
        <4> QED BY <1>3, <4>1
      <3>5. Head(line') = r  BY <2>2, <2>3
      <3>6. Fresh(Head(line))'
        BY <1>1, <1>2, <1>4, <3>1, <3>2, <3>3, <3>4, <3>5 DEF Fresh
      <3> QED BY <2>2, <3>6
    <2>4. CASE x.outcome = "damaged"  BY <2>2, <2>4
    <2> QED BY <1>7, <2>3, <2>4
  <1>15. OpenedByOpen' /\ OpenFileIsKnown'
    <2>1. handle' => handle \/ command = "OPEN"  BY <1>3
    <2>2. command = "OPEN" => may_be_open
      BY <1>2, Tables DEF CInv, PendingIsAsked
    <2> QED BY <2>1, <2>2 DEF SInv, OpenFileIsKnown, OpenedByOpen
  <1>16. Reads' /\ ResultIsGenuine'
    <2>1. Pieces' = Pieces  BY <1>1 DEF Pieces
    <2> QED BY <1>1, <2>1
        DEF SInv, Reads, PiecesMatch, EnoughPieces, PhaseOfKind, SameModule, ResultIsGenuine
  <1> QED BY <1>11, <1>13, <1>14, <1>15, <1>16 DEF SInv, Synchronised

\* Commands are put together and sent.
LEMMA CommandSound ==
  ASSUME TypeOK, CInv, SInv, ModuleAssumption, TwoLateReplies, issue \/ transmit
  PROVE  SInv'
  <1>1. CASE issue
    <2>1. /\ state = "READING" /\ ~pending
          /\ UNCHANGED <<state, error, cleanup_failed, phase, line, camera, handle>>
          /\ UNCHANGED resultVars
          /\ may_be_open => may_be_open'
          /\ ~Waits("BEFORE_PN")'
      BY <1>1 DEF issue, Running, statusVars, Waits
    <2> QED BY <2>1, SendSound
  <1>2. CASE transmit
    <2>1. /\ state = "READING" /\ pending /\ tx # "all"
          /\ UNCHANGED <<state, error, cleanup_failed, phase, pending, may_be_open>>
          /\ UNCHANGED resultVars
      BY <1>2 DEF transmit, Running, statusVars, phaseVars
    <2>2. CASE UNCHANGED <<line, camera, handle>>
      <3>1. Waits("BEFORE_PN")' => Len(line) <= 2  BY <2>1 DEF Waits, TwoLateReplies
      <3> QED BY <2>1, <2>2, <3>1, SendSound
    <2>3. CASE tx' = "all" /\ answer(command) /\ UNCHANGED camera
      BY <2>1, <2>3, AnswerSound
    <2> QED BY <1>2, <2>2, <2>3 DEF transmit, module_hears, moduleVars
  <1> QED BY <1>1, <1>2

\* A reply that ends the transaction, or its reading, is taken from the line.
LEMMA FailingReply ==
  ASSUME TypeOK, CInv, SInv, ModuleAssumption,
         state = "READING", line # <<>>, Leave,
         UNCHANGED <<payload, identity, camera, handle>>,
         NEW e \in Errors, NEW p, NEW open \in BOOLEAN, NEW sent, fail(e, p, open, sent),
         handle => open
  PROVE  SInv'
  <1>1. Over' /\ OpenFileIsKnown'  BY FailOver
  <1>2. Marked'  BY TailMarked DEF SInv
  <1> QED BY <1>1, <1>2, OverSound DEF SInv

\* An open file is known while the transaction reads.
LEMMA HandleKnown ==
  ASSUME CInv, SInv, state = "READING"
  PROVE  handle => may_be_open
  BY DEF CInv, LockedIsOver, SInv, OpenFileIsKnown

\* What a reply taken in a reading phase is: the answer to the command.
LEMMA FreshReply ==
  ASSUME SInv, state = "READING", phase \in ReadPhases, line # <<>>,
         Head(line).outcome # "damaged"
  PROVE  Len(line) = 1 /\ Fresh(Head(line))
  BY DEF SInv, Synchronised, OnlyFresh

\* Frames that are refused end the transaction.
LEMMA RefusalSound ==
  ASSUME TypeOK, CInv, SInv, ModuleAssumption, bad_frame \/ unwanted
  PROVE  SInv'
  <1>0. {"BAD_FRAME", "BAD_LENGTH"} \subseteq Errors  BY DEF Errors
  <1>1. /\ state = "READING" /\ line # <<>> /\ Leave
        /\ UNCHANGED <<payload, identity, camera, handle>>
    BY DEF bad_frame, unwanted, Arrived, Running, Leave, resultVars, moduleVars
  <1>2. PICK e \in Errors : Fail(e)
    <2>1. CASE bad_frame  BY <1>0, <2>1 DEF bad_frame
    <2>2. CASE unwanted
      <3>1. Fail("BAD_LENGTH") \/ (error # "NONE" /\ Fail(error))  BY <2>2 DEF unwanted
      <3>2. error # "NONE" => error \in Errors  BY DEF TypeOK
      <3> QED BY <1>0, <3>1, <3>2
    <2> QED BY <2>1, <2>2
  <1>3. may_be_open \in BOOLEAN /\ (handle => may_be_open)  BY <1>1, HandleKnown DEF TypeOK
  <1> QED BY <1>1, <1>2, <1>3, FailingReply DEF Fail

\* Going on: the line is empty where the transaction reads, and no file is open where
\* it is about to open one.
LEMMA ProceedSound ==
  ASSUME TypeOK, CInv, SInv, ModuleAssumption,
         state = "READING", state' = "READING", UNCHANGED <<error, cleanup_failed>>,
         UNCHANGED may_be_open \/ ~handle,
         UNCHANGED <<camera, handle>>, Marked', Reads',
         phase' \in Phases \ {"BEFORE_PN", "DRAIN"},
         phase' = "BEFORE_SN" =>
           \A i \in DOMAIN line' : i = 1 \/ AnswerTo(line'[i], {"PN", "SN"}),
         phase' = "BEFORE_FW" =>
           \A i \in DOMAIN line' : AnswerTo(line'[i], {"PN", "SN"}),
         phase' \in ReadPhases => line' = <<>>,
         phase' = "OPEN" => ~may_be_open
  PROVE  SInv'
  <1>1. Synchronised'
    <2>1. ThirdIsPN' /\ OnlyFresh'  BY DEF ThirdIsPN, OnlyFresh, Waits
    <2>2. SecondIsSN' /\ LastIsFW'  BY DEF SecondIsSN, LastIsFW, AnswerTo
    <2> QED BY <2>1, <2>2 DEF Synchronised
  <1>2. OpenFileIsKnown' /\ OpenedByOpen'
    BY HandleKnown DEF OpenFileIsKnown, OpenedByOpen, SInv
  <1>3. ResultIsGenuine'  BY DEF ResultIsGenuine
  <1> QED BY <1>1, <1>2, <1>3 DEF SInv

\* The names, numbers and order of the pieces.
LEMMA PiecesParts ==
  ASSUME TypeOK
  PROVE  /\ selected = "state" =>
               /\ Len(Pieces) = 4 /\ Pieces[1] = "GAIN" /\ Pieces[2] = "VTEMP"
               /\ Pieces[3] = "FFC" /\ Pieces[4] = "SHUTTER"
         /\ selected = "parameters" => Len(Pieces) = 1 /\ Pieces[1] = "PARAMETERS"
         /\ selected \notin {"state", "parameters"} =>
               /\ Len(Pieces) = length
               /\ \A i \in 1 .. length : Pieces[i] = "READ"
  <1>1. ASSUME selected = "state"
        PROVE  Pieces = <<"GAIN", "VTEMP", "FFC", "SHUTTER">>
    BY <1>1, Zenon DEF Pieces
  <1>2. ASSUME selected = "parameters"  PROVE Pieces = <<"PARAMETERS">>
    BY <1>2, Zenon DEF Pieces
  <1>3. ASSUME selected \notin {"state", "parameters"}
        PROVE  Pieces = [i \in 1 .. length |-> "READ"]
    BY <1>3, Zenon DEF Pieces
  <1>4. length \in Nat  BY DEF TypeOK
  <1>5. Len([i \in 1 .. length |-> "READ"]) = length
    BY <1>4
  <1>6. selected = "state" =>
          /\ Len(Pieces) = 4 /\ Pieces[1] = "GAIN" /\ Pieces[2] = "VTEMP"
          /\ Pieces[3] = "FFC" /\ Pieces[4] = "SHUTTER"
    BY <1>1
  <1>7. selected = "parameters" => Len(Pieces) = 1 /\ Pieces[1] = "PARAMETERS"
    BY <1>2
  <1>8. selected \notin {"state", "parameters"} =>
          Len(Pieces) = length /\ \A i \in 1 .. length : Pieces[i] = "READ"
    BY <1>3, <1>5
  <1> QED BY <1>6, <1>7, <1>8, Zenon

\* (Steps that count and look up a table at once are beyond the provers.)
LEMMA OneMore ==
  /\ \A n : n = 0 => n + 1 = 1 /\ n + 1 <= 4
  /\ \A n : n = 1 => n + 1 = 2 /\ n + 1 <= 4
  /\ \A n : n = 2 => n + 1 = 3 /\ n + 1 <= 4
  /\ \A n : n = 3 => n + 1 = 4 /\ n + 1 <= 4
  OBVIOUS

\* A reply that is kept as the next piece.
LEMMA KeepMatch ==
  ASSUME TypeOK, PiecesMatch, NEW r \in Replies, Keep(r), UNCHANGED <<selected, length>>,
         Len(payload) + 1 <= Len(Pieces),
         r.outcome = "ok" =>
           /\ r.command = Pieces[Len(payload) + 1]
           /\ Pieces[Len(payload) + 1] = "READ" => r.value = Len(payload) + 1
  PROVE  PiecesMatch' /\ Len(payload') = Len(payload) + 1 /\ Pieces' = Pieces
  <1>1. Pieces' = Pieces  BY DEF Pieces
  <1>2. payload \in Seq(Replies) /\ payload' = Append(payload, r)  BY DEF TypeOK, Keep
  <1>3. /\ Len(payload') = Len(payload) + 1
        /\ payload'[Len(payload) + 1] = r
        /\ DOMAIN payload' = 1 .. Len(payload) + 1
        /\ \A i \in 1 .. Len(payload) : payload'[i] = payload[i]
    BY <1>2, AppendParts
  <1>4. DOMAIN payload = 1 .. Len(payload) /\ Len(payload) \in Nat  BY <1>2
  <1>5. ASSUME NEW j \in DOMAIN payload'
        PROVE  /\ j <= Len(Pieces)
               /\ payload'[j].outcome = "ok" =>
                    /\ payload'[j].command = Pieces[j]
                    /\ Pieces[j] = "READ" => payload'[j].value = j
    <2>1. CASE j \in DOMAIN payload
      <3>1. payload'[j] = payload[j]  BY <1>3, <1>4, <2>1
      <3> QED BY <2>1, <3>1 DEF PiecesMatch
    <2>2. CASE j = Len(payload) + 1  BY <1>3, <2>2
    <2> QED BY <1>3, <1>4, <2>1, <2>2
  <1> QED BY <1>1, <1>3, <1>5 DEF PiecesMatch

\* ... is of a module not older than the pieces before it.
LEMMA KeepMarked ==
  ASSUME TypeOK, ModuleAssumption, SInv, state = "READING", phase \in ReadPhases, line # <<>>,
         Head(line).outcome # "damaged", line' = Tail(line), Keep(Head(line)),
         UNCHANGED <<identity, camera>>
  PROVE  Marked' /\ line' = <<>>
  <1>1. Len(line) = 1 /\ Fresh(Head(line))  BY FreshReply
  <1>2. line \in Seq(Replies) /\ payload \in Seq(Replies)  BY DEF TypeOK
  <1>3. Head(line) \in Replies /\ Head(line) = line[1] /\ 1 \in DOMAIN line /\ line' = <<>>
    BY <1>1, <1>2, TailParts
  <1>4. /\ DOMAIN payload' = 1 .. Len(payload) + 1
        /\ payload'[Len(payload) + 1] = Head(line)
        /\ \A i \in 1 .. Len(payload) : payload'[i] = payload[i]
    BY <1>2, <1>3, AppendParts DEF Keep
  <1>5. DOMAIN payload = 1 .. Len(payload) /\ Len(payload) \in Nat  BY <1>2
  <1>6. \A j \in DOMAIN payload' :
          (j \in DOMAIN payload /\ payload'[j] = payload[j]) \/ payload'[j] = Head(line)
    BY <1>4, <1>5
  <1>7. Head(line).from <= camera  BY <1>3 DEF SInv, Marked
  <1>8. Serial[1] = "SN" => Serial[2] <= Head(line).from  BY <1>1 DEF Fresh
  <1>9. Serial' = Serial  BY DEF Serial
  <1>10. \A j \in DOMAIN payload' : payload'[j].from <= camera
    BY <1>6, <1>7 DEF SInv, Marked
  <1>11. Serial[1] = "SN" =>
           Serial[2] <= camera /\ \A j \in DOMAIN payload' : Serial[2] <= payload'[j].from
    BY <1>6, <1>8 DEF SInv, Marked
  <1>12. \A i \in DOMAIN line' :
           /\ line'[i].from <= camera'
           /\ line'[i].command = "SN" => line'[i].value \in {Unknown, line'[i].from}
    BY <1>3
  <1> QED BY <1>3, <1>9, <1>10, <1>11, <1>12 DEF Marked

\* What is known when a reply is accepted, or refuses a command.
LEMMA Taking ==
  ASSUME TypeOK, ModuleAssumption, SInv, Arrived, line' = Tail(line),
         Head(line).outcome # "damaged", UNCHANGED <<payload, identity, camera>>
  PROVE  /\ state = "READING" /\ line # <<>> /\ Leave /\ Head(line) \in Replies
         /\ Head(line) = line[1] /\ 1 \in DOMAIN line
         /\ Marked'
         /\ phase \in ReadPhases => Len(line) = 1 /\ line' = <<>> /\ Fresh(Head(line))
  <1>1. /\ state = "READING" /\ line # <<>> /\ Leave
    BY DEF Arrived, Running, Leave
  <1>2. line \in Seq(Replies)  BY DEF TypeOK
  <1>3. Head(line) \in Replies /\ Head(line) = line[1] /\ 1 \in DOMAIN line
    BY <1>1, <1>2, TailParts
  <1>4. Marked'  BY <1>1, TailMarked DEF SInv
  <1>5. phase \in ReadPhases => Len(line) = 1 /\ Fresh(Head(line))  BY <1>1, FreshReply
  <1>6. Len(line) = 1 => line' = <<>>  BY <1>1, <1>2, TailParts
  <1> QED BY <1>1, <1>3, <1>4, <1>5, <1>6

\* A refusal is the answer to the command, once the transaction reads.
LEMMA RefusedSound ==
  ASSUME TypeOK, CInv, SInv, ModuleAssumption, refused
  PROVE  SInv'
  <1>0. {"MODULE_ERROR", "IDENTITY"} \subseteq Errors  BY DEF Errors
  <1>1. /\ Arrived /\ tx = "all" /\ Head(line).outcome = "refused" /\ line' = Tail(line)
        /\ UNCHANGED <<selected, length, identity, camera, handle>>
    BY DEF refused, moduleVars
  <1>2. /\ state = "READING" /\ line # <<>> /\ Leave /\ phase # "DRAIN"
        /\ phase \in Phases /\ may_be_open \in BOOLEAN
    BY <1>1 DEF Arrived, Running, Leave, TypeOK
  <1>3. handle => may_be_open  BY <1>2, HandleKnown
  <1>4. phase \in StatePhases => phase \in ReadPhases /\ ~may_be_open
    BY <1>2 DEF StatePhases, ReadPhases, CInv, OpenInFilePhases, FilePhases
  <1>5. CASE fail("MODULE_ERROR", phase, may_be_open /\ phase # "OPEN", tx) /\ UNCHANGED payload
    <2>1. phase = "OPEN" => ~handle
      <3>1. SUFFICES ASSUME phase = "OPEN"  PROVE ~handle  OBVIOUS
      <3>2. phase \in ReadPhases  BY <1>2, <3>1 DEF ReadPhases
      <3>3. Fresh(Head(line))  BY <1>1, <1>2, <3>2, FreshReply
      <3> QED BY <1>1, <3>1, <3>3 DEF Fresh
    <2>2. handle => may_be_open /\ phase # "OPEN"  BY <1>3, <2>1
    <2>3. (may_be_open /\ phase # "OPEN") \in BOOLEAN  OBVIOUS
    <2> QED BY <1>0, <1>1, <1>2, <1>5, <2>2, <2>3, FailingReply
  <1>6. CASE fail("IDENTITY", "AFTER_PN", may_be_open, tx) /\ UNCHANGED payload
    BY <1>0, <1>1, <1>2, <1>3, <1>6, FailingReply
  <1>7. CASE /\ phase \in StatePhases \ {"STATE_GAIN_AFTER"}
             /\ phase' = Following[phase]
             /\ Keep(Head(line))
             /\ UNCHANGED <<statusVars, may_be_open, drained>>
    <2>1. Marked' /\ line' = <<>>
      BY <1>1, <1>2, <1>4, <1>7, KeepMarked
    <2>2. Head(line) \in Replies
      <3>1. line \in Seq(Replies)  BY DEF TypeOK
      <3> QED BY <1>2, <3>1, TailParts
    <2>3. UNCHANGED <<state, error, cleanup_failed, may_be_open>>  BY <1>7 DEF statusVars
    <2>4. /\ phase' \in {"STATE_VTEMP", "STATE_FFC", "STATE_SHUTTER", "STATE_GAIN_AFTER"}
          /\ phase = "STATE_GAIN" => phase' = "STATE_VTEMP"
          /\ phase = "STATE_VTEMP" => phase' = "STATE_FFC"
          /\ phase = "STATE_FFC" => phase' = "STATE_SHUTTER"
          /\ phase = "STATE_SHUTTER" => phase' = "STATE_GAIN_AFTER"
      BY <1>7 DEF StatePhases, Following
    <2>5. Reads'
      <3>1. SUFFICES ASSUME error = "NONE"
                     PROVE  PiecesMatch' /\ EnoughPieces' /\ PhaseOfKind' /\ SameModule'
        BY <2>3, <2>4 DEF Reads
      <3>2. PiecesMatch /\ EnoughPieces /\ PhaseOfKind /\ SameModule
        BY <1>2, <3>1 DEF SInv, Reads
      <3>3. selected = "state" /\ Len(Pieces) = 4
        BY <1>7, <3>2, PiecesParts DEF PhaseOfKind
      <3>0. Len(payload) \in Nat  BY DEF TypeOK
      <3>4. /\ phase = "STATE_GAIN" => Len(payload) = 0
            /\ phase = "STATE_VTEMP" => Len(payload) = 1
            /\ phase = "STATE_FFC" => Len(payload) = 2
            /\ phase = "STATE_SHUTTER" => Len(payload) = 3
        BY <3>2 DEF EnoughPieces
      <3>5. \/ Len(payload) = 0 /\ phase' = "STATE_VTEMP"
            \/ Len(payload) = 1 /\ phase' = "STATE_FFC"
            \/ Len(payload) = 2 /\ phase' = "STATE_SHUTTER"
            \/ Len(payload) = 3 /\ phase' = "STATE_GAIN_AFTER"
        BY <1>7, <2>4, <3>4 DEF StatePhases
      <3>6. /\ Len(payload) + 1 <= 4
            /\ \/ Len(payload) + 1 = 1 /\ phase' = "STATE_VTEMP"
               \/ Len(payload) + 1 = 2 /\ phase' = "STATE_FFC"
               \/ Len(payload) + 1 = 3 /\ phase' = "STATE_SHUTTER"
               \/ Len(payload) + 1 = 4 /\ phase' = "STATE_GAIN_AFTER"
        BY <3>5, OneMore, Zenon
      <3>9. PiecesMatch' /\ Len(payload') = Len(payload) + 1
        <4>1. Len(payload) + 1 <= Len(Pieces)  BY <3>3, <3>6
        <4> QED BY <1>1, <1>7, <2>2, <3>2, <4>1, KeepMatch
      <3>10. EnoughPieces'  BY <3>6, <3>9 DEF EnoughPieces
      <3>7. PhaseOfKind'  BY <1>1, <2>4, <3>3 DEF PhaseOfKind, StatePhases
      <3>8. SameModule'
        BY <1>1, <1>7, <2>4, <3>2 DEF SameModule, Serial, StatePhases
      <3> QED BY <3>7, <3>8, <3>9, <3>10
    <2> QED BY <1>1, <1>2, <2>1, <2>3, <2>4, <2>5, ProceedSound, Tables
  <1>8. CASE /\ phase = "STATE_GAIN_AFTER" /\ phase' = "AFTER_PN"
             /\ UNCHANGED <<statusVars, may_be_open, drained, payload>>
    <2>1. Marked' /\ line' = <<>>
      BY <1>1, <1>4, <1>8, Taking DEF StatePhases
    <2>2. UNCHANGED <<state, error, cleanup_failed, may_be_open>>  BY <1>8 DEF statusVars
    <2>3. Reads'
      <3>1. SUFFICES ASSUME error = "NONE"
                     PROVE  PiecesMatch' /\ EnoughPieces' /\ PhaseOfKind' /\ SameModule'
        BY <2>2, <1>8 DEF Reads
      <3>2. PiecesMatch /\ EnoughPieces /\ PhaseOfKind /\ SameModule
        BY <1>2, <3>1 DEF SInv, Reads
      <3>3. Len(payload) = Len(Pieces)
        BY <1>8, <3>2, PiecesParts DEF PhaseOfKind, EnoughPieces, StatePhases
      <3>4. Pieces' = Pieces  BY <1>1 DEF Pieces
      <3> QED BY <1>1, <1>8, <3>2, <3>3, <3>4
          DEF PiecesMatch, EnoughPieces, PhaseOfKind, SameModule, Serial, StatePhases
    <2> QED BY <1>1, <1>2, <1>8, <2>1, <2>2, <2>3, ProceedSound, Tables
  <1> QED BY <1>5, <1>6, <1>7, <1>8 DEF refused

\* What an answer that is accepted has in common.
LEMMA Accepting ==
  ASSUME TypeOK, ModuleAssumption, SInv, NEW p, Accepts(p)
  PROVE  /\ Arrived /\ state = "READING" /\ phase = p /\ line # <<>> /\ pending
         /\ error = "NONE" \/ p = "CLOSE"
         /\ line' = Tail(line) /\ Leave
         /\ Head(line).outcome = "ok" /\ Head(line) \in Replies
         /\ DataBytes[Head(line).command] = DataBytes[Asks[p]]
         /\ p \in ReadPhases => line' = <<>> /\ Fresh(Head(line))
         /\ UNCHANGED <<camera, handle>>
  <1>1. /\ Arrived /\ tx = "all" /\ phase = p
        /\ Head(line).outcome = "ok"
        /\ Bytes(Head(line)) = DataBytes[Asks[p]]
        /\ error = "NONE" \/ p = "CLOSE"
        /\ line' = Tail(line)
        /\ UNCHANGED <<txVars, moduleVars>>
    BY DEF Accepts
  <1>2. line # <<>> /\ state = "READING" /\ pending /\ Leave
    BY <1>1 DEF Arrived, Running, Leave
  <1>3. line \in Seq(Replies)  BY DEF TypeOK
  <1>4. Head(line) \in Replies  BY <1>2, <1>3, TailParts
  <1>5. p \in ReadPhases => Len(line) = 1 /\ Fresh(Head(line))  BY <1>1, <1>2, FreshReply
  <1>6. Len(line) = 1 => line' = <<>>  BY <1>1, <1>2, <1>3, TailParts
  <1> QED BY <1>1, <1>2, <1>4, <1>5, <1>6 DEF Bytes, moduleVars

\* An accepted answer that ends the reading.
LEMMA AcceptedFails ==
  ASSUME TypeOK, CInv, SInv, ModuleAssumption, NEW p, Accepts(p), NEW e \in Errors, Fail(e),
         UNCHANGED <<payload, identity>>
  PROVE  SInv'
  <1>1. /\ state = "READING" /\ line # <<>> /\ Leave /\ UNCHANGED <<camera, handle>>
    BY Accepting
  <1>2. may_be_open \in BOOLEAN /\ (handle => may_be_open)  BY <1>1, HandleKnown DEF TypeOK
  <1> QED BY <1>1, <1>2, FailingReply DEF Fail

\* ... and one that goes on without being kept.
LEMMA AcceptedMarked ==
  ASSUME TypeOK, ModuleAssumption, SInv, NEW p, Accepts(p), UNCHANGED <<payload, identity>>
  PROVE  Marked'
  <1>1. /\ line # <<>> /\ Leave /\ UNCHANGED <<camera, handle>>  BY Accepting
  <1> QED BY <1>1, TailMarked DEF SInv

\* Each answer, phase by phase: a piece of the parameters or the snapshot, ...
LEMMA QuerySound ==
  ASSUME TypeOK, CInv, SInv, ModuleAssumption, query
  PROVE  SInv'
  <1>0. Len(payload) \in Nat  BY DEF TypeOK
  <1>1. PICK p \in QueryPhases \ {"STATE_GAIN_AFTER"} :
          /\ Accepts(p) /\ Keep(Head(line)) /\ Proceed(Following[p])
          /\ UNCHANGED <<transaction, selected, length, identity>>
    BY DEF query
  <1>2. p \in ReadPhases /\ p # "DRAIN" /\ p \notin FilePhases
    BY DEF QueryPhases, StatePhases, ReadPhases, FilePhases, Tables, Phases, Asks
  <1>3. /\ state = "READING" /\ phase = p /\ line # <<>> /\ error = "NONE"
        /\ line' = Tail(line) /\ line' = <<>> /\ Fresh(Head(line))
        /\ Head(line).outcome = "ok" /\ Head(line) \in Replies
        /\ UNCHANGED <<camera, handle>>
    BY <1>1, <1>2, Accepting DEF QueryPhases, StatePhases
  <1>4. /\ UNCHANGED <<state, error, cleanup_failed, may_be_open>>
        /\ phase' = Following[p]
    BY <1>1 DEF Proceed, statusVars
  <1>5. /\ p = "PARAMETERS" => phase' = "AFTER_PN"
        /\ p = "STATE_GAIN" => phase' = "STATE_VTEMP"
        /\ p = "STATE_VTEMP" => phase' = "STATE_FFC"
        /\ p = "STATE_FFC" => phase' = "STATE_SHUTTER"
        /\ p = "STATE_SHUTTER" => phase' = "STATE_GAIN_AFTER"
        /\ p \in {"PARAMETERS", "STATE_GAIN", "STATE_VTEMP", "STATE_FFC", "STATE_SHUTTER"}
    BY <1>4 DEF Following, QueryPhases, StatePhases
  <1>6. Marked'
    BY <1>1, <1>2, <1>3, KeepMarked
  <1>7. PiecesMatch /\ EnoughPieces /\ PhaseOfKind /\ SameModule
    BY <1>3 DEF SInv, Reads
  <1>8. /\ p = "PARAMETERS" => selected = "parameters" /\ Len(payload) = 0
        /\ p = "STATE_GAIN" => Len(payload) = 0
        /\ p = "STATE_VTEMP" => Len(payload) = 1
        /\ p = "STATE_FFC" => Len(payload) = 2
        /\ p = "STATE_SHUTTER" => Len(payload) = 3
        /\ p # "PARAMETERS" => selected = "state"
    BY <1>3, <1>5, <1>7 DEF EnoughPieces, PhaseOfKind, StatePhases
  <1>9. /\ Head(line).command = Pieces[Len(payload) + 1] /\ Pieces[Len(payload) + 1] # "READ"
        /\ Len(payload) + 1 <= Len(Pieces)
    <2>1. Head(line).command = Asks[p]  BY <1>3 DEF Fresh
    <2>2. CASE p = "PARAMETERS"
      <3>0. Len(payload) = 0  BY <1>8, <2>2
      <3>1. Len(payload) + 1 = 1  BY <3>0
      <3> QED BY <1>8, <2>1, <2>2, <3>1, PiecesParts DEF Asks
    <2>3. CASE p = "STATE_GAIN"
      <3>0. Len(payload) = 0  BY <1>8, <2>3
      <3>1. Len(payload) + 1 = 1  BY <3>0
      <3> QED BY <1>8, <2>1, <2>3, <3>1, PiecesParts DEF Asks
    <2>4. CASE p = "STATE_VTEMP"
      <3>0. Len(payload) = 1  BY <1>8, <2>4
      <3>1. Len(payload) + 1 = 2  BY <3>0
      <3> QED BY <1>8, <2>1, <2>4, <3>1, PiecesParts DEF Asks
    <2>5. CASE p = "STATE_FFC"
      <3>0. Len(payload) = 2  BY <1>8, <2>5
      <3>1. Len(payload) + 1 = 3  BY <3>0
      <3> QED BY <1>8, <2>1, <2>5, <3>1, PiecesParts DEF Asks
    <2>6. CASE p = "STATE_SHUTTER"
      <3>0. Len(payload) = 3  BY <1>8, <2>6
      <3>1. Len(payload) + 1 = 4  BY <3>0
      <3> QED BY <1>8, <2>1, <2>6, <3>1, PiecesParts DEF Asks
    <2> QED BY <1>5, <2>2, <2>3, <2>4, <2>5, <2>6
  <1>10. PiecesMatch' /\ Len(payload') = Len(payload) + 1 /\ Pieces' = Pieces
    BY <1>1, <1>3, <1>7, <1>9, KeepMatch
  <1>11. EnoughPieces'
    <2>1. \/ Len(payload) = 0 /\ phase' = "AFTER_PN" /\ Len(Pieces) = 1
          \/ Len(payload) = 0 /\ phase' = "STATE_VTEMP"
          \/ Len(payload) = 1 /\ phase' = "STATE_FFC"
          \/ Len(payload) = 2 /\ phase' = "STATE_SHUTTER"
          \/ Len(payload) = 3 /\ phase' = "STATE_GAIN_AFTER"
      BY <1>5, <1>8, PiecesParts
    <2>2. \/ Len(payload) + 1 = 1 /\ phase' = "AFTER_PN" /\ Len(Pieces) = 1
          \/ Len(payload) + 1 = 1 /\ phase' = "STATE_VTEMP"
          \/ Len(payload) + 1 = 2 /\ phase' = "STATE_FFC"
          \/ Len(payload) + 1 = 3 /\ phase' = "STATE_SHUTTER"
          \/ Len(payload) + 1 = 4 /\ phase' = "STATE_GAIN_AFTER"
      BY <2>1, OneMore, Zenon
    <2> QED BY <1>10, <2>2 DEF EnoughPieces
  <1>12. PhaseOfKind'
    BY <1>1, <1>5, <1>8 DEF PhaseOfKind, StatePhases
  <1>13. SameModule'
    BY <1>1, <1>3, <1>5, <1>7 DEF SameModule, Serial
  <1>14. Reads'
    BY <1>5, <1>10, <1>11, <1>12, <1>13 DEF Reads
  <1> QED BY <1>3, <1>4, <1>5, <1>6, <1>14, ProceedSound, Tables

\* ... an opened file, ...
LEMMA OpenedSound ==
  ASSUME TypeOK, CInv, SInv, ModuleAssumption, opened
  PROVE  SInv'
  <1>1. /\ Accepts("OPEN") /\ Proceed("INFO")
        /\ UNCHANGED <<selected, length, identity, payload>>
    BY DEF opened, resultVars
  <1>2. "OPEN" \in ReadPhases  BY Tables DEF ReadPhases
  <1>3. /\ state = "READING" /\ phase = "OPEN" /\ line' = <<>> /\ UNCHANGED <<camera, handle>>
        /\ error = "NONE"
    BY <1>1, <1>2, Accepting
  <1>4. /\ UNCHANGED <<state, error, cleanup_failed, may_be_open>>
        /\ phase' = "INFO"
    BY <1>1 DEF Proceed, statusVars
  <1>5. Marked'  BY <1>1, AcceptedMarked
  <1>6. Reads'
    <2>1. PiecesMatch /\ EnoughPieces /\ PhaseOfKind /\ SameModule
      BY <1>3 DEF SInv, Reads
    <2>2. Pieces' = Pieces  BY <1>1 DEF Pieces
    <2> QED BY <1>1, <1>3, <1>4, <2>1, <2>2
        DEF Reads, PiecesMatch, EnoughPieces, PhaseOfKind, SameModule, Serial, StatePhases
  <1> QED BY <1>3, <1>4, <1>5, <1>6, ProceedSound, Tables

\* The first phase of the reading.
LEMMA FirstReadParts ==
  /\ selected = "state" => FirstRead = "STATE_GAIN"
  /\ selected = "parameters" => FirstRead = "PARAMETERS"
  /\ selected \notin {"state", "parameters"} => FirstRead = "OPEN"
  BY Zenon DEF FirstRead

\* ... the module before the read, where the line is emptied, ...
LEMMA BeforeSound ==
  ASSUME TypeOK, CInv, SInv, ModuleAssumption, identity_before
  PROVE  SInv'
  <1>1. PICK p \in {"BEFORE_PN", "BEFORE_SN", "BEFORE_FW"} :
          /\ Accepts(p)
          /\ identity' = [identity EXCEPT ![Asks[p]] = Raw(Head(line))]
          /\ \/ /\ p # "BEFORE_FW" /\ Head(line).value = Unknown
                /\ Fail("IDENTITY")
             \/ /\ p # "BEFORE_FW" /\ Head(line).value # Unknown
                /\ Proceed(Following[p])
             \/ p = "BEFORE_FW" /\ Proceed(FirstRead)
          /\ UNCHANGED <<transaction, selected, length, payload>>
    BY DEF identity_before
  <1>2. /\ state = "READING" /\ phase = p /\ line # <<>> /\ error = "NONE"
        /\ line' = Tail(line) /\ Leave
        /\ Head(line).outcome = "ok" /\ Head(line) \in Replies
        /\ DataBytes[Head(line).command] = DataBytes[Asks[p]]
        /\ UNCHANGED <<camera, handle>>
    BY <1>1, Accepting
  <1>3. PiecesMatch /\ payload = <<>> /\ SameModule
    BY <1>1, <1>2 DEF SInv, Reads, EnoughPieces
  <1>4. line \in Seq(Replies)  BY DEF TypeOK
  <1>5. /\ Head(line) = line[1] /\ 1 \in DOMAIN line /\ Len(line) \in Nat
        /\ Tail(line) \in Seq(Replies) /\ Len(line') = Len(line) - 1
        /\ Len(line) = 1 => line' = <<>>
        /\ \A i \in DOMAIN line' :
             i \in Nat \ {0} /\ i + 1 \in DOMAIN line /\ line'[i] = line[i + 1]
    BY <1>2, <1>4, TailParts
  <1>6. /\ Serial' = IF p = "BEFORE_SN" THEN Raw(Head(line)) ELSE Serial
    BY <1>1 DEF Serial, Asks, TypeOK
  <1>7. Marked'
    <2>1. \A i \in DOMAIN line' :
            /\ line'[i].from <= camera'
            /\ line'[i].command = "SN" => line'[i].value \in {Unknown, line'[i].from}
      BY <1>2, TailLine DEF SInv
    <2>2. Head(line).command = "SN" => Head(line).value <= camera
      <3>1. /\ Head(line).from <= camera
            /\ Head(line).command = "SN" => Head(line).value \in {Unknown, Head(line).from}
        BY <1>5 DEF SInv, Marked
      <3>2. Unknown <= camera  BY Numbers DEF Unknown
      <3> QED BY <3>1, <3>2
    <2>3. Serial'[1] = "SN" => Serial'[2] <= camera
      <3>1. CASE p = "BEFORE_SN"  BY <1>6, <2>2, <3>1 DEF Raw
      <3>2. CASE p # "BEFORE_SN"  BY <1>6, <3>2 DEF SInv, Marked
      <3> QED BY <3>1, <3>2
    <2>4. payload' = <<>>  BY <1>1, <1>3
    <2> QED BY <1>2, <2>1, <2>3, <2>4 DEF Marked
  <1>8. CASE Fail("IDENTITY")
    <2>1. "IDENTITY" \in Errors  BY DEF Errors
    <2>2. Over' /\ OpenFileIsKnown'
      BY <1>2, <1>8, <2>1, FailHereOver DEF SInv
    <2> QED BY <1>7, <2>2, OverSound DEF SInv
  <1>9. ASSUME Proceed(phase'),
               phase' \in {"BEFORE_SN", "BEFORE_FW", "OPEN", "PARAMETERS", "STATE_GAIN"},
               phase' = "BEFORE_SN" =>
                 \A i \in DOMAIN line' : i = 1 \/ AnswerTo(line'[i], {"PN", "SN"}),
               phase' = "BEFORE_FW" =>
                 \A i \in DOMAIN line' : AnswerTo(line'[i], {"PN", "SN"}),
               phase' \in {"OPEN", "PARAMETERS", "STATE_GAIN"} => line' = <<>>,
               phase' # "BEFORE_SN" => Serial'[2] # Unknown,
               PhaseOfKind'
        PROVE  SInv'
    <2>1. UNCHANGED <<state, error, cleanup_failed, may_be_open>>
      BY <1>9 DEF Proceed, statusVars
    <2>2. payload' = <<>>  BY <1>1, <1>3
    <2>3. PiecesMatch' /\ EnoughPieces' /\ SameModule'
      BY <1>9, <2>2 DEF PiecesMatch, EnoughPieces, SameModule
    <2>4. Reads'  BY <1>9, <2>3 DEF Reads
    <2>5. ~may_be_open  BY <1>1, <1>2 DEF CInv, OpenInFilePhases, FilePhases
    <2>6. phase' \in Phases \ {"BEFORE_PN", "DRAIN"}  BY <1>9, Tables
    <2>7. phase' \in ReadPhases => line' = <<>>  BY <1>9 DEF ReadPhases
    <2>8. UNCHANGED <<error, cleanup_failed>> /\ UNCHANGED <<camera, handle>>
          /\ state' = "READING" /\ (UNCHANGED may_be_open \/ ~handle)
      BY <1>2, <2>1
    <2> QED BY <1>2, <1>7, <1>9, <2>4, <2>5, <2>6, <2>7, <2>8, ProceedSound
  <1>10. CASE p = "BEFORE_PN" /\ Proceed(Following[p])
    <2>1. phase' = "BEFORE_SN" /\ Proceed(phase')  BY <1>10 DEF Proceed, Following
    <2>2. \A i \in DOMAIN line' : i = 1 \/ AnswerTo(line'[i], {"PN", "SN"})
      <3>1. \A i \in DOMAIN line : i <= 2 \/ AnswerTo(line[i], {"PN"})
        <4>1. Waits("BEFORE_PN")
          BY <1>1, <1>2, <1>10 DEF Accepts, Arrived, Running, Waits
        <4> QED BY <4>1 DEF SInv, Synchronised, ThirdIsPN
      <3>2. ASSUME NEW i \in DOMAIN line', i # 1  PROVE AnswerTo(line'[i], {"PN"})
        BY <1>5, <3>1, <3>2
      <3> QED BY <3>2 DEF AnswerTo
    <2>3. PhaseOfKind'  BY <2>1 DEF PhaseOfKind, StatePhases
    <2> QED BY <1>9, <2>1, <2>2, <2>3
  <1>11. CASE p = "BEFORE_SN" /\ Head(line).value # Unknown /\ Proceed(Following[p])
    <2>1. phase' = "BEFORE_FW" /\ Proceed(phase')  BY <1>11 DEF Proceed, Following
    <2>2. \A i \in DOMAIN line' : AnswerTo(line'[i], {"PN", "SN"})
      <3>1. \A i \in DOMAIN line : i = 1 \/ AnswerTo(line[i], {"PN", "SN"})
        BY <1>2, <1>11 DEF SInv, Synchronised, SecondIsSN
      <3>2. ASSUME NEW i \in DOMAIN line'  PROVE AnswerTo(line'[i], {"PN", "SN"})
        <4>1. i + 1 \in DOMAIN line /\ line'[i] = line[i + 1] /\ i + 1 # 1  BY <1>5, <3>2
        <4> QED BY <3>1, <4>1
      <3> QED BY <3>2
    <2>3. PhaseOfKind'  BY <2>1 DEF PhaseOfKind, StatePhases
    <2>4. Serial'[2] # Unknown  BY <1>6, <1>11 DEF Raw
    <2> QED BY <1>9, <2>1, <2>2, <2>3, <2>4
  <1>12. CASE p = "BEFORE_FW" /\ Proceed(FirstRead)
    <2>1. phase' = FirstRead /\ Proceed(phase')  BY <1>12 DEF Proceed
    <2>2. DataBytes[Head(line).command] = 11  BY <1>2, <1>12 DEF DataBytes, Asks
    <2>3. ~AnswerTo(Head(line), {"PN", "SN"})
      BY <1>2, <2>2 DEF AnswerTo, DataBytes
    <2>4. line' = <<>>
      <3>1. 1 = Len(line)
        BY <1>2, <1>5, <1>12, <2>3 DEF SInv, Synchronised, LastIsFW
      <3> QED BY <1>5, <3>1
    <2>5. phase' \in {"OPEN", "PARAMETERS", "STATE_GAIN"} /\ PhaseOfKind'
      <3>1. selected' = selected  BY <1>1
      <3> QED BY <2>1, <3>1, FirstReadParts DEF PhaseOfKind, StatePhases
    <2>6. Serial'[2] # Unknown
      BY <1>2, <1>3, <1>6, <1>12 DEF SameModule
    <2> QED BY <1>9, <2>1, <2>4, <2>5, <2>6
  <1> QED BY <1>1, <1>8, <1>10, <1>11, <1>12

\* ... the gain at the end of a snapshot, ...
LEMMA GainSound ==
  ASSUME TypeOK, CInv, SInv, ModuleAssumption, gain_after
  PROVE  SInv'
  <1>1. /\ Accepts("STATE_GAIN_AFTER")
        /\ UNCHANGED <<selected, length, identity, payload>>
        /\ Proceed("AFTER_PN") \/ fail("IDENTITY", "AFTER_PN", may_be_open, tx)
    BY DEF gain_after, resultVars
  <1>2. "STATE_GAIN_AFTER" \in ReadPhases  BY Tables DEF ReadPhases
  <1>3. /\ state = "READING" /\ phase = "STATE_GAIN_AFTER" /\ line # <<>> /\ Leave
        /\ line' = <<>> /\ UNCHANGED <<camera, handle>> /\ error = "NONE"
    BY <1>1, <1>2, Accepting
  <1>4. CASE fail("IDENTITY", "AFTER_PN", may_be_open, tx)
    <2>1. "IDENTITY" \in Errors /\ may_be_open \in BOOLEAN  BY DEF Errors, TypeOK
    <2>2. handle => may_be_open  BY <1>3, HandleKnown
    <2> QED BY <1>1, <1>3, <1>4, <2>1, <2>2, FailingReply
  <1>5. CASE Proceed("AFTER_PN")
    <2>1. /\ UNCHANGED <<state, error, cleanup_failed, may_be_open>>
          /\ phase' = "AFTER_PN"
      BY <1>5 DEF Proceed, statusVars
    <2>2. Marked'  BY <1>1, AcceptedMarked
    <2>3. PiecesMatch /\ EnoughPieces /\ PhaseOfKind /\ SameModule
      BY <1>3 DEF SInv, Reads
    <2>4. Len(payload) = Len(Pieces)
      BY <1>3, <2>3, PiecesParts DEF PhaseOfKind, EnoughPieces, StatePhases
    <2>5. Pieces' = Pieces  BY <1>1 DEF Pieces
    <2>6. Reads'
      BY <1>1, <1>3, <2>1, <2>3, <2>4, <2>5
      DEF Reads, PiecesMatch, EnoughPieces, PhaseOfKind, SameModule, Serial, StatePhases
    <2> QED BY <1>3, <2>1, <2>2, <2>6, ProceedSound, Tables
  <1> QED BY <1>1, <1>4, <1>5

\* ... the length of the file, ...
LEMMA InfoSound ==
  ASSUME TypeOK, CInv, SInv, ModuleAssumption, info
  PROVE  SInv'
  <1>1. /\ Accepts("INFO") /\ length' = Head(line).value
        /\ UNCHANGED <<transaction, selected, identity, payload>>
        /\ \/ Fail("MODULE_ERROR") \/ Fail("BAD_LENGTH")
           \/ Head(line).value # Unknown /\ Proceed("READ")
    BY DEF info
  <1>2. "INFO" \in ReadPhases  BY Tables DEF ReadPhases
  <1>3. /\ state = "READING" /\ phase = "INFO" /\ Head(line) \in Replies
        /\ line' = <<>> /\ UNCHANGED <<camera, handle>> /\ error = "NONE"
    BY <1>1, <1>2, Accepting
  <1>4. CASE Fail("MODULE_ERROR") \/ Fail("BAD_LENGTH")
    <2>1. {"MODULE_ERROR", "BAD_LENGTH"} \subseteq Errors  BY DEF Errors
    <2> QED BY <1>1, <1>4, <2>1, AcceptedFails
  <1>5. CASE Head(line).value # Unknown /\ Proceed("READ")
    <2>1. /\ UNCHANGED <<state, error, cleanup_failed, may_be_open>>
          /\ phase' = "READ"
      BY <1>5 DEF Proceed, statusVars
    <2>2. Marked'  BY <1>1, AcceptedMarked
    <2>3. payload = <<>> /\ PhaseOfKind /\ SameModule
      BY <1>3 DEF SInv, Reads, EnoughPieces
    <2>4. length' \in Nat /\ length' # 0  BY <1>1, <1>3, <1>5 DEF Replies, Unknown
    <2>5. payload' = <<>> /\ Len(payload') < length'  BY <1>1, <2>3, <2>4
    <2>6. PiecesMatch' /\ EnoughPieces'  BY <2>1, <2>5 DEF PiecesMatch, EnoughPieces
    <2>7. PhaseOfKind' /\ SameModule'
      BY <1>1, <1>3, <2>1, <2>3 DEF PhaseOfKind, SameModule, Serial, StatePhases
    <2>8. Reads'  BY <2>1, <2>6, <2>7 DEF Reads
    <2> QED BY <1>3, <2>1, <2>2, <2>8, ProceedSound, Tables
  <1> QED BY <1>1, <1>4, <1>5

\* ... a block, ...
LEMMA ReadSound ==
  ASSUME TypeOK, CInv, SInv, ModuleAssumption, read_block
  PROVE  SInv'
  <1>1. /\ Accepts("READ") /\ Keep(Head(line))
        /\ Proceed(IF Len(payload) + 1 = length THEN "CLOSE" ELSE "READ")
        /\ UNCHANGED <<transaction, selected, length, identity>>
    BY DEF read_block
  <1>2. "READ" \in ReadPhases  BY Tables DEF ReadPhases
  <1>3. /\ state = "READING" /\ phase = "READ" /\ line # <<>> /\ error = "NONE"
        /\ line' = Tail(line) /\ line' = <<>> /\ Fresh(Head(line))
        /\ Head(line).outcome = "ok" /\ Head(line) \in Replies
        /\ UNCHANGED <<camera, handle>>
    BY <1>1, <1>2, Accepting
  <1>4. /\ UNCHANGED <<state, error, cleanup_failed, may_be_open>>
        /\ phase' = IF Len(payload) + 1 = length THEN "CLOSE" ELSE "READ"
    BY <1>1 DEF Proceed, statusVars
  <1>5. Marked'  BY <1>1, <1>2, <1>3, KeepMarked
  <1>6. PiecesMatch /\ EnoughPieces /\ PhaseOfKind /\ SameModule
    BY <1>3 DEF SInv, Reads
  <1>7. Len(payload) < length /\ Len(payload) \in Nat /\ length \in Nat
    BY <1>3, <1>6 DEF EnoughPieces, TypeOK
  <1>8. selected \notin {"state", "parameters"}  BY <1>3, <1>6 DEF PhaseOfKind
  <1>9. Len(payload) + 1 <= Len(Pieces) /\ Pieces[Len(payload) + 1] = "READ" /\ Len(Pieces) = length
    <2>1. Len(Pieces) = length /\ \A i \in 1 .. length : Pieces[i] = "READ"
      BY <1>8, PiecesParts
    <2>2. Len(payload) + 1 \in 1 .. length  BY <1>7
    <2> QED BY <1>7, <2>1, <2>2
  <1>10. Head(line).command = "READ" /\ Head(line).value = Len(payload) + 1
    BY <1>3 DEF Fresh, Asks
  <1>11. PiecesMatch' /\ Len(payload') = Len(payload) + 1 /\ Pieces' = Pieces
    BY <1>1, <1>3, <1>6, <1>9, <1>10, KeepMatch
  <1>12. EnoughPieces'
    <2>1. CASE Len(payload) + 1 = length
      BY <1>4, <1>9, <1>11, <2>1 DEF EnoughPieces
    <2>2. CASE Len(payload) + 1 # length
      <3>1. Len(payload) + 1 < length  BY <1>7, <2>2
      <3> QED BY <1>1, <1>4, <1>11, <2>2, <3>1 DEF EnoughPieces
    <2> QED BY <2>1, <2>2
  <1>13. PhaseOfKind' /\ SameModule'
    BY <1>1, <1>3, <1>4, <1>6, <1>8 DEF PhaseOfKind, SameModule, Serial, StatePhases
  <1>14. Reads'  BY <1>4, <1>11, <1>12, <1>13 DEF Reads
  <1> QED BY <1>3, <1>4, <1>5, <1>14, ProceedSound, Tables

\* ... a file closed, ...
LEMMA ClosedSound ==
  ASSUME TypeOK, CInv, SInv, ModuleAssumption, closed
  PROVE  SInv'
  <1>1. /\ Accepts("CLOSE") /\ ~may_be_open'
        /\ UNCHANGED <<selected, length, identity, payload>>
    BY DEF closed, resultVars
  <1>2. "CLOSE" \in ReadPhases  BY Tables DEF ReadPhases
  <1>3. /\ state = "READING" /\ phase = "CLOSE" /\ line' = <<>> /\ Fresh(Head(line))
        /\ Head(line).outcome = "ok" /\ UNCHANGED <<camera, handle>>
    BY <1>1, <1>2, Accepting
  <1>4. ~handle  BY <1>3 DEF Fresh
  <1>5. Marked'  BY <1>1, AcceptedMarked
  <1>6. CASE error = "NONE"
    <2>1. phase' = "AFTER_PN" /\ UNCHANGED <<state, error, cleanup_failed>>
      BY <1>6 DEF closed, statusVars
    <2>2. PiecesMatch /\ EnoughPieces /\ PhaseOfKind /\ SameModule
      BY <1>3, <1>6 DEF SInv, Reads
    <2>3. Pieces' = Pieces  BY <1>1 DEF Pieces
    <2>4. Reads'
      BY <1>1, <1>3, <2>1, <2>2, <2>3
      DEF Reads, PiecesMatch, EnoughPieces, PhaseOfKind, SameModule, Serial, StatePhases
    <2> QED BY <1>3, <1>4, <1>5, <2>1, <2>4, ProceedSound, Tables
  <1>7. CASE error # "NONE"
    <2>1. finish(error, FALSE)  BY <1>7 DEF closed
    <2>2. state' \in {"ERROR", "ABORTED"}  BY <2>1 DEF finish
    <2>3. Over' /\ OpenFileIsKnown'  BY <1>3, <1>4, <2>2 DEF Over, OpenFileIsKnown
    <2> QED BY <1>5, <2>3, OverSound DEF SInv
  <1> QED BY <1>6, <1>7

\* ... and the module after the read, which makes the result.
LEMMA AfterSound ==
  ASSUME TypeOK, CInv, SInv, ModuleAssumption, identity_after
  PROVE  SInv'
  <1>1. PICK p \in {"AFTER_PN", "AFTER_SN", "AFTER_FW"} :
          /\ Accepts(p)
          /\ \/ ~Same(p) /\ Fail("IDENTITY")
             \/ Same(p) /\ p # "AFTER_FW" /\ Proceed(Following[p])
             \/ /\ Same(p) /\ p = "AFTER_FW"
                /\ state' = "READY"
    BY DEF identity_after
  <1>2. UNCHANGED <<selected, length, identity, payload>>
    BY DEF identity_after, resultVars
  <1>3. p \in ReadPhases  BY Tables DEF ReadPhases
  <1>4. /\ state = "READING" /\ phase = p /\ line' = <<>> /\ Fresh(Head(line))
        /\ line # <<>> /\ Head(line).outcome = "ok" /\ UNCHANGED <<camera, handle>>
        /\ error = "NONE"
    BY <1>1, <1>3, Accepting
  <1>5. Marked'  BY <1>1, <1>2, AcceptedMarked
  <1>6. PiecesMatch /\ EnoughPieces /\ SameModule
    BY <1>4 DEF SInv, Reads
  <1>7. CASE Fail("IDENTITY")
    <2>1. "IDENTITY" \in Errors  BY DEF Errors
    <2> QED BY <1>1, <1>2, <1>7, <2>1, AcceptedFails
  <1>8. Pieces' = Pieces /\ Serial' = Serial  BY <1>2 DEF Pieces, Serial
  <1>9. CASE Same(p) /\ p # "AFTER_FW" /\ Proceed(Following[p])
    <2>1. /\ UNCHANGED <<state, error, cleanup_failed, may_be_open>>
          /\ p = "AFTER_PN" => phase' = "AFTER_SN"
          /\ p = "AFTER_SN" => phase' = "AFTER_FW"
          /\ p \in {"AFTER_PN", "AFTER_SN"}
      BY <1>9 DEF Proceed, statusVars, Following
    <2>2. PiecesMatch' /\ EnoughPieces' /\ PhaseOfKind'
      BY <1>2, <1>4, <1>6, <1>8, <2>1 DEF PiecesMatch, EnoughPieces, PhaseOfKind, StatePhases
    <2>3. /\ p = "AFTER_PN" => identity["PN"][1] = "PN"
      <3>1. SUFFICES ASSUME p = "AFTER_PN"  PROVE identity["PN"][1] = "PN"  OBVIOUS
      <3>2. Asks[p] = "PN"  BY <3>1 DEF Asks
      <3>3. Head(line).command = "PN"  BY <1>4, <3>2 DEF Fresh
      <3> QED BY <1>9, <3>2, <3>3 DEF Same, Raw
    <2>4. p = "AFTER_SN" =>
            /\ Serial[1] = "SN"
            /\ \A j \in DOMAIN payload : payload[j].from = Serial[2]
      <3>1. SUFFICES ASSUME p = "AFTER_SN"
                     PROVE  /\ Serial[1] = "SN"
                            /\ \A j \in DOMAIN payload : payload[j].from = Serial[2]
        OBVIOUS
      <3>2. Asks[p] = "SN"  BY <3>1 DEF Asks
      <3>3. Head(line).command = "SN"  BY <1>4, <3>2 DEF Fresh
      <3>4. Serial = <<"SN", Head(line).value>>  BY <1>9, <3>2, <3>3 DEF Same, Raw, Serial
      <3>5. Serial[1] = "SN" /\ Serial[2] = Head(line).value  BY <3>4
      <3>6. Serial[2] # Unknown  BY <1>4, <1>6, <3>1 DEF SameModule
      <3>7. Head(line) = line[1] /\ 1 \in DOMAIN line
        <4>1. line \in Seq(Replies)  BY DEF TypeOK
        <4> QED BY <1>4, <4>1, TailParts
      <3>8. Serial[2] = Head(line).from
        BY <3>3, <3>5, <3>6, <3>7 DEF SInv, Marked
      <3>9. \A j \in DOMAIN payload : payload[j].from <= Serial[2] /\ Serial[2] <= payload[j].from
        BY <1>4, <3>5, <3>8 DEF Fresh, SInv, Marked
      <3>10. Serial[2] \in Nat /\ \A j \in DOMAIN payload : payload[j].from \in Nat
        BY Numbers
      <3>11. \A j \in DOMAIN payload : payload[j].from = Serial[2]
        BY <3>9, <3>10
      <3> QED BY <3>5, <3>11
    <2>5. SameModule'
      BY <1>2, <1>4, <1>6, <1>8, <2>1, <2>3, <2>4 DEF SameModule
    <2>6. Reads'  BY <2>1, <2>2, <2>5 DEF Reads
    <2> QED BY <1>4, <1>5, <2>1, <2>6, ProceedSound, Tables
  <1>10. CASE p = "AFTER_FW" /\ state' = "READY"
    <2>1. ResultIsGenuine'
      <3>1. identity["PN"][1] = "PN" /\ Serial[1] = "SN" /\ Len(payload) = Len(Pieces)
            /\ \A j \in DOMAIN payload : payload[j].from = Serial[2]
        BY <1>4, <1>6, <1>10 DEF SameModule, EnoughPieces
      <3>2. payload \in Seq(Replies)  BY DEF TypeOK
      <3>3. DOMAIN payload = 1 .. Len(payload)  BY <3>2
      <3>4. \A i \in 1 .. Len(payload) :
              payload[i].outcome = "ok" =>
                /\ payload[i].command = Pieces[i]
                /\ payload[i].from = identity["SN"][2]
                /\ Pieces[i] = "READ" => payload[i].value = i
        BY <1>6, <3>1, <3>3 DEF PiecesMatch, Serial
      <3> QED BY <1>2, <1>8, <3>1, <3>4 DEF ResultIsGenuine, Serial
    <2>2. ~handle
      <3>1. ~may_be_open  BY <1>4, <1>10 DEF CInv, OpenInFilePhases, FilePhases
      <3> QED BY <1>4, <3>1, HandleKnown
    <2>3. Synchronised' /\ OpenedByOpen' /\ OpenFileIsKnown' /\ Reads'
      BY <1>4, <1>10, <2>2
      DEF Synchronised, ThirdIsPN, SecondIsSN, LastIsFW, OnlyFresh, OpenedByOpen,
          OpenFileIsKnown, Reads, Waits
    <2> QED BY <1>5, <2>1, <2>3 DEF SInv
  <1> QED BY <1>1, <1>7, <1>9, <1>10

-----------------------------------------------------------------------------
(* The theorems about the answers.                                          *)

\* Nothing has been answered before the first request ...
LEMMA InitSound ==
  ASSUME ModuleAssumption  PROVE Init => SInv
  <1> SUFFICES ASSUME Init PROVE SInv  OBVIOUS
  <1>1. /\ state = "IDLE" /\ line = <<>> /\ payload = <<>> /\ ~handle
        /\ identity["SN"] = <<"SN", Unknown>> /\ camera = 1
    BY DEF Init
  <1>2. Marked  BY <1>1 DEF Marked, Serial, Unknown
  <1>3. Synchronised /\ OpenedByOpen /\ OpenFileIsKnown /\ Reads /\ ResultIsGenuine
    BY <1>1 DEF Synchronised, ThirdIsPN, SecondIsSN, LastIsFW, OnlyFresh, OpenedByOpen,
                Waits, OpenFileIsKnown, Reads, ResultIsGenuine
  <1> QED BY <1>2, <1>3 DEF SInv

\* ... and every step, taken with at most two late replies, keeps what is known.
THEOREM SoundInductive ==
  ASSUME ModuleAssumption
  PROVE  IInv /\ SInv /\ TwoLateReplies /\ [Next]_vars => SInv'
  <1> SUFFICES ASSUME TypeOK, CInv, SInv, TwoLateReplies, [Next]_vars  PROVE SInv'
    BY DEF IInv
  <1>1. CASE Requests  BY <1>1, RequestSound
  <1>2. CASE Task
    <2>1. CASE \/ expire \/ drain_discard \/ drain_limit \/ drain_quiet \/ deadline \/ no_suffix
               \/ command_timeout \/ uart_error
      BY <2>1, ClockSound
    <2>2. CASE issue \/ transmit  BY <2>2, CommandSound
    <2>3. CASE Response
      BY <2>3, RefusalSound, RefusedSound, BeforeSound, QuerySound, GainSound, OpenedSound,
         InfoSound, ReadSound, ClosedSound, AfterSound DEF Response
    <2> QED BY <1>2, <2>1, <2>2, <2>3 DEF Task
  <1>3. CASE exchange  BY <1>3, ExchangeSound
  <1>4. CASE UNCHANGED vars
    BY <1>4, SoundKept DEF vars, statusVars, phaseVars
  <1> QED BY <1>1, <1>2, <1>3, <1>4 DEF Next

\* With at most two late replies the answers are what they are taken for.
THEOREM Soundness == Spec /\ []TwoLateReplies => []SInv
  <1>1. Init => SInv  BY ModuleAssumption, InitSound
  <1>2. IInv /\ SInv /\ TwoLateReplies /\ [Next]_vars => SInv'
    BY ModuleAssumption, SoundInductive
  <1> QED BY <1>1, <1>2, Invariance, PTL DEF Spec

\* As long as a transaction starts with at most two late replies, a file that is open
\* in the module is always one that the service will close, or after which it is
\* locked.
THEOREM OpenFileSafety == Spec /\ []TwoLateReplies => []OpenFileIsKnown
  <1>1. SInv => OpenFileIsKnown  BY DEF SInv
  <1> QED BY <1>1, Soundness, PTL

\* As long as a transaction starts with at most two late replies, a result consists
\* of the module's own answers, in order, and of the one module it names.
THEOREM ResultSafety == Spec /\ []TwoLateReplies => []ResultIsGenuine
  <1>1. SInv => ResultIsGenuine  BY DEF SInv
  <1> QED BY <1>1, Soundness, PTL

-----------------------------------------------------------------------------
(* With MaxLine at most 2 there is no third late reply.                     *)

LineFits == Len(line) <= MaxLine

\* Taking a reply makes room for what is left of it.
LEMMA LeaveBounded ==
  ASSUME TypeOK, ModuleAssumption, Len(line) <= MaxLine, line # <<>>, Leave
  PROVE  Len(line') <= MaxLine
  <1>1. line \in Seq(Replies) /\ Damaged \in Replies  BY AnswersType, Tables DEF TypeOK
  <1>2. /\ Tail(line) \in Seq(Replies) /\ Len(Tail(line)) = Len(line) - 1
        /\ Len(line) \in Nat /\ MaxLine \in Nat
    BY <1>1, TailParts DEF ModuleAssumption
  <1>3. CASE line' = Tail(line)  BY <1>2, <1>3
  <1>4. CASE line' = <<Damaged>> \o Tail(line)
    <2>1. <<Damaged>> \in Seq(Replies) /\ Len(<<Damaged>>) = 1  BY <1>1
    <2>2. Len(line') = 1 + Len(Tail(line))  BY <1>2, <1>4, <2>1
    <2> QED BY <1>2, <2>2
  <1> QED BY <1>3, <1>4 DEF Leave

\* A reply is sent only where there is room.
LEMMA LineStep ==
  ASSUME TypeOK, ModuleAssumption, Len(line) <= MaxLine, [Next]_vars
  PROVE  Len(line') <= MaxLine
  <1>0. line \in Seq(Replies) /\ Len(line) \in Nat /\ MaxLine \in Nat
    BY DEF TypeOK, ModuleAssumption
  <1>1. ASSUME line' = line  PROVE Len(line') <= MaxLine  BY <1>1
  <1>2. ASSUME Arrived, Leave  PROVE Len(line') <= MaxLine
    BY <1>2, LeaveBounded DEF Arrived
  <1>3. CASE Requests
    <2>1. ASSUME NEW k \in Kinds, start(k)  PROVE Len(line') <= MaxLine
      <3>1. PICK n \in 0 .. Len(line) : line' = SubSeq(line, n + 1, Len(line))
        BY <2>1 DEF start
      <3>2. SubSeq(line, n + 1, Len(line)) = [i \in 1 .. Len(line) - n |-> line[n + i]]
        BY <1>0
      <3>3. Len([i \in 1 .. Len(line) - n |-> line[n + i]]) = Len(line) - n  BY <1>0
      <3> QED BY <1>0, <3>1, <3>2, <3>3
    <2>2. CASE \/ start_refused \/ abort
               \/ \E t \in 1 .. T : download(t)
               \/ \E complete \in BOOLEAN : download_release(complete)
      BY <1>1, <2>2 DEF start_refused, abort, download, download_release, vars, wireVars
    <2> QED BY <1>3, <2>1, <2>2 DEF Requests
  <1>4. CASE Task
    <2>1. CASE \/ expire \/ drain_limit \/ drain_quiet \/ deadline \/ no_suffix
               \/ issue \/ command_timeout \/ uart_error
      BY <1>1, <2>1 DEF expire, drain_limit, drain_quiet, deadline, no_suffix, issue,
                        command_timeout, uart_error, wireVars
    <2>2. CASE drain_discard
      <3>1. CASE line' = line  BY <1>1, <3>1
      <3>2. CASE line # <<>> /\ line' = Tail(line)
        BY <3>2, LeaveBounded DEF Leave
      <3> QED BY <2>2, <3>1, <3>2 DEF drain_discard
    <2>3. CASE transmit
      <3>1. CASE line' = line  BY <1>1, <3>1
      <3>2. CASE answer(command) /\ line' # line
        <4>0. command \in Commands  BY DEF TypeOK
        <4>1. PICK r \in Answers(command) :
                /\ Len(line) < MaxLine
                /\ line' \in {Append(line, r), Append(line, Damaged)}
          BY <3>2 DEF answer
        <4>2. r \in Replies /\ Damaged \in Replies  BY <4>0, AnswersParts
        <4>3. PICK x \in Replies : line' = Append(line, x)  BY <4>1, <4>2
        <4>4. Len(line') = Len(line) + 1  BY <1>0, <4>3, AppendParts
        <4> QED BY <1>0, <4>1, <4>4
      <3> QED BY <2>3, <3>1, <3>2 DEF transmit, module_hears
    <2>4. CASE bad_frame  BY <1>2, <2>4 DEF bad_frame
    <2>5. CASE refused \/ unwanted
      BY <1>2, <2>5 DEF refused, unwanted, Leave
    <2>6. ASSUME NEW p, Accepts(p)  PROVE Len(line') <= MaxLine
      BY <1>2, <2>6 DEF Accepts, Leave
    <2>7. CASE identity_before \/ query \/ gain_after \/ opened
      BY <2>6, <2>7 DEF identity_before, query, gain_after, opened
    <2>8. CASE info \/ read_block \/ closed \/ identity_after
      BY <2>6, <2>8 DEF info, read_block, closed, identity_after
    <2> QED BY <1>4, <2>1, <2>2, <2>3, <2>4, <2>5, <2>7, <2>8 DEF Task, Response
  <1>5. CASE exchange \/ UNCHANGED vars
    BY <1>1, <1>5 DEF exchange, vars, wireVars
  <1> QED BY <1>3, <1>4, <1>5 DEF Next

\* No more replies are on their way than the model allows.
THEOREM LineBounded == Spec => []LineFits
  <1>1. Init => LineFits  BY ModuleAssumption DEF Init, ModuleAssumption, LineFits
  <1>2. IInv /\ LineFits /\ [Next]_vars => LineFits'
    BY ModuleAssumption, LineStep DEF IInv, LineFits
  <1> QED BY <1>1, <1>2, Invariance, PTL DEF Spec

\* What the run finds with two replies on their way is true for any number of
\* transactions, modules, kinds and blocks.
THEOREM ShortLineSafety ==
  ASSUME MaxLine <= 2
  PROVE  Spec => [](OpenFileIsKnown /\ ResultIsGenuine)
  <1>1. LineFits /\ IInv => TwoLateReplies
    <2> SUFFICES ASSUME LineFits, TypeOK  PROVE TwoLateReplies  BY DEF IInv
    <2>1. Len(line) \in Nat /\ MaxLine \in Nat  BY ModuleAssumption DEF TypeOK, ModuleAssumption
    <2> QED BY <2>1 DEF TwoLateReplies, LineFits
  <1> QED BY <1>1, Invariance, LineBounded, OpenFileSafety, ResultSafety, PTL
=============================================================================
