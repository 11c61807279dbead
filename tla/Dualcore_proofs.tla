-------------------------- MODULE Dualcore_proofs --------------------------
(***************************************************************************)
(* Proofs about what the two cores share: the mailbox of the file-service  *)
(* calls (DualcoreRpc) and the sequence locks around the statistics and    *)
(* the file status (Snapshots).  The two modules have no word in common    *)
(* and are proved about apart.                                             *)
(*                                                                         *)
(* The mailbox, for every modulus of the request numbers and every number  *)
(* of transactions.  It belongs to one core at a time although nothing     *)
(* locks it, because V3F writes it only when every posted request is       *)
(* acknowledged, and V5F leaves a request's words alone before it takes    *)
(* it.  From that, a lease V5F may still take back is one no client has    *)
(* seen.                                                                   *)
(***************************************************************************)
EXTENDS DualcoreRpc, Snapshots, TLAPS

Busy == {"execute", "check", "ack"}   \* V5F is serving a request
Calling == {"post", "wait", "cancel"} \* V3F is in a call

\* Between filling the mailbox and posting it, nothing is unacknowledged.
FreeWhilePosting == v3f = "post" => rpc_request = rpc_ack

\* Outside a request, the last one handled is the last one acknowledged.
HandledIsAcked == v5f \notin Busy => handled_request = rpc_ack

MailboxInv == /\ TypeOK
              /\ MailboxIsStable
              /\ FreeWhilePosting
              /\ HandledIsAcked

\* The cancel word is clear for as long as V3F waits.
ClearWhileCalling == v3f \in Calling => ~rpc_cancel

\* The cancel word stays set while a request that timed out is served.
AbandonedIsCancelled ==
  abandoned = rpc_request /\ rpc_request # rpc_ack => rpc_cancel

CancelInv == ClearWhileCalling /\ AbandonedIsCancelled

\* What a RELEASE names is no longer held.
ReleaseIsForgotten == rpc_command = "RELEASE" => holding = None

\* Nothing is acquired before the command.
FreshBeforeCommand == v5f = "execute" => ~acquired_lease /\ ~rpc_result

\* The result of a DOWNLOAD, from the command until V3F reads it.
ResultIsLent ==
  /\ \/ v5f \in {"check", "ack"}
     \/ v3f = "wait" /\ rpc_ack = rpc_request
  /\ rpc_command = "DOWNLOAD" /\ rpc_result
  => state = "ready" /\ downloading /\ transaction = rpc_pointer

\* A lease V5F may still take back is one no client has.
RevocableIsUnseen ==
  /\ acquired_lease
  /\ \/ v5f \in {"check", "ack"}
     \/ /\ rpc_request = handled_request
        /\ rpc_cancel \/ v3f \in {"wait", "cancel"}
  => holding = None

LeaseInv == /\ HandedPointerIsLent
            /\ ReleaseIsForgotten
            /\ FreshBeforeCommand
            /\ ResultIsLent
            /\ RevocableIsUnseen

IInv == MailboxInv /\ CancelInv /\ LeaseInv

-----------------------------------------------------------------------------
\* The successor of a request number is another request number.
LEMMA IncrType == ASSUME NEW w \in Words PROVE Incr(w) \in Words /\ Incr(w) # w
  BY RpcAssumption, SMT DEF Words, Incr

\* Transactions keep their range over the wrap, and None is not one of them.
LEMMA TransactionType ==
  /\ None \notin Words /\ None \notin Transactions
  /\ transaction \in Transactions => NextTransaction \in Transactions
  BY RpcAssumption, FileAssumption, SMT DEF Words, Transactions, NextTransaction

\* No operation of the file service leaves its types.
LEMMA FileType ==
  ASSUME TypeOK,
         \/ \E done \in BOOLEAN : start(done)
         \/ abort \/ download \/ download_release \/ file_task \/ UNCHANGED fileVars
  PROVE  /\ state' \in {"idle", "reading", "closing", "ready"}
         /\ downloading' \in BOOLEAN /\ transaction' \in Transactions
  <1>1. CASE \E done \in BOOLEAN : start(done)
    BY <1>1, TransactionType DEF start, TypeOK, fileVars
  <1>2. CASE abort  BY <1>2 DEF abort, TypeOK, fileVars
  <1>3. CASE download  BY <1>3 DEF download, TypeOK
  <1>4. CASE download_release  BY <1>4 DEF download_release, TypeOK
  <1>5. CASE file_task  BY <1>5 DEF file_task, TypeOK, fileVars
  <1>6. CASE UNCHANGED fileVars  BY <1>6 DEF TypeOK, fileVars
  <1> QED BY <1>1, <1>2, <1>3, <1>4, <1>5, <1>6

-----------------------------------------------------------------------------
\* Every step keeps the types.
LEMMA TypeStep == TypeOK /\ [Next]_vars => TypeOK'
  <1> SUFFICES ASSUME TypeOK, [Next]_vars PROVE TypeOK'  OBVIOUS
  <1> USE DEF TypeOK
  <1>1. ASSUME NEW c \in Commands, NEW t \in Transactions, call(c, t) PROVE TypeOK'
    BY ZenonT(60), <1>1 DEF call, Forget, v5fVars, fileVars, replyVars, handledVars
  <1>2. ASSUME NEW c \in Commands, call_refused(c) PROVE TypeOK'
    BY <1>2 DEF call_refused, Forget, mailboxVars, v5fVars, fileVars, replyVars, handledVars
  <1>3. CASE post
    BY <1>3, IncrType DEF post, mailboxVars, v5fVars, fileVars, replyVars, handledVars
  <1>4. CASE reply
    BY <1>4 DEF reply, mailboxVars, v5fVars, fileVars, replyVars, handledVars
  <1>5. CASE wait_expires
    BY <1>5 DEF wait_expires, mailboxVars, v5fVars, fileVars, replyVars, handledVars
  <1>6. CASE cancel
    BY <1>6 DEF cancel, mailboxVars, v5fVars, fileVars, replyVars, handledVars
  <1>7. CASE take
    <2>1. CASE rpc_request # rpc_ack
      BY <1>7, <2>1 DEF take, v3fVars, mailboxVars, fileVars
    <2>2. CASE rpc_request = rpc_ack
      BY <1>7, <2>2 DEF take, v3fVars, mailboxVars, fileVars, replyVars, handledVars
    <2> QED BY <2>1, <2>2
  <1>8. CASE execute
    <2>1. \/ \E done \in BOOLEAN : start(done)
          \/ abort \/ download \/ download_release \/ file_task \/ UNCHANGED fileVars
      BY <1>8 DEF execute, Execute
    <2>2. /\ rpc_result' \in BOOLEAN /\ acquired_lease' \in BOOLEAN
          /\ rpc_pointer' \in Transactions \cup {None}
      BY <1>8 DEF execute, Execute, replyVars
    <2> QED BY <1>8, <2>1, <2>2, FileType DEF execute, v3fVars, mailboxVars, handledVars
  <1>9. CASE check
    <2>1. abort \/ download_release \/ UNCHANGED fileVars
      BY <1>9 DEF check, GiveBack
    <2> QED BY <1>9, <2>1, FileType
            DEF check, v3fVars, mailboxVars, handledVars, replyVars
  <1>10. CASE ack
    BY <1>10 DEF ack, v3fVars, mailboxVars, fileVars, replyVars, handledVars
  <1>11. CASE clean
    <2>1. abort \/ download_release \/ UNCHANGED fileVars
      BY <1>11 DEF clean, GiveBack
    <2>2. cleanup_pending' \in BOOLEAN
      BY <1>11 DEF clean
    <2>3. /\ UNCHANGED <<v3fVars, rpc_ack, replyVars, handledVars, acquired_lease>>
          /\ v5f' = "task"
      BY <1>11 DEF clean
    <2> QED BY <2>1, <2>2, <2>3, FileType DEF v3fVars, mailboxVars, handledVars, replyVars
  <1>12. CASE task
    BY <1>12, FileType DEF task, v3fVars, mailboxVars, replyVars, handledVars
  <1>13. CASE UNCHANGED vars
    BY <1>13 DEF vars, v3fVars, v5fVars, fileVars, mailboxVars, replyVars, handledVars
  <1> QED BY <1>1, <1>2, <1>3, <1>4, <1>5, <1>6, <1>7, <1>8, <1>9, <1>10, <1>11,
             <1>12, <1>13 DEF Next, V3F, V5F

\* Only the core a word of the mailbox belongs to writes it.
LEMMA MailboxStep == MailboxInv /\ [Next]_vars => MailboxInv'
  <1> SUFFICES ASSUME MailboxInv, [Next]_vars PROVE MailboxInv'  OBVIOUS
  <1> USE DEF MailboxInv, MailboxIsStable, FreeWhilePosting, HandledIsAcked, Busy
  <1>1. ASSUME NEW c \in Commands, NEW t \in Transactions, call(c, t) PROVE MailboxInv'
    BY <1>1, TypeStep DEF call, Asked, Forget, v3fVars, v5fVars, mailboxVars, replyVars, handledVars, fileVars
  <1>2. ASSUME NEW c \in Commands, call_refused(c) PROVE MailboxInv'
    BY <1>2, TypeStep DEF call_refused, Forget, v3fVars, v5fVars, mailboxVars, replyVars, handledVars, fileVars
  <1>3. CASE post
    <2>1. rpc_request' \in Words /\ rpc_request' # rpc_request
      BY <1>3, IncrType DEF post, TypeOK
    <2> QED BY <1>3, <2>1, TypeStep DEF post, v3fVars, v5fVars, mailboxVars, replyVars, handledVars, fileVars
  <1>4. CASE reply
    BY <1>4, TypeStep DEF reply, v3fVars, v5fVars, mailboxVars, replyVars, handledVars, fileVars
  <1>5. CASE wait_expires
    BY <1>5, TypeStep DEF wait_expires, v3fVars, v5fVars, mailboxVars, replyVars, handledVars, fileVars
  <1>6. CASE cancel
    BY <1>6, TypeStep DEF cancel, v3fVars, v5fVars, mailboxVars, replyVars, handledVars, fileVars
  <1>7. CASE take
    BY <1>7, TypeStep DEF take, v3fVars, v5fVars, mailboxVars, replyVars, handledVars, fileVars
  <1>8. CASE execute
    BY <1>8, TypeStep DEF execute, v3fVars, v5fVars, mailboxVars, replyVars, handledVars, fileVars
  <1>9. CASE check
    BY <1>9, TypeStep DEF check, v3fVars, v5fVars, mailboxVars, replyVars, handledVars, fileVars
  <1>10. CASE ack
    BY <1>10, TypeStep DEF ack, v3fVars, v5fVars, mailboxVars, replyVars, handledVars, fileVars
  <1>11. CASE clean
    BY <1>11, TypeStep DEF clean, v3fVars, v5fVars, mailboxVars, replyVars, handledVars, fileVars
  <1>12. CASE task
    BY <1>12, TypeStep DEF task, v3fVars, v5fVars, mailboxVars, replyVars, handledVars, fileVars
  <1>13. CASE UNCHANGED vars
    BY <1>13, TypeStep DEF vars, v3fVars, v5fVars, fileVars, mailboxVars, replyVars, handledVars
  <1> QED BY <1>1, <1>2, <1>3, <1>4, <1>5, <1>6, <1>7, <1>8, <1>9, <1>10, <1>11,
             <1>12, <1>13 DEF Next, V3F, V5F

\* The cancel word is raised only for the request that timed out.
LEMMA CancelStep == MailboxInv /\ CancelInv /\ [Next]_vars => CancelInv'
  <1> SUFFICES ASSUME MailboxInv, CancelInv, [Next]_vars PROVE CancelInv'  OBVIOUS
  <1> USE DEF MailboxInv, MailboxIsStable, FreeWhilePosting, HandledIsAcked, Busy, Calling,
             CancelInv, ClearWhileCalling, AbandonedIsCancelled
  <1>1. ASSUME NEW c \in Commands, NEW t \in Transactions, call(c, t) PROVE CancelInv'
    BY <1>1 DEF call, Asked, Forget, v3fVars, v5fVars, mailboxVars, replyVars, handledVars, fileVars
  <1>2. ASSUME NEW c \in Commands, call_refused(c) PROVE CancelInv'
    BY <1>2 DEF call_refused, Forget, v3fVars, v5fVars, mailboxVars, replyVars, handledVars, fileVars
  <1>3. CASE post
    <2>1. Incr(rpc_request) \in Words /\ Incr(rpc_request) # None
      BY IncrType, TransactionType DEF TypeOK
    <2> QED BY <1>3, <2>1 DEF post, v3fVars, v5fVars, mailboxVars, replyVars, handledVars, fileVars
  <1>4. CASE reply
    BY <1>4 DEF reply, v3fVars, v5fVars, mailboxVars, replyVars, handledVars, fileVars
  <1>5. CASE wait_expires
    BY <1>5 DEF wait_expires, v3fVars, v5fVars, mailboxVars, replyVars, handledVars, fileVars
  <1>6. CASE cancel
    BY <1>6 DEF cancel, v3fVars, v5fVars, mailboxVars, replyVars, handledVars, fileVars
  <1>7. CASE take
    BY <1>7 DEF take, v3fVars, v5fVars, mailboxVars, replyVars, handledVars, fileVars
  <1>8. CASE execute
    BY <1>8 DEF execute, v3fVars, v5fVars, mailboxVars, replyVars, handledVars, fileVars
  <1>9. CASE check
    BY <1>9 DEF check, v3fVars, v5fVars, mailboxVars, replyVars, handledVars, fileVars
  <1>10. CASE ack
    BY <1>10 DEF ack, v3fVars, v5fVars, mailboxVars, replyVars, handledVars, fileVars
  <1>11. CASE clean
    BY <1>11 DEF clean, v3fVars, v5fVars, mailboxVars, replyVars, handledVars, fileVars
  <1>12. CASE task
    BY <1>12 DEF task, v3fVars, v5fVars, mailboxVars, replyVars, handledVars, fileVars
  <1>13. CASE UNCHANGED vars
    BY <1>13 DEF vars, v3fVars, v5fVars, fileVars, mailboxVars, replyVars, handledVars
  <1> QED BY <1>1, <1>2, <1>3, <1>4, <1>5, <1>6, <1>7, <1>8, <1>9, <1>10, <1>11,
             <1>12, <1>13 DEF Next, V3F, V5F

\* A download in progress holds off an abort and the service's own task.
LEMMA LentStays ==
  ASSUME TypeOK, downloading, state = "ready", abort \/ file_task
  PROVE  UNCHANGED fileVars
  BY DEF TypeOK, abort, file_task, fileVars

\* Only a lease nobody has seen is ever taken back.
LEMMA LeaseStep == IInv /\ [Next]_vars => LeaseInv'
  <1> SUFFICES ASSUME IInv, [Next]_vars PROVE LeaseInv'  OBVIOUS
  <1> USE DEF IInv, MailboxInv, CancelInv, LeaseInv
  <1>0. TypeOK' /\ MailboxInv' /\ CancelInv'
    BY TypeStep, MailboxStep, CancelStep
  <1>1. ASSUME NEW c \in Commands, NEW t \in Transactions, call(c, t) PROVE LeaseInv'
    <2>1. v5f \notin Busy /\ v5f' = v5f
      BY <1>1 DEF call, MailboxIsStable, Busy, v5fVars
    <2> QED BY <1>1, <2>1 DEF call, Forget, v5fVars, fileVars, replyVars, handledVars, Busy,
              HandedPointerIsLent, ReleaseIsForgotten, FreshBeforeCommand, ResultIsLent,
              RevocableIsUnseen
  <1>2. ASSUME NEW c \in Commands, call_refused(c) PROVE LeaseInv'
    BY <1>2 DEF call_refused, Forget, v5fVars, fileVars, replyVars, handledVars, mailboxVars,
       HandedPointerIsLent, ReleaseIsForgotten, FreshBeforeCommand, ResultIsLent,
       RevocableIsUnseen
  <1>3. CASE post
    <2>1. /\ v5f \notin Busy /\ v5f' = v5f
          /\ rpc_request' # rpc_ack /\ rpc_request' # handled_request
          /\ rpc_ack' = rpc_ack /\ handled_request' = handled_request
      <3>1. v3f = "post" /\ rpc_request = rpc_ack
        BY <1>3 DEF post, FreeWhilePosting
      <3>2. v5f \notin Busy /\ handled_request = rpc_ack
        BY <3>1 DEF MailboxIsStable, Busy, HandledIsAcked
      <3> QED BY <1>3, <3>1, <3>2, IncrType DEF post, v5fVars, handledVars, TypeOK
    <2> QED BY <1>3, <2>1 DEF post, v5fVars, fileVars, replyVars, handledVars, mailboxVars, Busy,
              HandedPointerIsLent, ReleaseIsForgotten, FreshBeforeCommand, ResultIsLent,
              RevocableIsUnseen
  <1>4. CASE reply
    <2>1. v5f \notin Busy /\ ~rpc_cancel
      BY <1>4 DEF reply, MailboxIsStable, Busy, ClearWhileCalling, Calling
    <2> QED BY <1>4, <2>1 DEF reply, v5fVars, fileVars, replyVars, handledVars, mailboxVars, Busy,
              HandedPointerIsLent, ReleaseIsForgotten, FreshBeforeCommand, ResultIsLent,
              RevocableIsUnseen
  <1>5. CASE wait_expires
    BY <1>5 DEF wait_expires, v5fVars, fileVars, replyVars, handledVars, mailboxVars,
       HandedPointerIsLent, ReleaseIsForgotten, FreshBeforeCommand, ResultIsLent,
       RevocableIsUnseen
  <1>6. CASE cancel
    BY <1>6 DEF cancel, v5fVars, fileVars, replyVars, handledVars, mailboxVars,
       HandedPointerIsLent, ReleaseIsForgotten, FreshBeforeCommand, ResultIsLent,
       RevocableIsUnseen
  <1>7. CASE take
    <2>1. CASE rpc_request # rpc_ack
      BY <1>7, <2>1 DEF take, v3fVars, fileVars, mailboxVars,
         HandedPointerIsLent, ReleaseIsForgotten, FreshBeforeCommand, ResultIsLent,
         RevocableIsUnseen
    <2>2. CASE rpc_request = rpc_ack
      BY <1>7, <2>2 DEF take, v3fVars, fileVars, mailboxVars, replyVars, handledVars,
         HandedPointerIsLent, ReleaseIsForgotten, FreshBeforeCommand, ResultIsLent,
         RevocableIsUnseen
    <2> QED BY <2>1, <2>2
  <1>10. CASE ack
    BY <1>10 DEF ack, v3fVars, fileVars, mailboxVars, replyVars, handledVars,
         HandedPointerIsLent, ReleaseIsForgotten, FreshBeforeCommand, ResultIsLent,
         RevocableIsUnseen, MailboxIsStable
  <1>13. CASE UNCHANGED vars
    BY <1>13 DEF vars, v3fVars, v5fVars, fileVars, mailboxVars, replyVars, handledVars,
         HandedPointerIsLent, ReleaseIsForgotten, FreshBeforeCommand, ResultIsLent,
         RevocableIsUnseen
  <1>8. CASE execute
    <2>1. /\ v5f = "execute" /\ v5f' = "check"
          /\ UNCHANGED <<v3fVars, rpc_ack, handledVars>>
      BY <1>8 DEF execute
    <2>2. /\ rpc_command = handled_command
          /\ ~acquired_lease /\ ~rpc_result
      BY <2>1 DEF MailboxIsStable, FreshBeforeCommand
    <2>3. UNCHANGED <<holding, rpc_command>>
      BY <2>1 DEF v3fVars, mailboxVars
    <2>4. rpc_ack # rpc_request /\ rpc_ack' # rpc_request'
      BY <2>1 DEF MailboxIsStable, v3fVars
    <2>5. ASSUME /\ HandedPointerIsLent'
                 /\ rpc_command = "DOWNLOAD" /\ rpc_result' =>
                      state' = "ready" /\ downloading' /\ transaction' = rpc_pointer'
                 /\ acquired_lease' => holding = None
          PROVE  LeaseInv'
      BY <2>1, <2>3, <2>5
         DEF ReleaseIsForgotten, FreshBeforeCommand, ResultIsLent, RevocableIsUnseen
    <2>6. CASE UNCHANGED <<fileVars, replyVars, acquired_lease>>
      BY <2>2, <2>3, <2>5, <2>6 DEF fileVars, replyVars, HandedPointerIsLent
    <2>7. CASE Execute /\ rpc_command = "START"
      <3>1. PICK done \in BOOLEAN :
              start(done) /\ acquired_lease' = done
        BY <2>7 DEF Execute
      <3>2. CASE done
        BY <2>3, <2>5, <2>7, <3>1, <3>2 DEF start, HandedPointerIsLent
      <3>3. CASE ~done
        BY <2>3, <2>5, <2>7, <3>1, <3>3 DEF start, fileVars, HandedPointerIsLent
      <3> QED BY <3>2, <3>3
    <2>8. CASE Execute /\ rpc_command = "ABORT"
      <3>1. abort /\ acquired_lease' = acquired_lease
        BY <2>8 DEF Execute
      <3>2. HandedPointerIsLent'
        BY <2>3, <3>1, LentStays DEF HandedPointerIsLent, fileVars
      <3> QED BY <2>2, <2>5, <2>8, <3>1, <3>2
    <2>9. CASE Execute /\ rpc_command = "DOWNLOAD"
      <3>1. CASE Downloadable(rpc_argument)
        BY <2>3, <2>5, <2>9, <3>1
           DEF Execute, Downloadable, download, HandedPointerIsLent
      <3>2. CASE ~Downloadable(rpc_argument)
        BY <2>6, <2>9, <3>2 DEF Execute
      <3> QED BY <3>1, <3>2
    <2>10. CASE Execute /\ rpc_command = "RELEASE"
      <3>1. holding = None /\ holding' = None
        BY <2>3, <2>10 DEF ReleaseIsForgotten
      <3> QED BY <2>5, <2>10, <3>1 DEF HandedPointerIsLent
    <2> QED BY <1>8, <2>6, <2>7, <2>8, <2>9, <2>10 DEF execute, Execute
  <1>9. CASE check
    <2>1. /\ v5f = "check" /\ v5f' = "ack"
          /\ UNCHANGED <<holding, rpc_command, rpc_request, rpc_ack>>
      BY <1>9 DEF check, v3fVars, mailboxVars
    <2>2. rpc_ack # rpc_request
      BY <2>1 DEF MailboxIsStable
    <2>3. CASE rpc_cancel
      <3>1. GiveBack /\ ~acquired_lease' /\ ~rpc_result'
        BY <1>9, <2>3 DEF check
      <3>2. acquired_lease => holding = None
        BY <2>1 DEF RevocableIsUnseen
      <3>3. HandedPointerIsLent'
        <4>1. CASE acquired_lease
          BY <2>1, <3>2, <4>1 DEF HandedPointerIsLent
        <4>2. CASE ~acquired_lease
          <5>1. UNCHANGED fileVars
            BY <3>1, <4>2 DEF GiveBack
          <5> QED BY <2>1, <5>1 DEF HandedPointerIsLent, fileVars
        <4> QED BY <4>1, <4>2
      <3> QED BY <2>1, <3>1, <3>3
              DEF ReleaseIsForgotten, FreshBeforeCommand, ResultIsLent, RevocableIsUnseen
    <2>4. CASE ~rpc_cancel
      <3>1. UNCHANGED <<fileVars, replyVars, acquired_lease>>
        BY <1>9, <2>4 DEF check
      <3> QED BY <2>1, <3>1 DEF fileVars, replyVars, HandedPointerIsLent, ReleaseIsForgotten,
                FreshBeforeCommand, ResultIsLent, RevocableIsUnseen
    <2> QED BY <2>3, <2>4
  <1>11. CASE clean
    <2>1. /\ v5f = "clean" /\ v5f' = "task"
          /\ UNCHANGED <<v3fVars, rpc_ack, replyVars, handledVars, acquired_lease>>
      BY <1>11 DEF clean
    <2>2. CASE CancelSeen
      <3>1. GiveBack
        BY <1>11, <2>2 DEF clean
      <3>2. holding = None /\ v3f # "wait"
        BY <2>2 DEF CancelSeen, RevocableIsUnseen, ClearWhileCalling, Calling
      <3>3. holding' = None /\ v3f' # "wait"
        BY <2>1, <3>2 DEF v3fVars
      <3> QED BY <2>1, <3>3
              DEF v3fVars, mailboxVars, handledVars, replyVars, HandedPointerIsLent,
                  ReleaseIsForgotten, FreshBeforeCommand, ResultIsLent, RevocableIsUnseen
    <2>3. CASE ~CancelSeen
      <3>1. UNCHANGED fileVars
        BY <1>11, <2>3 DEF clean
      <3> QED BY <2>1, <3>1
              DEF v3fVars, mailboxVars, handledVars, replyVars, fileVars, HandedPointerIsLent,
                  ReleaseIsForgotten, FreshBeforeCommand, ResultIsLent, RevocableIsUnseen
    <2> QED BY <2>2, <2>3
  <1>12. CASE task
    <2>1. /\ v5f = "task" /\ v5f' = "take" /\ file_task
          /\ UNCHANGED <<v3fVars, rpc_ack, replyVars, handledVars, acquired_lease>>
      BY <1>12 DEF task
    <2>2. downloading /\ state = "ready" => UNCHANGED fileVars
      BY <2>1, LentStays
    <2> QED BY <2>1, <2>2
            DEF v3fVars, mailboxVars, handledVars, replyVars, fileVars, HandedPointerIsLent,
                ReleaseIsForgotten, FreshBeforeCommand, ResultIsLent, RevocableIsUnseen
  <1> QED BY <1>1, <1>2, <1>3, <1>4, <1>5, <1>6, <1>7, <1>8, <1>9, <1>10, <1>11,
             <1>12, <1>13 DEF Next, V3F, V5F

-----------------------------------------------------------------------------
\* The invariant holds at reset.
THEOREM InitInductive == Init => IInv
  <1> SUFFICES ASSUME Init PROVE IInv  OBVIOUS
  <1>1. 0 \in Words /\ T \in Transactions
    BY RpcAssumption, FileAssumption DEF Words, Transactions
  <1>2. TypeOK
    BY <1>1 DEF Init, FileInit, TypeOK, Commands
  <1>3. /\ MailboxIsStable /\ FreeWhilePosting /\ HandledIsAcked
        /\ ClearWhileCalling /\ AbandonedIsCancelled
    BY DEF Init, MailboxIsStable, FreeWhilePosting, HandledIsAcked, ClearWhileCalling,
           AbandonedIsCancelled, Busy, Calling
  <1>4. LeaseInv
    BY DEF Init, LeaseInv, HandedPointerIsLent, ReleaseIsForgotten, FreshBeforeCommand,
           ResultIsLent, RevocableIsUnseen
  <1> QED BY <1>2, <1>3, <1>4 DEF IInv, MailboxInv, CancelInv

\* No step of either core breaks it.
THEOREM NextInductive == IInv /\ [Next]_vars => IInv'
  BY MailboxStep, CancelStep, LeaseStep DEF IInv

\* So it always holds.
THEOREM Invariance == Spec => []IInv
  BY InitInductive, NextInductive, PTL DEF Spec

\* Every word of the mailbox and of both cores keeps its type.
THEOREM TypeSafety == Spec => []TypeOK
  <1>1. IInv => TypeOK  BY DEF IInv, MailboxInv
  <1> QED BY <1>1, Invariance, PTL

\* V5F executes the command that it took: no later call overwrites the mailbox.
THEOREM MailboxSafety == Spec => []MailboxIsStable
  <1>1. IInv => MailboxIsStable  BY DEF IInv, MailboxInv
  <1> QED BY <1>1, Invariance, PTL

\* Memory a client of V3F sends from is never taken back or given to another.
THEOREM LendingSafety == Spec => []HandedPointerIsLent
  <1>1. IInv => HandedPointerIsLent  BY DEF IInv, LeaseInv
  <1> QED BY <1>1, Invariance, PTL

\* A START or DOWNLOAD whose caller gave up before V5F looked is not executed.
THEOREM NoLateExecution == Spec => NoLateAcquisition
  <1>1. IInv /\ [Next]_vars =>
          [(/\ v5f = "execute" /\ v5f' = "check"
            /\ abandoned = handled_request
            /\ handled_command \in {"START", "DOWNLOAD"})
             => UNCHANGED fileVars]_vars
    <2> SUFFICES ASSUME IInv, [Next]_vars, v5f = "execute", v5f' = "check",
                        abandoned = handled_request,
                        handled_command \in {"START", "DOWNLOAD"}
                 PROVE  UNCHANGED fileVars
      OBVIOUS
    <2>1. rpc_cancel
      BY DEF IInv, MailboxInv, MailboxIsStable, CancelInv, AbandonedIsCancelled
    <2>2. CASE execute
      BY <2>1, <2>2 DEF execute
    <2>3. CASE ~execute
      BY <2>3 DEF Next, V3F, V5F, call, call_refused, post, reply, wait_expires, cancel,
           take, check, ack, clean, task, vars, v5fVars, fileVars
    <2> QED BY <2>2, <2>3
  <1> QED BY <1>1, Invariance, PTL DEF Spec, NoLateAcquisition

-----------------------------------------------------------------------------
(***************************************************************************)
(* The sequence locks, for every set of fields, number of attempts and     *)
(* bound.  SnapshotInv says of each lock what a copy may be relied on for  *)
(* while it is being made: the fields copied so far are the present ones   *)
(* as long as the counter has not moved; of the block, that between        *)
(* publications it is the youngest entry of the history; and of an answer  *)
(* in hand, that the capture core is at rest.                              *)
(***************************************************************************)

\* The snapshot numbered q: q is twice its place in the history.
Entry(q, stats, status) ==
    \/ q = 0 /\ stats = Blank /\ status = 0
    \/ \E n \in 1..Len(published) :
          q = 2 * n /\ published[n] = [source |-> stats, file |-> status]

\* The interrupt leaves every field at half the counter.
SourceInv == \A f \in Fields : statsSequence = 2 * source[f]

InnerCopyInv ==
    /\ capture.at = "copy" =>
         \A f \in Fields \ capture.left :
            capture.before = statsSequence => shared[f] = source[f]
    /\ capture.at = "copy" => capture.before <= statsSequence
    /\ capture.at \in {"file", "end"} => Whole(shared)

BlockInv ==
    /\ sharedSequence =
         2 * Len(published) + (IF capture.at \in {"loop", "ack"} THEN 0 ELSE 1)
    /\ capture.at \in {"loop", "ack"} => Entry(sharedSequence, shared, sharedFile)

OuterCopyInv ==
    /\ network.at \in {"copy", "check"} =>
         /\ network.before <= sharedSequence /\ ~IsOdd(network.before)
         /\ network.attempt < MaxAttempts
         /\ network.before = sharedSequence =>
              \A f \in Fields \ network.left : network.copy[f] = shared[f]
    /\ network.at = "check" =>
         /\ network.left = {}
         /\ network.before = sharedSequence => network.copyFile = sharedFile

CacheInv == cachedSequence # NeverRead => Entry(cachedSequence, snapshot, snapshotFile)

EffectInv ==
    /\ effect <= file
    /\ capture.at \in {"loop", "end", "ack"} => sharedFile >= effect

AnswerInv ==
    /\ AnswerInHand => /\ ~due /\ capture.at = "loop" /\ request = acknowledged
                       /\ network.at # "spin" => network.attempt = 0
                       /\ network.at \in {"copy", "check"} =>
                            network.before = sharedSequence
    /\ (network.at = "loop" /\ network.answered) => request = acknowledged
    /\ network.at = "spin" => ~network.answered
    /\ AnsweredSeesEffect

SnapshotInv ==
    /\ SnapshotTypeOK /\ SourceInv /\ InnerCopyInv /\ PublishedIsWhole /\ BlockInv
    /\ OuterCopyInv /\ CacheInv /\ EffectInv /\ AnswerInv
-----------------------------------------------------------------------------
(* The steps: one lemma for each part of the invariant, one step for each      *)
(* action.                                                                     *)


\* A publication adds one entry to the history and leaves the others alone.
LEMMA PublishEndFacts ==
  ASSUME HistoryTypeOK, DataTypeOK, PublishEnd
  PROVE  /\ Len(published') = Len(published) + 1
         /\ \A n \in 1..Len(published) : published'[n] = published[n]
         /\ published'[Len(published) + 1] = [source |-> shared, file |-> sharedFile]
<1> DEFINE New == [source |-> shared, file |-> sharedFile]
<1>1. New \in [source : [Fields -> Nat], file : Nat] BY DEF DataTypeOK
<1>2. published' = Append(published, New) BY DEF PublishEnd
<1>3. published \in Seq([source : [Fields -> Nat], file : Nat]) BY DEF HistoryTypeOK
<1> HIDE DEF New
<1>4. /\ Len(published') = Len(published) + 1
      /\ \A n \in 1..Len(published) : published'[n] = published[n]
      /\ published'[Len(published) + 1] = New
  BY <1>1, <1>2, <1>3
<1> QED BY <1>4 DEF New

\* Outside a publication the counter is even and the block is an entry.
LEMMA EvenIsAtRest ==
  ASSUME CaptureTypeOK, HistoryTypeOK, BlockInv, ~IsOdd(sharedSequence)
  PROVE  capture.at \in {"loop", "ack"} /\ Entry(sharedSequence, shared, sharedFile)
<1>1. Len(published) \in Nat BY DEF HistoryTypeOK
<1>2. capture.at \in {"loop", "ack"}
  <2> SUFFICES ASSUME capture.at \notin {"loop", "ack"} PROVE FALSE OBVIOUS
  <2>1. sharedSequence = 2 * Len(published) + 1 BY DEF BlockInv
  <2> QED BY <1>1, <2>1 DEF IsOdd
<1> QED BY <1>2 DEF BlockInv

\* The counter is even at rest and odd in a publication.
LEMMA Parity ==
  ASSUME CaptureTypeOK, HistoryTypeOK, BlockInv
  PROVE  IsOdd(sharedSequence) <=> capture.at \notin {"loop", "ack"}
<1>1. Len(published) \in Nat BY DEF HistoryTypeOK
<1>2. CASE capture.at \in {"loop", "ack"}
  <2>1. sharedSequence = 2 * Len(published) BY <1>1, <1>2 DEF BlockInv
  <2> QED BY <1>1, <1>2, <2>1 DEF IsOdd
<1>3. CASE capture.at \notin {"loop", "ack"}
  <2>1. sharedSequence = 2 * Len(published) + 1 BY <1>3 DEF BlockInv
  <2> QED BY <1>1, <1>3, <2>1 DEF IsOdd
<1> QED BY <1>2, <1>3

LEMMA DataTypeOKStep ==
  ASSUME DataTypeOK, CaptureTypeOK, NetworkTypeOK, [SnapshotNext]_snapshotVars
  PROVE  DataTypeOK'
<1> USE FieldsAssumption, BoundsAssumption
    DEF captureState, block, mailbox, cache, history, DataTypeOK,
        NetworkTypeOK, CaptureTypeOK
<1>1. CASE Interrupt BY <1>1 DEF Interrupt
<1>2. CASE Tick BY <1>2 DEF Tick
<1>3. CASE FileTask BY <1>3 DEF FileTask
<1>4. CASE Answer
  <2>1. file' = file + 1 /\ effect' = file' /\ due' = due
    BY <1>4 DEF Answer
  <2>2. sharedSequence' = sharedSequence + 1 BY <1>4 DEF Answer, PublishBegin
  <2>3. UNCHANGED <<source, statsSequence, shared, sharedFile, mailbox, cache>>
    BY <1>4 DEF Answer, PublishBegin
  <2> QED BY <2>1, <2>2, <2>3
<1>5. CASE PublishPeriodic
  <2>1. file' = file /\ effect' = effect BY <1>5 DEF PublishPeriodic
  <2>2. sharedSequence' = sharedSequence + 1
    BY <1>5 DEF PublishPeriodic, PublishBegin
  <2>3. UNCHANGED <<source, statsSequence, shared, sharedFile, mailbox, cache>>
    BY <1>5 DEF PublishPeriodic, PublishBegin
  <2>4. due' \in BOOLEAN BY <1>5 DEF PublishPeriodic
  <2> QED BY <2>1, <2>2, <2>3, <2>4
<1>6. CASE StatsTry BY <1>6 DEF StatsTry
<1>7. ASSUME NEW f \in Fields, StatsCopy(f) PROVE DataTypeOK' BY <1>7 DEF StatsCopy
<1>8. CASE StatsCheck BY <1>8 DEF StatsCheck
<1>9. CASE PublishFile BY <1>9 DEF PublishFile
<1>10. CASE PublishEnd
  <2>1. sharedSequence' = sharedSequence + 1 BY <1>10 DEF PublishEnd
  <2>2. UNCHANGED <<captureState, shared, sharedFile, mailbox, due, cache, effect>>
    BY <1>10 DEF PublishEnd
  <2> QED BY <2>1, <2>2
<1>11. CASE Acknowledge BY <1>11 DEF Acknowledge
<1>12. CASE Ask BY <1>12 DEF Ask
<1>13. CASE SeeAck BY <1>13 DEF SeeAck
<1>14. CASE TimeOut BY <1>14 DEF TimeOut
<1>15. CASE StartRead BY <1>15 DEF StartRead
<1>16. CASE ReadTry BY <1>16 DEF ReadTry
<1>17. ASSUME NEW f \in Fields, ReadCopy(f) PROVE DataTypeOK' BY <1>17 DEF ReadCopy
<1>18. CASE ReadFile BY <1>18 DEF ReadFile
<1>19. CASE ReadKeep BY <1>19 DEF ReadKeep
<1>20. CASE ReadAgain BY <1>20 DEF ReadAgain
<1>21. CASE GiveUp BY <1>21 DEF GiveUp
<1>22. CASE UNCHANGED snapshotVars BY <1>22 DEF snapshotVars
<1> QED BY <1>1, <1>2, <1>3, <1>4, <1>5, <1>6, <1>7, <1>8, <1>9, <1>10, <1>11,
          <1>12, <1>13, <1>14, <1>15, <1>16, <1>17, <1>18, <1>19, <1>20,
          <1>21, <1>22
       DEF SnapshotNext, CaptureNext, NetworkNext

LEMMA CaptureTypeOKStep ==
  ASSUME DataTypeOK, CaptureTypeOK, [SnapshotNext]_snapshotVars
  PROVE  CaptureTypeOK'
<1> USE FieldsAssumption, BoundsAssumption
    DEF captureState, block, mailbox, cache, history, DataTypeOK,
        CaptureTypeOK
<1>1. CASE Interrupt BY <1>1 DEF Interrupt
<1>2. CASE Tick BY <1>2 DEF Tick
<1>3. CASE FileTask BY <1>3 DEF FileTask
<1>4. CASE Answer BY <1>4 DEF Answer, PublishBegin
<1>5. CASE PublishPeriodic BY <1>5 DEF PublishPeriodic, PublishBegin
<1>6. CASE StatsTry BY <1>6 DEF StatsTry
<1>7. ASSUME NEW f \in Fields, StatsCopy(f) PROVE CaptureTypeOK' BY <1>7 DEF StatsCopy
<1>8. CASE StatsCheck BY <1>8 DEF StatsCheck
<1>9. CASE PublishFile BY <1>9 DEF PublishFile
<1>10. CASE PublishEnd BY <1>10 DEF PublishEnd
<1>11. CASE Acknowledge BY <1>11 DEF Acknowledge
<1>12. CASE Ask BY <1>12 DEF Ask
<1>13. CASE SeeAck BY <1>13 DEF SeeAck
<1>14. CASE TimeOut BY <1>14 DEF TimeOut
<1>15. CASE StartRead BY <1>15 DEF StartRead
<1>16. CASE ReadTry BY <1>16 DEF ReadTry
<1>17. ASSUME NEW f \in Fields, ReadCopy(f) PROVE CaptureTypeOK' BY <1>17 DEF ReadCopy
<1>18. CASE ReadFile BY <1>18 DEF ReadFile
<1>19. CASE ReadKeep BY <1>19 DEF ReadKeep
<1>20. CASE ReadAgain BY <1>20 DEF ReadAgain
<1>21. CASE GiveUp BY <1>21 DEF GiveUp
<1>22. CASE UNCHANGED snapshotVars BY <1>22 DEF snapshotVars
<1> QED BY <1>1, <1>2, <1>3, <1>4, <1>5, <1>6, <1>7, <1>8, <1>9, <1>10, <1>11,
          <1>12, <1>13, <1>14, <1>15, <1>16, <1>17, <1>18, <1>19, <1>20,
          <1>21, <1>22
       DEF SnapshotNext, CaptureNext, NetworkNext

LEMMA NetworkTypeOKStep ==
  ASSUME DataTypeOK, NetworkTypeOK, OuterCopyInv, [SnapshotNext]_snapshotVars
  PROVE  NetworkTypeOK'
<1> USE FieldsAssumption, BoundsAssumption
    DEF captureState, block, mailbox, cache, history, DataTypeOK,
        NetworkTypeOK
<1>1. CASE Interrupt BY <1>1 DEF Interrupt
<1>2. CASE Tick BY <1>2 DEF Tick
<1>3. CASE FileTask BY <1>3 DEF FileTask
<1>4. CASE Answer BY <1>4 DEF Answer, PublishBegin
<1>5. CASE PublishPeriodic BY <1>5 DEF PublishPeriodic, PublishBegin
<1>6. CASE StatsTry BY <1>6 DEF StatsTry
<1>7. ASSUME NEW f \in Fields, StatsCopy(f) PROVE NetworkTypeOK' BY <1>7 DEF StatsCopy
<1>8. CASE StatsCheck BY <1>8 DEF StatsCheck
<1>9. CASE PublishFile BY <1>9 DEF PublishFile
<1>10. CASE PublishEnd BY <1>10 DEF PublishEnd
<1>11. CASE Acknowledge BY <1>11 DEF Acknowledge
<1>12. CASE Ask BY <1>12 DEF Ask
<1>13. CASE SeeAck
  <2>1. 0 \in 0..MaxAttempts OBVIOUS
  <2> QED BY <1>13, <2>1 DEF SeeAck
<1>14. CASE TimeOut BY <1>14 DEF TimeOut
<1>15. CASE StartRead
  <2>1. 0 \in 0..MaxAttempts OBVIOUS
  <2> QED BY <1>15, <2>1 DEF StartRead
<1>16. CASE ReadTry
  <2>1. CASE IsOdd(sharedSequence) BY <1>16, <2>1 DEF ReadTry
  <2>2. CASE ~IsOdd(sharedSequence) /\ sharedSequence = cachedSequence
    BY <1>16, <2>2 DEF ReadTry
  <2>3. CASE ~IsOdd(sharedSequence) /\ sharedSequence # cachedSequence
    BY <1>16, <2>3 DEF ReadTry
  <2> QED BY <2>1, <2>2, <2>3
<1>17. ASSUME NEW f \in Fields, ReadCopy(f) PROVE NetworkTypeOK' BY <1>17 DEF ReadCopy
<1>18. CASE ReadFile BY <1>18 DEF ReadFile
<1>19. CASE ReadKeep BY <1>19 DEF ReadKeep
<1>20. CASE ReadAgain
  <2>1. network.attempt + 1 \in 0..MaxAttempts BY <1>20 DEF ReadAgain, OuterCopyInv
  <2> QED BY <1>20, <2>1 DEF ReadAgain
<1>21. CASE GiveUp BY <1>21 DEF GiveUp
<1>22. CASE UNCHANGED snapshotVars BY <1>22 DEF snapshotVars
<1> QED BY <1>1, <1>2, <1>3, <1>4, <1>5, <1>6, <1>7, <1>8, <1>9, <1>10, <1>11,
          <1>12, <1>13, <1>14, <1>15, <1>16, <1>17, <1>18, <1>19, <1>20,
          <1>21, <1>22
       DEF SnapshotNext, CaptureNext, NetworkNext

LEMMA HistoryTypeOKStep ==
  ASSUME DataTypeOK, HistoryTypeOK, [SnapshotNext]_snapshotVars
  PROVE  HistoryTypeOK'
<1> USE FieldsAssumption, BoundsAssumption
    DEF captureState, block, mailbox, cache, history, HistoryTypeOK
<1>1. CASE Interrupt BY <1>1 DEF Interrupt
<1>2. CASE Tick BY <1>2 DEF Tick
<1>3. CASE FileTask BY <1>3 DEF FileTask
<1>4. CASE Answer BY <1>4 DEF Answer, PublishBegin
<1>5. CASE PublishPeriodic BY <1>5 DEF PublishPeriodic, PublishBegin
<1>6. CASE StatsTry BY <1>6 DEF StatsTry
<1>7. ASSUME NEW f \in Fields, StatsCopy(f) PROVE HistoryTypeOK' BY <1>7 DEF StatsCopy
<1>8. CASE StatsCheck BY <1>8 DEF StatsCheck
<1>9. CASE PublishFile BY <1>9 DEF PublishFile
<1>10. CASE PublishEnd
  <2>1. [source |-> shared, file |-> sharedFile] \in [source : [Fields -> Nat], file : Nat]
    BY DEF DataTypeOK
  <2> QED BY <1>10, <2>1 DEF PublishEnd
<1>11. CASE Acknowledge BY <1>11 DEF Acknowledge
<1>12. CASE Ask BY <1>12 DEF Ask
<1>13. CASE SeeAck BY <1>13 DEF SeeAck
<1>14. CASE TimeOut BY <1>14 DEF TimeOut
<1>15. CASE StartRead BY <1>15 DEF StartRead
<1>16. CASE ReadTry BY <1>16 DEF ReadTry
<1>17. ASSUME NEW f \in Fields, ReadCopy(f) PROVE HistoryTypeOK' BY <1>17 DEF ReadCopy
<1>18. CASE ReadFile BY <1>18 DEF ReadFile
<1>19. CASE ReadKeep BY <1>19 DEF ReadKeep
<1>20. CASE ReadAgain BY <1>20 DEF ReadAgain
<1>21. CASE GiveUp BY <1>21 DEF GiveUp
<1>22. CASE UNCHANGED snapshotVars BY <1>22 DEF snapshotVars
<1> QED BY <1>1, <1>2, <1>3, <1>4, <1>5, <1>6, <1>7, <1>8, <1>9, <1>10, <1>11,
          <1>12, <1>13, <1>14, <1>15, <1>16, <1>17, <1>18, <1>19, <1>20,
          <1>21, <1>22
       DEF SnapshotNext, CaptureNext, NetworkNext

LEMMA SourceInvStep ==
  ASSUME DataTypeOK, SourceInv, [SnapshotNext]_snapshotVars
  PROVE  SourceInv'
<1> USE FieldsAssumption, BoundsAssumption
    DEF captureState, block, mailbox, cache, history, DataTypeOK, SourceInv
<1>1. CASE Interrupt
  <2>1. \A f \in Fields : source'[f] = source[f] + 1 /\ source[f] \in Nat
    BY <1>1 DEF Interrupt
  <2>2. statsSequence' = statsSequence + 2 BY <1>1 DEF Interrupt
  <2> QED BY <2>1, <2>2
<1>2. CASE Tick BY <1>2 DEF Tick
<1>3. CASE FileTask BY <1>3 DEF FileTask
<1>4. CASE Answer BY <1>4 DEF Answer, PublishBegin
<1>5. CASE PublishPeriodic BY <1>5 DEF PublishPeriodic, PublishBegin
<1>6. CASE StatsTry BY <1>6 DEF StatsTry
<1>7. ASSUME NEW f \in Fields, StatsCopy(f) PROVE SourceInv' BY <1>7 DEF StatsCopy
<1>8. CASE StatsCheck BY <1>8 DEF StatsCheck
<1>9. CASE PublishFile BY <1>9 DEF PublishFile
<1>10. CASE PublishEnd BY <1>10 DEF PublishEnd
<1>11. CASE Acknowledge BY <1>11 DEF Acknowledge
<1>12. CASE Ask BY <1>12 DEF Ask
<1>13. CASE SeeAck BY <1>13 DEF SeeAck
<1>14. CASE TimeOut BY <1>14 DEF TimeOut
<1>15. CASE StartRead BY <1>15 DEF StartRead
<1>16. CASE ReadTry BY <1>16 DEF ReadTry
<1>17. ASSUME NEW f \in Fields, ReadCopy(f) PROVE SourceInv' BY <1>17 DEF ReadCopy
<1>18. CASE ReadFile BY <1>18 DEF ReadFile
<1>19. CASE ReadKeep BY <1>19 DEF ReadKeep
<1>20. CASE ReadAgain BY <1>20 DEF ReadAgain
<1>21. CASE GiveUp BY <1>21 DEF GiveUp
<1>22. CASE UNCHANGED snapshotVars BY <1>22 DEF snapshotVars
<1> QED BY <1>1, <1>2, <1>3, <1>4, <1>5, <1>6, <1>7, <1>8, <1>9, <1>10, <1>11,
          <1>12, <1>13, <1>14, <1>15, <1>16, <1>17, <1>18, <1>19, <1>20,
          <1>21, <1>22
       DEF SnapshotNext, CaptureNext, NetworkNext

LEMMA InnerCopyInvStep ==
  ASSUME DataTypeOK, CaptureTypeOK, SourceInv, InnerCopyInv, [SnapshotNext]_snapshotVars
  PROVE  InnerCopyInv'
<1> USE FieldsAssumption, BoundsAssumption
    DEF captureState, block, mailbox, cache, history, DataTypeOK,
        CaptureTypeOK, SourceInv, InnerCopyInv, Whole
<1>1. CASE Interrupt BY <1>1 DEF Interrupt
<1>2. CASE Tick BY <1>2 DEF Tick
<1>3. CASE FileTask BY <1>3 DEF FileTask
<1>4. CASE Answer BY <1>4 DEF Answer, PublishBegin
<1>5. CASE PublishPeriodic BY <1>5 DEF PublishPeriodic, PublishBegin
<1>6. CASE StatsTry BY <1>6 DEF StatsTry
<1>7. ASSUME NEW f \in Fields, StatsCopy(f) PROVE InnerCopyInv' BY <1>7 DEF StatsCopy
<1>8. CASE StatsCheck
  <2>1. CASE statsSequence = capture.before
    <3>1. \A f \in Fields : shared[f] = source[f] /\ statsSequence = 2 * source[f]
      BY <1>8, <2>1 DEF StatsCheck
    <3>2. \A f, g \in Fields : shared[f] = shared[g] BY <3>1
    <3>3. capture'.at = "file" /\ shared' = shared BY <1>8, <2>1 DEF StatsCheck
    <3> QED BY <3>2, <3>3
  <2>2. CASE statsSequence # capture.before BY <1>8, <2>2 DEF StatsCheck
  <2> QED BY <2>1, <2>2
<1>9. CASE PublishFile BY <1>9 DEF PublishFile
<1>10. CASE PublishEnd BY <1>10 DEF PublishEnd
<1>11. CASE Acknowledge BY <1>11 DEF Acknowledge
<1>12. CASE Ask BY <1>12 DEF Ask
<1>13. CASE SeeAck BY <1>13 DEF SeeAck
<1>14. CASE TimeOut BY <1>14 DEF TimeOut
<1>15. CASE StartRead BY <1>15 DEF StartRead
<1>16. CASE ReadTry BY <1>16 DEF ReadTry
<1>17. ASSUME NEW f \in Fields, ReadCopy(f) PROVE InnerCopyInv' BY <1>17 DEF ReadCopy
<1>18. CASE ReadFile BY <1>18 DEF ReadFile
<1>19. CASE ReadKeep BY <1>19 DEF ReadKeep
<1>20. CASE ReadAgain BY <1>20 DEF ReadAgain
<1>21. CASE GiveUp BY <1>21 DEF GiveUp
<1>22. CASE UNCHANGED snapshotVars BY <1>22 DEF snapshotVars
<1> QED BY <1>1, <1>2, <1>3, <1>4, <1>5, <1>6, <1>7, <1>8, <1>9, <1>10, <1>11,
          <1>12, <1>13, <1>14, <1>15, <1>16, <1>17, <1>18, <1>19, <1>20,
          <1>21, <1>22
       DEF SnapshotNext, CaptureNext, NetworkNext

LEMMA PublishedIsWholeStep ==
  ASSUME DataTypeOK, HistoryTypeOK, InnerCopyInv, PublishedIsWhole, [SnapshotNext]_snapshotVars
  PROVE  PublishedIsWhole'
<1> USE FieldsAssumption, BoundsAssumption
    DEF captureState, block, mailbox, cache, history, HistoryTypeOK,
        InnerCopyInv, PublishedIsWhole
<1>1. CASE Interrupt
  <2>1. published' = published BY <1>1 DEF Interrupt
  <2> QED BY <2>1
<1>2. CASE Tick BY <1>2 DEF Tick
<1>3. CASE FileTask BY <1>3 DEF FileTask
<1>4. CASE Answer
  <2>1. published' = published BY <1>4 DEF Answer, PublishBegin
  <2> QED BY <2>1
<1>5. CASE PublishPeriodic
  <2>1. published' = published BY <1>5 DEF PublishPeriodic, PublishBegin
  <2> QED BY <2>1
<1>6. CASE StatsTry BY <1>6 DEF StatsTry
<1>7. ASSUME NEW f \in Fields, StatsCopy(f) PROVE PublishedIsWhole' BY <1>7 DEF StatsCopy
<1>8. CASE StatsCheck BY <1>8 DEF StatsCheck
<1>9. CASE PublishFile BY <1>9 DEF PublishFile
<1>10. CASE PublishEnd
  <2>1. Whole(shared) BY <1>10 DEF PublishEnd
  <2>2. Len(published) \in Nat OBVIOUS
  <2>3. /\ Len(published') = Len(published) + 1
        /\ \A n \in 1..Len(published) : published'[n] = published[n]
        /\ published'[Len(published) + 1] = [source |-> shared, file |-> sharedFile]
    BY <1>10, PublishEndFacts
  <2>4. ASSUME NEW n \in 1..Len(published') PROVE Whole(published'[n].source)
    <3>1. n \in 1..Len(published) \/ n = Len(published) + 1 BY <2>2, <2>3
    <3>3. CASE n \in 1..Len(published)
      <4>1. published'[n] = published[n] BY <2>3, <3>3
      <4> QED BY <3>3, <4>1 DEF Whole
    <3>4. CASE n = Len(published) + 1
      <4>1. published'[n].source = shared BY <2>3, <3>4
      <4> QED BY <2>1, <4>1 DEF Whole
    <3> QED BY <3>1, <3>3, <3>4
  <2> QED BY <2>4
<1>11. CASE Acknowledge BY <1>11 DEF Acknowledge
<1>12. CASE Ask BY <1>12 DEF Ask
<1>13. CASE SeeAck BY <1>13 DEF SeeAck
<1>14. CASE TimeOut BY <1>14 DEF TimeOut
<1>15. CASE StartRead BY <1>15 DEF StartRead
<1>16. CASE ReadTry BY <1>16 DEF ReadTry
<1>17. ASSUME NEW f \in Fields, ReadCopy(f) PROVE PublishedIsWhole' BY <1>17 DEF ReadCopy
<1>18. CASE ReadFile BY <1>18 DEF ReadFile
<1>19. CASE ReadKeep BY <1>19 DEF ReadKeep
<1>20. CASE ReadAgain BY <1>20 DEF ReadAgain
<1>21. CASE GiveUp BY <1>21 DEF GiveUp
<1>22. CASE UNCHANGED snapshotVars BY <1>22 DEF snapshotVars
<1> QED BY <1>1, <1>2, <1>3, <1>4, <1>5, <1>6, <1>7, <1>8, <1>9, <1>10, <1>11,
          <1>12, <1>13, <1>14, <1>15, <1>16, <1>17, <1>18, <1>19, <1>20,
          <1>21, <1>22
       DEF SnapshotNext, CaptureNext, NetworkNext

LEMMA BlockInvStep ==
  ASSUME DataTypeOK, CaptureTypeOK, HistoryTypeOK, BlockInv, [SnapshotNext]_snapshotVars
  PROVE  BlockInv'
<1> USE FieldsAssumption, BoundsAssumption
    DEF captureState, block, mailbox, cache, history, DataTypeOK,
        CaptureTypeOK, HistoryTypeOK, BlockInv, Entry
<1>1. CASE Interrupt BY <1>1 DEF Interrupt
<1>2. CASE Tick BY <1>2 DEF Tick
<1>3. CASE FileTask BY <1>3 DEF FileTask
<1>4. CASE Answer BY <1>4 DEF Answer, PublishBegin
<1>5. CASE PublishPeriodic BY <1>5 DEF PublishPeriodic, PublishBegin
<1>6. CASE StatsTry BY <1>6 DEF StatsTry
<1>7. ASSUME NEW f \in Fields, StatsCopy(f) PROVE BlockInv' BY <1>7 DEF StatsCopy
<1>8. CASE StatsCheck BY <1>8 DEF StatsCheck
<1>9. CASE PublishFile BY <1>9 DEF PublishFile
<1>10. CASE PublishEnd
  <2>1. Len(published) \in Nat OBVIOUS
  <2>2. /\ sharedSequence' = sharedSequence + 1
        /\ shared' = shared /\ sharedFile' = sharedFile
        /\ capture'.at \in {"loop", "ack"} /\ capture.at = "end"
    BY <1>10 DEF PublishEnd
  <2>3. sharedSequence' = 2 * (Len(published) + 1) BY <2>1, <2>2
  <2>4. /\ Len(published') = Len(published) + 1
        /\ published'[Len(published) + 1] = [source |-> shared, file |-> sharedFile]
    BY <1>10, PublishEndFacts
  <2>5. Len(published) + 1 \in 1..Len(published') BY <2>1, <2>4
  <2>6. Entry(sharedSequence, shared, sharedFile)' BY <2>2, <2>3, <2>4, <2>5
  <2>7. sharedSequence' = 2 * Len(published') BY <2>3, <2>4
  <2> QED BY <2>2, <2>6, <2>7
<1>11. CASE Acknowledge BY <1>11 DEF Acknowledge
<1>12. CASE Ask BY <1>12 DEF Ask
<1>13. CASE SeeAck BY <1>13 DEF SeeAck
<1>14. CASE TimeOut BY <1>14 DEF TimeOut
<1>15. CASE StartRead BY <1>15 DEF StartRead
<1>16. CASE ReadTry BY <1>16 DEF ReadTry
<1>17. ASSUME NEW f \in Fields, ReadCopy(f) PROVE BlockInv' BY <1>17 DEF ReadCopy
<1>18. CASE ReadFile BY <1>18 DEF ReadFile
<1>19. CASE ReadKeep BY <1>19 DEF ReadKeep
<1>20. CASE ReadAgain BY <1>20 DEF ReadAgain
<1>21. CASE GiveUp BY <1>21 DEF GiveUp
<1>22. CASE UNCHANGED snapshotVars BY <1>22 DEF snapshotVars
<1> QED BY <1>1, <1>2, <1>3, <1>4, <1>5, <1>6, <1>7, <1>8, <1>9, <1>10, <1>11,
          <1>12, <1>13, <1>14, <1>15, <1>16, <1>17, <1>18, <1>19, <1>20,
          <1>21, <1>22
       DEF SnapshotNext, CaptureNext, NetworkNext

LEMMA OuterCopyInvStep ==
  ASSUME DataTypeOK, CaptureTypeOK, NetworkTypeOK, HistoryTypeOK, BlockInv, OuterCopyInv, [SnapshotNext]_snapshotVars
  PROVE  OuterCopyInv'
<1> USE FieldsAssumption, BoundsAssumption
    DEF captureState, block, mailbox, cache, history, DataTypeOK,
        CaptureTypeOK, NetworkTypeOK, OuterCopyInv
<1>1. CASE Interrupt BY <1>1 DEF Interrupt
<1>2. CASE Tick BY <1>2 DEF Tick
<1>3. CASE FileTask BY <1>3 DEF FileTask
<1>4. CASE Answer
  <2>1. sharedSequence' = sharedSequence + 1 /\ network' = network
    BY <1>4 DEF Answer, PublishBegin
  <2> QED BY <2>1
<1>5. CASE PublishPeriodic
  <2>1. sharedSequence' = sharedSequence + 1 /\ network' = network
    BY <1>5 DEF PublishPeriodic, PublishBegin
  <2> QED BY <2>1
<1>6. CASE StatsTry BY <1>6 DEF StatsTry
<1>7. ASSUME NEW f \in Fields, StatsCopy(f) PROVE OuterCopyInv'
  <2>1. IsOdd(sharedSequence) BY <1>7, Parity DEF StatsCopy
  <2>2. sharedSequence' = sharedSequence /\ network' = network BY <1>7 DEF StatsCopy
  <2> QED BY <2>1, <2>2
<1>8. CASE StatsCheck BY <1>8 DEF StatsCheck
<1>9. CASE PublishFile
  <2>1. IsOdd(sharedSequence) BY <1>9, Parity DEF PublishFile
  <2>2. sharedSequence' = sharedSequence /\ network' = network BY <1>9 DEF PublishFile
  <2> QED BY <2>1, <2>2
<1>10. CASE PublishEnd
  <2>1. sharedSequence' = sharedSequence + 1 /\ network' = network
    BY <1>10 DEF PublishEnd
  <2> QED BY <2>1
<1>11. CASE Acknowledge BY <1>11 DEF Acknowledge
<1>12. CASE Ask BY <1>12 DEF Ask
<1>13. CASE SeeAck BY <1>13 DEF SeeAck
<1>14. CASE TimeOut BY <1>14 DEF TimeOut
<1>15. CASE StartRead BY <1>15 DEF StartRead
<1>16. CASE ReadTry
  <2>1. CASE IsOdd(sharedSequence) BY <1>16, <2>1 DEF ReadTry
  <2>2. CASE ~IsOdd(sharedSequence) /\ sharedSequence = cachedSequence
    BY <1>16, <2>2 DEF ReadTry
  <2>3. CASE ~IsOdd(sharedSequence) /\ sharedSequence # cachedSequence
    BY <1>16, <2>3 DEF ReadTry
  <2> QED BY <2>1, <2>2, <2>3
<1>17. ASSUME NEW f \in Fields, ReadCopy(f) PROVE OuterCopyInv' BY <1>17 DEF ReadCopy
<1>18. CASE ReadFile BY <1>18 DEF ReadFile
<1>19. CASE ReadKeep BY <1>19 DEF ReadKeep
<1>20. CASE ReadAgain BY <1>20 DEF ReadAgain
<1>21. CASE GiveUp BY <1>21 DEF GiveUp
<1>22. CASE UNCHANGED snapshotVars BY <1>22 DEF snapshotVars
<1> QED BY <1>1, <1>2, <1>3, <1>4, <1>5, <1>6, <1>7, <1>8, <1>9, <1>10, <1>11,
          <1>12, <1>13, <1>14, <1>15, <1>16, <1>17, <1>18, <1>19, <1>20,
          <1>21, <1>22
       DEF SnapshotNext, CaptureNext, NetworkNext

LEMMA CacheInvStep ==
  ASSUME DataTypeOK, CaptureTypeOK, NetworkTypeOK, HistoryTypeOK, BlockInv, OuterCopyInv, CacheInv, [SnapshotNext]_snapshotVars
  PROVE  CacheInv'
<1> USE FieldsAssumption, BoundsAssumption
    DEF captureState, block, mailbox, cache, history, DataTypeOK,
        NetworkTypeOK, OuterCopyInv, CacheInv, Entry, NeverRead
<1>1. CASE Interrupt BY <1>1 DEF Interrupt
<1>2. CASE Tick BY <1>2 DEF Tick
<1>3. CASE FileTask BY <1>3 DEF FileTask
<1>4. CASE Answer BY <1>4 DEF Answer, PublishBegin
<1>5. CASE PublishPeriodic BY <1>5 DEF PublishPeriodic, PublishBegin
<1>6. CASE StatsTry BY <1>6 DEF StatsTry
<1>7. ASSUME NEW f \in Fields, StatsCopy(f) PROVE CacheInv' BY <1>7 DEF StatsCopy
<1>8. CASE StatsCheck BY <1>8 DEF StatsCheck
<1>9. CASE PublishFile BY <1>9 DEF PublishFile
<1>10. CASE PublishEnd
  <2>1. Len(published) \in Nat BY DEF HistoryTypeOK
  <2>2. UNCHANGED cache BY <1>10 DEF PublishEnd
  <2>3. Len(published') = Len(published) + 1
    BY <1>10, PublishEndFacts
  <2>4. \A n \in 1..Len(published) :
           n \in 1..Len(published') /\ published'[n] = published[n]
    BY SMTT(40), <1>10, <2>1, <2>3, PublishEndFacts
  <2> QED BY <2>2, <2>4
<1>11. CASE Acknowledge BY <1>11 DEF Acknowledge
<1>12. CASE Ask BY <1>12 DEF Ask
<1>13. CASE SeeAck BY <1>13 DEF SeeAck
<1>14. CASE TimeOut BY <1>14 DEF TimeOut
<1>15. CASE StartRead BY <1>15 DEF StartRead
<1>16. CASE ReadTry BY <1>16 DEF ReadTry
<1>17. ASSUME NEW f \in Fields, ReadCopy(f) PROVE CacheInv' BY <1>17 DEF ReadCopy
<1>18. CASE ReadFile BY <1>18 DEF ReadFile
<1>19. CASE ReadKeep
  <2>1. /\ sharedSequence = network.before /\ ~IsOdd(sharedSequence)
        /\ network.left = {} /\ network.copyFile = sharedFile
        /\ \A f \in Fields : network.copy[f] = shared[f]
    BY <1>19 DEF ReadKeep
  <2>2. network.copy = shared BY <2>1
  <2>3. Entry(sharedSequence, shared, sharedFile) BY <2>1, EvenIsAtRest
  <2>4. /\ snapshot' = shared /\ snapshotFile' = sharedFile
        /\ cachedSequence' = sharedSequence /\ published' = published
    BY <1>19, <2>1, <2>2 DEF ReadKeep
  <2> QED BY <2>3, <2>4
<1>20. CASE ReadAgain BY <1>20 DEF ReadAgain
<1>21. CASE GiveUp BY <1>21 DEF GiveUp
<1>22. CASE UNCHANGED snapshotVars BY <1>22 DEF snapshotVars
<1> QED BY <1>1, <1>2, <1>3, <1>4, <1>5, <1>6, <1>7, <1>8, <1>9, <1>10, <1>11,
          <1>12, <1>13, <1>14, <1>15, <1>16, <1>17, <1>18, <1>19, <1>20,
          <1>21, <1>22
       DEF SnapshotNext, CaptureNext, NetworkNext

LEMMA EffectInvStep ==
  ASSUME DataTypeOK, CaptureTypeOK, EffectInv, [SnapshotNext]_snapshotVars
  PROVE  EffectInv'
<1> USE FieldsAssumption, BoundsAssumption
    DEF captureState, block, mailbox, cache, history, DataTypeOK,
        CaptureTypeOK, EffectInv
<1>1. CASE Interrupt BY <1>1 DEF Interrupt
<1>2. CASE Tick BY <1>2 DEF Tick
<1>3. CASE FileTask BY <1>3 DEF FileTask
<1>4. CASE Answer BY <1>4 DEF Answer, PublishBegin
<1>5. CASE PublishPeriodic BY <1>5 DEF PublishPeriodic, PublishBegin
<1>6. CASE StatsTry BY <1>6 DEF StatsTry
<1>7. ASSUME NEW f \in Fields, StatsCopy(f) PROVE EffectInv' BY <1>7 DEF StatsCopy
<1>8. CASE StatsCheck BY <1>8 DEF StatsCheck
<1>9. CASE PublishFile BY <1>9 DEF PublishFile
<1>10. CASE PublishEnd BY <1>10 DEF PublishEnd
<1>11. CASE Acknowledge BY <1>11 DEF Acknowledge
<1>12. CASE Ask BY <1>12 DEF Ask
<1>13. CASE SeeAck BY <1>13 DEF SeeAck
<1>14. CASE TimeOut BY <1>14 DEF TimeOut
<1>15. CASE StartRead BY <1>15 DEF StartRead
<1>16. CASE ReadTry BY <1>16 DEF ReadTry
<1>17. ASSUME NEW f \in Fields, ReadCopy(f) PROVE EffectInv' BY <1>17 DEF ReadCopy
<1>18. CASE ReadFile BY <1>18 DEF ReadFile
<1>19. CASE ReadKeep BY <1>19 DEF ReadKeep
<1>20. CASE ReadAgain BY <1>20 DEF ReadAgain
<1>21. CASE GiveUp BY <1>21 DEF GiveUp
<1>22. CASE UNCHANGED snapshotVars BY <1>22 DEF snapshotVars
<1> QED BY <1>1, <1>2, <1>3, <1>4, <1>5, <1>6, <1>7, <1>8, <1>9, <1>10, <1>11,
          <1>12, <1>13, <1>14, <1>15, <1>16, <1>17, <1>18, <1>19, <1>20,
          <1>21, <1>22
       DEF SnapshotNext, CaptureNext, NetworkNext

LEMMA AnswerInvStep ==
  ASSUME DataTypeOK, CaptureTypeOK, NetworkTypeOK, HistoryTypeOK, BlockInv, OuterCopyInv, CacheInv, EffectInv, AnswerInv, [SnapshotNext]_snapshotVars
  PROVE  AnswerInv'
<1> USE FieldsAssumption, BoundsAssumption
    DEF captureState, block, mailbox, cache, history, DataTypeOK,
        CaptureTypeOK, NetworkTypeOK, OuterCopyInv, EffectInv, AnswerInv,
        AnswerInHand, AnsweredSeesEffect
<1>1. CASE Interrupt BY <1>1 DEF Interrupt
<1>2. CASE Tick BY <1>2 DEF Tick
<1>3. CASE FileTask BY <1>3 DEF FileTask
<1>4. CASE Answer BY <1>4 DEF Answer, PublishBegin
<1>5. CASE PublishPeriodic BY <1>5 DEF PublishPeriodic, PublishBegin
<1>6. CASE StatsTry BY <1>6 DEF StatsTry
<1>7. ASSUME NEW f \in Fields, StatsCopy(f) PROVE AnswerInv' BY <1>7 DEF StatsCopy
<1>8. CASE StatsCheck BY <1>8 DEF StatsCheck
<1>9. CASE PublishFile BY <1>9 DEF PublishFile
<1>10. CASE PublishEnd BY <1>10 DEF PublishEnd
<1>11. CASE Acknowledge
  <2>1. /\ acknowledged' = request /\ request' = request /\ due' = FALSE
        /\ capture'.at = "loop" /\ UNCHANGED <<network, cache, effect>>
    BY <1>11 DEF Acknowledge
  <2>2. ~(network.at \in {"try", "copy", "check"} /\ network.answered)
    BY <1>11 DEF Acknowledge
  <2> QED BY <2>1, <2>2
<1>12. CASE Ask BY <1>12 DEF Ask
<1>13. CASE SeeAck BY <1>13 DEF SeeAck
<1>14. CASE TimeOut
  <2>1. /\ acknowledged # request /\ ~network'.answered /\ network'.at = "loop"
        /\ UNCHANGED <<captureState, block, mailbox, due, capture, cache, history>>
    BY <1>14 DEF TimeOut
  <2> QED BY <2>1
<1>15. CASE StartRead BY <1>15 DEF StartRead
<1>16. CASE ReadTry
  <2>1. UNCHANGED <<captureState, block, mailbox, due, capture, cache, history>>
    BY <1>16 DEF ReadTry
  <2>2. CASE ~network.answered
    <3>1. network'.at # "spin" /\ ~network'.answered BY <1>16, <2>2 DEF ReadTry
    <3> QED BY <2>1, <3>1
  <2>3. CASE network.answered
    <3>1. ~IsOdd(sharedSequence) BY <1>16, <2>3, Parity DEF ReadTry
    <3>2. Entry(sharedSequence, shared, sharedFile) BY <3>1, EvenIsAtRest
    <3>3. CASE sharedSequence = cachedSequence
      <4>1. Entry(cachedSequence, snapshot, snapshotFile) BY <3>3 DEF CacheInv, NeverRead
      <4>2. snapshotFile = sharedFile
        <5>1. CASE sharedSequence = 0 BY <3>2, <3>3, <4>1, <5>1 DEF Entry
        <5>2. CASE sharedSequence # 0
          <6>1. PICK n \in 1 .. Len(published) :
                  /\ sharedSequence = 2 * n
                  /\ published[n] = [source |-> shared, file |-> sharedFile]
            BY <3>2, <5>2 DEF Entry
          <6>2. PICK m \in 1 .. Len(published) :
                  /\ sharedSequence = 2 * m
                  /\ published[m] = [source |-> snapshot, file |-> snapshotFile]
            BY <3>3, <4>1, <5>2 DEF Entry
          <6>3. m = n BY <6>1, <6>2
          <6> QED BY <6>1, <6>2, <6>3
        <5> QED BY <5>1, <5>2
      <4>3. network' = [network EXCEPT !.at = "loop"]
        BY <1>16, <3>1, <3>3 DEF ReadTry
      <4> QED BY <1>16, <2>1, <2>3, <4>2, <4>3 DEF ReadTry
    <3>4. CASE sharedSequence # cachedSequence
      BY <1>16, <2>1, <2>3, <3>1, <3>4 DEF ReadTry
    <3> QED BY <3>3, <3>4
  <2> QED BY <2>2, <2>3
<1>17. ASSUME NEW f \in Fields, ReadCopy(f) PROVE AnswerInv' BY <1>17 DEF ReadCopy
<1>18. CASE ReadFile BY <1>18 DEF ReadFile
<1>19. CASE ReadKeep BY <1>19 DEF ReadKeep
<1>20. CASE ReadAgain BY <1>20 DEF ReadAgain
<1>21. CASE GiveUp BY <1>21 DEF GiveUp
<1>22. CASE UNCHANGED snapshotVars BY <1>22 DEF snapshotVars
<1> QED BY <1>1, <1>2, <1>3, <1>4, <1>5, <1>6, <1>7, <1>8, <1>9, <1>10, <1>11,
          <1>12, <1>13, <1>14, <1>15, <1>16, <1>17, <1>18, <1>19, <1>20,
          <1>21, <1>22
       DEF SnapshotNext, CaptureNext, NetworkNext


\* The invariant is inductive.
THEOREM SnapshotInvIsInductive ==
  /\ SnapshotInit => SnapshotInv
  /\ SnapshotInv /\ [SnapshotNext]_snapshotVars => SnapshotInv'
<1>1. SnapshotInit => SnapshotInv
  <2> SUFFICES ASSUME SnapshotInit PROVE SnapshotInv OBVIOUS
  <2>1. DataTypeOK /\ CaptureTypeOK BY DEF SnapshotInit, DataTypeOK, CaptureTypeOK, Blank, NeverRead
  <2>2. NetworkTypeOK BY BoundsAssumption DEF SnapshotInit, NetworkTypeOK, Blank
  <2>3. HistoryTypeOK BY DEF SnapshotInit, HistoryTypeOK
  <2>4. SourceInv /\ InnerCopyInv /\ CacheInv /\ OuterCopyInv
    BY DEF SnapshotInit, SourceInv, Blank, InnerCopyInv, CacheInv, OuterCopyInv
  <2>5. PublishedIsWhole /\ BlockInv
    BY DEF SnapshotInit, PublishedIsWhole, BlockInv, Entry
  <2>6. EffectInv /\ AnswerInv
    BY DEF SnapshotInit, EffectInv, AnswerInv, AnswerInHand, AnsweredSeesEffect
  <2> QED BY <2>1, <2>2, <2>3, <2>4, <2>5, <2>6 DEF SnapshotInv, SnapshotTypeOK
<1>2. SnapshotInv /\ [SnapshotNext]_snapshotVars => SnapshotInv'
  <2> SUFFICES ASSUME SnapshotInv, [SnapshotNext]_snapshotVars PROVE SnapshotInv' OBVIOUS
  <2>1. /\ DataTypeOK /\ CaptureTypeOK /\ NetworkTypeOK /\ HistoryTypeOK
        /\ SourceInv /\ InnerCopyInv /\ PublishedIsWhole /\ BlockInv
        /\ OuterCopyInv /\ CacheInv /\ EffectInv /\ AnswerInv
    BY DEF SnapshotInv, SnapshotTypeOK
  <2>2. SnapshotTypeOK' BY <2>1, DataTypeOKStep, CaptureTypeOKStep, NetworkTypeOKStep,
                   HistoryTypeOKStep DEF SnapshotTypeOK
  <2>3. SourceInv' /\ InnerCopyInv' /\ PublishedIsWhole'
    BY <2>1, SourceInvStep, InnerCopyInvStep, PublishedIsWholeStep
  <2>4. BlockInv' /\ OuterCopyInv' /\ CacheInv'
    BY <2>1, BlockInvStep, OuterCopyInvStep, CacheInvStep
  <2>5. EffectInv' /\ AnswerInv' BY <2>1, EffectInvStep, AnswerInvStep
  <2> QED BY <2>2, <2>3, <2>4, <2>5 DEF SnapshotInv
<1> QED BY <1>1, <1>2

\* Every variable keeps its type: in particular read_snapshot never goes past
\* its attempts.
THEOREM SnapshotTypes == SnapshotSpec => []SnapshotTypeOK
<1>1. SnapshotInv => SnapshotTypeOK BY DEF SnapshotInv
<1> QED BY <1>1, SnapshotInvIsInductive, PTL DEF SnapshotSpec

\* publish_snapshot never publishes statistics the interrupt changed while they
\* were being copied.
THEOREM PublishedWhole == SnapshotSpec => []PublishedIsWhole
<1>1. SnapshotInv => PublishedIsWhole BY DEF SnapshotInv
<1> QED BY <1>1, SnapshotInvIsInductive, PTL DEF SnapshotSpec

\* What read_snapshot keeps is one publication, statistics and file status.
THEOREM SnapshotPublished == SnapshotSpec => []SnapshotIsPublished
<1>1. SnapshotInv => SnapshotIsPublished
  <2> SUFFICES ASSUME SnapshotInv, cachedSequence # NeverRead
               PROVE  \/ cachedSequence = 0 /\ snapshot = Blank /\ snapshotFile = 0
                      \/ /\ cachedSequence \div 2 \in 1..Len(published)
                         /\ published[cachedSequence \div 2]
                              = [source |-> snapshot, file |-> snapshotFile]
    BY DEF SnapshotIsPublished
  <2>1. Entry(cachedSequence, snapshot, snapshotFile) BY DEF SnapshotInv, CacheInv
  <2>2. Len(published) \in Nat BY DEF SnapshotInv, SnapshotTypeOK, HistoryTypeOK
  <2>3. \A n \in 1..Len(published) : (2 * n) \div 2 = n BY <2>2
  <2> QED BY <2>1, <2>3 DEF Entry
<1> QED BY <1>1, SnapshotInvIsInductive, PTL DEF SnapshotSpec

\* An answered caller reads a status with the effect of its request in it.
THEOREM AnswerIsSeen == SnapshotSpec => []AnsweredSeesEffect
<1>1. SnapshotInv => AnsweredSeesEffect BY DEF SnapshotInv, AnswerInv
<1> QED BY <1>1, SnapshotInvIsInductive, PTL DEF SnapshotSpec

=============================================================================
