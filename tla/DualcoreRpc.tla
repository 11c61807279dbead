------------------------------ MODULE DualcoreRpc ------------------------------
(***************************************************************************)
(* The file-service calls between the two cores, in the builds that keep   *)
(* the network on V3F (firmware/Common/Raw16/t384_dualcore.c, lines 69-149,*)
(* and t384_frame_source_remote.c): one mailbox in shared SRAM, a request  *)
(* number, an acknowledgement number and a cancel word, no lock.           *)
(*                                                                         *)
(* V3F runs the HTTP loop.  A call writes the mailbox, spins for 100 ms at *)
(* most, then sets the cancel word and gives up.  V5F takes a request once *)
(* per iteration of its loop, which may take longer than that.  What the   *)
(* calls do there is FileService's.                                        *)
(*                                                                         *)
(* A step performs at most one access to a word the other core writes,     *)
(* except clean, which reads two words: between its loads V3F would need a *)
(* 100 ms timeout for the split to make a difference.                      *)
(***************************************************************************)
EXTENDS Integers, FileService

CONSTANTS
  W,            \* request numbers are words modulo W (2^32 in the code)
  None

ASSUME RpcAssumption ==
  /\ W \in Nat \ {0, 1}
  /\ None \notin 0 .. W + T

VARIABLES
  rpc_request, rpc_ack, rpc_cancel,
  rpc_command, rpc_argument,
  rpc_result,                \* the call succeeded
  rpc_pointer,               \* transaction whose memory is handed out, or None
  v3f,                       \* where V3F is in request()
  holding,                   \* transaction whose memory a client sends, or None
  abandoned,                 \* history: the last request whose call timed out
  v5f,                       \* where V5F is in its loop
  handled_request, handled_command, acquired_lease, cleanup_pending

mailboxVars == <<rpc_command, rpc_argument>>
replyVars == <<rpc_result, rpc_pointer>>
v3fVars == <<rpc_request, rpc_cancel, mailboxVars, v3f, holding, abandoned>>
handledVars == <<handled_request, handled_command>>
v5fVars == <<rpc_ack, replyVars, v5f, handledVars, acquired_lease,
             cleanup_pending>>

vars == <<v3fVars, v5fVars, fileVars>>

Words == 0 .. W - 1
Commands == {"START", "ABORT", "DOWNLOAD", "RELEASE"}

Init ==
  /\ rpc_request = 0 /\ rpc_ack = 0 /\ rpc_cancel = FALSE
  /\ rpc_command = "START" /\ rpc_argument = None
  /\ rpc_result = FALSE /\ rpc_pointer = None
  /\ v3f = "idle" /\ holding = None /\ abandoned = None
  /\ v5f = "take"
  /\ handled_request = 0 /\ handled_command = "START"
  /\ acquired_lease = FALSE /\ cleanup_pending = FALSE
  /\ FileInit

-----------------------------------------------------------------------------
(* V3F: request().                                                          *)

Incr(w) == IF w + 1 = W THEN 0 ELSE w + 1

\* The HTTP loop releases only what a client holds, and drops the downloads in
\* progress before it aborts a transaction ...
Asked(c) == /\ c = "RELEASE" => holding # None
            /\ c = "ABORT" => holding = None

\* ... and forgets a download at once.
Forget(c) == holding' = IF c = "RELEASE" THEN None ELSE holding

\* Mistaken variants of operations end in a mark that says what is wrong in
\* them: each is a bug the properties below must catch.
call_Unguarded(c, t) ==
  /\ v3f = "idle"
  /\ Asked(c)
  /\ rpc_command' = c /\ rpc_argument' = t
  /\ rpc_cancel' = FALSE
  /\ v3f' = "post"
  /\ Forget(c)
  /\ UNCHANGED <<rpc_request, abandoned, v5fVars, fileVars>>

\* The mailbox is free: fill it and clear the cancel word.
call(c, t) ==
  /\ v3f = "idle"
  /\ rpc_request = rpc_ack
  /\ Asked(c)
  /\ rpc_command' = c /\ rpc_argument' = t
  /\ rpc_cancel' = FALSE
  /\ v3f' = "post"
  /\ Forget(c)
  /\ UNCHANGED <<rpc_request, abandoned, v5fVars, fileVars>>

\* An earlier call is unacknowledged: refused.  The caller of RELEASE does not
\* look at the result.
call_refused(c) ==
  /\ v3f = "idle"
  /\ rpc_request # rpc_ack
  /\ Asked(c)
  /\ Forget(c)
  /\ UNCHANGED <<rpc_request, rpc_cancel, mailboxVars, v3f, abandoned, v5fVars,
                 fileVars>>

post ==
  /\ v3f = "post"
  /\ v3f' = "wait"
  /\ rpc_request' = Incr(rpc_request)
  /\ abandoned' = IF abandoned = Incr(rpc_request) THEN None ELSE abandoned
  /\ UNCHANGED <<rpc_cancel, mailboxVars, holding, v5fVars, fileVars>>

\* The acknowledgement is seen: the result is the caller's.
reply ==
  /\ v3f = "wait"
  /\ rpc_ack = rpc_request
  /\ v3f' = "idle"
  /\ holding' = IF rpc_command = "DOWNLOAD" /\ rpc_result THEN rpc_pointer
                                                          ELSE holding
  /\ UNCHANGED <<rpc_request, rpc_cancel, mailboxVars, abandoned, v5fVars,
                 fileVars>>

\* It is not, and the time is up ...
wait_expires ==
  /\ v3f = "wait"
  /\ rpc_ack # rpc_request
  /\ v3f' = "cancel"
  /\ UNCHANGED <<rpc_request, rpc_cancel, mailboxVars, holding, abandoned,
                 v5fVars, fileVars>>

\* ... so the call is cancelled and fails, whatever V5F has done meanwhile.
cancel ==
  /\ v3f = "cancel"
  /\ v3f' = "idle"
  /\ rpc_cancel' = TRUE
  /\ abandoned' = rpc_request
  /\ UNCHANGED <<rpc_request, mailboxVars, holding, v5fVars, fileVars>>

V3F ==
  \/ \E c \in Commands, t \in Transactions : call(c, t)
  \/ \E c \in Commands : call_refused(c)
  \/ post \/ reply \/ wait_expires \/ cancel

-----------------------------------------------------------------------------
(* V5F: t384_dualcore_capture_task().                                       *)

take ==
  /\ v5f = "take"
  /\ \/ /\ rpc_request # rpc_ack
        /\ handled_request' = rpc_request
        /\ handled_command' = rpc_command
        /\ cleanup_pending' = TRUE
        /\ acquired_lease' = FALSE
        /\ rpc_result' = FALSE /\ rpc_pointer' = None
        /\ v5f' = "execute"
     \/ /\ rpc_request = rpc_ack
        /\ v5f' = "clean"
        /\ UNCHANGED <<replyVars, handledVars, cleanup_pending, acquired_lease>>
  /\ UNCHANGED <<v3fVars, rpc_ack, fileVars>>

\* The command's effect on the file service, its result and the lease.
Execute ==
  \/ /\ rpc_command = "START"
     /\ \E done \in BOOLEAN : /\ start(done)
                              /\ rpc_result' = done
                              /\ acquired_lease' = done
     /\ UNCHANGED rpc_pointer
  \/ /\ rpc_command = "ABORT"
     /\ abort
     /\ rpc_result' = TRUE
     /\ UNCHANGED <<rpc_pointer, acquired_lease>>
  \/ /\ rpc_command = "DOWNLOAD"
     /\ \/ /\ Downloadable(rpc_argument)
           /\ download
           /\ rpc_result' = TRUE
           /\ rpc_pointer' = transaction
           /\ acquired_lease' = TRUE
        \/ /\ ~Downloadable(rpc_argument)
           /\ UNCHANGED <<fileVars, replyVars, acquired_lease>>
  \/ /\ rpc_command = "RELEASE"
     /\ download_release
     /\ rpc_result' = TRUE
     /\ UNCHANGED <<rpc_pointer, acquired_lease>>

\* Mistake: the cancel word is looked at only after the command.
execute_Late ==
  /\ v5f = "execute"
  /\ v5f' = "check"
  /\ Execute
  /\ UNCHANGED <<v3fVars, rpc_ack, handledVars, cleanup_pending>>

\* A call cancelled by now is not executed, unless it gives something back.
execute ==
  /\ v5f = "execute"
  /\ v5f' = "check"
  /\ \/ /\ ~rpc_cancel \/ handled_command \in {"ABORT", "RELEASE"}
        /\ Execute
     \/ /\ rpc_cancel /\ handled_command \notin {"ABORT", "RELEASE"}
        /\ UNCHANGED <<fileVars, replyVars, acquired_lease>>
  /\ UNCHANGED <<v3fVars, rpc_ack, handledVars, cleanup_pending>>

\* What was acquired for a caller that has given up is given back.
GiveBack ==
  \/ acquired_lease /\ handled_command = "DOWNLOAD" /\ download_release
  \/ acquired_lease /\ handled_command = "START" /\ abort
  \/ ~acquired_lease /\ UNCHANGED fileVars

\* The cancel word is looked at again after the command.
check ==
  /\ v5f = "check"
  /\ v5f' = "ack"
  /\ \/ /\ rpc_cancel
        /\ GiveBack
        /\ acquired_lease' = FALSE
        /\ rpc_pointer' = None
        /\ rpc_result' = FALSE
     \/ /\ ~rpc_cancel
        /\ UNCHANGED <<fileVars, replyVars, acquired_lease>>
  /\ UNCHANGED <<v3fVars, rpc_ack, handledVars, cleanup_pending>>

\* Mistake: a cancelled call is never acknowledged.
ack_Skipped ==
  /\ v5f = "ack"
  /\ v5f' = "clean"
  /\ rpc_ack' = IF rpc_cancel THEN rpc_ack ELSE handled_request
  /\ UNCHANGED <<v3fVars, replyVars, handledVars, acquired_lease,
                 cleanup_pending, fileVars>>

\* The snapshot is published (see the README), then the request acknowledged.
ack ==
  /\ v5f = "ack"
  /\ v5f' = "clean"
  /\ rpc_ack' = handled_request
  /\ UNCHANGED <<v3fVars, replyVars, handledVars, acquired_lease,
                 cleanup_pending, fileVars>>

CancelSeen_AnyRequest == /\ cleanup_pending /\ acquired_lease
                         /\ rpc_cancel
\* The request handled last is still the last, and its caller has given up.
CancelSeen == /\ cleanup_pending /\ acquired_lease
              /\ rpc_request = handled_request
              /\ rpc_cancel

\* Every iteration covers a cancellation that came after the check.
clean ==
  /\ v5f = "clean"
  /\ v5f' = "task"
  /\ \/ /\ CancelSeen
        /\ GiveBack
        /\ cleanup_pending' = FALSE
     \/ /\ ~CancelSeen
        /\ UNCHANGED <<fileVars, cleanup_pending>>
  /\ UNCHANGED <<v3fVars, rpc_ack, replyVars, handledVars, acquired_lease>>

\* The frame source's task, which runs the file service's.
task ==
  /\ v5f = "task"
  /\ v5f' = "take"
  /\ file_task
  /\ UNCHANGED <<v3fVars, rpc_ack, replyVars, handledVars, acquired_lease,
                 cleanup_pending>>

V5F == take \/ execute \/ check \/ ack \/ clean \/ task

Next == V3F \/ V5F

\* Both cores keep running, and a client that holds a file gives it back in the
\* end: the download completes, is aborted or times out after 15 seconds.
Fairness ==
  /\ WF_vars(V5F)
  /\ WF_vars(post \/ reply \/ wait_expires \/ cancel)
  /\ WF_vars(\/ \E t \in Transactions : call("RELEASE", t)
             \/ call_refused("RELEASE"))

Spec == Init /\ [][Next]_vars
FairSpec == Spec /\ Fairness

-----------------------------------------------------------------------------
(* Properties.                                                              *)

\* Request numbers and transactions keep their range over their wraps, and a
\* handed out pointer belongs to a transaction.
TypeOK ==
  /\ rpc_request \in Words /\ rpc_ack \in Words /\ rpc_cancel \in BOOLEAN
  /\ rpc_command \in Commands /\ rpc_argument \in Transactions \cup {None}
  /\ rpc_result \in BOOLEAN /\ rpc_pointer \in Transactions \cup {None}
  /\ v3f \in {"idle", "post", "wait", "cancel"}
  /\ holding \in Transactions \cup {None}
  /\ abandoned \in Words \cup {None}
  /\ v5f \in {"take", "execute", "check", "ack", "clean", "task"}
  /\ handled_request \in Words /\ handled_command \in Commands
  /\ acquired_lease \in BOOLEAN /\ cleanup_pending \in BOOLEAN
  /\ state \in {"idle", "reading", "closing", "ready"}
  /\ downloading \in BOOLEAN /\ transaction \in Transactions

\* As long as a client of V3F sends from the scratch memory, V5F keeps the
\* transaction it belongs to: no cleanup of an earlier or later call that timed
\* out, no abort and no expiry takes it back.
HandedPointerIsLent ==
  holding # None => /\ state = "ready" /\ downloading
                    /\ transaction = holding

\* The mailbox is V5F's from the post until the acknowledgement: the command
\* being executed is the one that was taken, although its caller may have given
\* up and the HTTP loop gone on to other clients.
MailboxIsStable ==
  v5f \in {"execute", "check", "ack"} =>
    /\ rpc_command = handled_command
    /\ rpc_request = handled_request
    /\ rpc_ack # rpc_request

\* A START or DOWNLOAD whose caller timed out before V5F looked at the cancel
\* word is never executed late.
NoLateAcquisition ==
  [][(/\ v5f = "execute" /\ v5f' = "check"
      /\ abandoned = handled_request
      /\ handled_command \in {"START", "DOWNLOAD"})
       => UNCHANGED fileVars]_vars

\* A call that timed out does not block the mailbox for ever.
MailboxRecovers == rpc_request # rpc_ack ~> rpc_request = rpc_ack

\* "A timed-out caller must not leave a scratch/download lease behind"
\* (t384_dualcore.c, line 114): when V5F has handled a DOWNLOAD and cleaned up,
\* a caller that had given up has no lease left.
TimedOutCallerLeavesNoLease ==
  [][(/\ v5f = "clean" /\ v5f' = "task"
      /\ handled_command = "DOWNLOAD" /\ acquired_lease /\ cleanup_pending
      /\ abandoned = handled_request)
       => ~downloading']_vars

\* The capture is paused "until download ACK/cancel/timeout" (docs/runbooks/
\* PROJECT_MEMORY.md, line 169): when a client has held the file, the service
\* stops lending it in the end.  The code breaks this when the RELEASE is refused
\* (DualcoreRpcLending.cfg).
LendingEnds == holding # None ~> ~downloading
=============================================================================
