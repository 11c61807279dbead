----------------------------- MODULE FileService -----------------------------
(***************************************************************************)
(* The module file service as its callers see it: a transaction reads a    *)
(* file of the camera module into scratch memory, is ready, and is lent    *)
(* while a client downloads it.  DualcoreRpc calls it from the other core; *)
(* ModuleFiles is shown to implement it.                                   *)
(***************************************************************************)
EXTENDS Integers

CONSTANT
  T             \* transactions are numbered 1 .. T, then from 1 (2^32 - 1)

ASSUME FileAssumption == T \in Nat \ {0}

VARIABLES state, downloading, transaction

fileVars == <<state, downloading, transaction>>

Transactions == 1 .. T

\* The number of a service that has not started anything comes before 1.
FileInit == state = "idle" /\ downloading = FALSE /\ transaction = T

NextTransaction_FromZero == (transaction + 1) % (T + 1)
NextTransaction == IF transaction = T THEN 1 ELSE transaction + 1

\* start: refused while a transaction holds the scratch, or when the capture
\* cannot be paused or an earlier cleanup failed.
start(done) ==
  \/ /\ done /\ state = "idle"
     /\ state' = "reading"
     /\ transaction' = NextTransaction
     /\ downloading' = FALSE
  \/ /\ ~done
     /\ UNCHANGED fileVars

\* abort: a transaction that still has an answer or an open file of the module
\* to wait for stays in "closing" until that is over.
abort ==
  \/ /\ ~downloading
     /\ \/ state = "ready" /\ state' = "idle"
        \/ state = "reading" /\ state' \in {"closing", "idle"}
     /\ UNCHANGED <<downloading, transaction>>
  \/ /\ downloading \/ state \in {"idle", "closing"}
     /\ UNCHANGED fileVars

Downloadable(t) == state = "ready" /\ ~downloading /\ transaction = t

download ==
  /\ downloading' = TRUE
  /\ UNCHANGED <<state, transaction>>

download_release ==
  /\ state' = IF downloading THEN "idle" ELSE state
  /\ downloading' = FALSE
  /\ UNCHANGED transaction

\* One iteration of the service's own task: answers of the module, errors and
\* the expiry of a file nobody downloads.
file_task ==
  \/ /\ state = "reading" /\ state' \in {"ready", "closing", "idle"}
     /\ UNCHANGED <<downloading, transaction>>
  \/ /\ state \in {"closing", "ready"} /\ ~downloading
     /\ state' = "idle"
     /\ UNCHANGED <<downloading, transaction>>
  \/ UNCHANGED fileVars

FileNext ==
  \/ \E done \in BOOLEAN : start(done)
  \/ abort
  \/ \E t \in Transactions : Downloadable(t) /\ download
  \/ download_release
  \/ file_task

FileSpec == FileInit /\ [][FileNext]_fileVars
=============================================================================
