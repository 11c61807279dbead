---------------------------- MODULE CalibrationStore ---------------------------
(***************************************************************************)
(* What the calibration storage promises its HTTP clients, with no slots,  *)
(* generations or flash operations: one saved package, which a reset brings*)
(* back, one package served now, and at most one upload in progress.       *)
(*                                                                         *)
(* While an upload is open the saved package may become the uploaded one   *)
(* before the host hears of it, and a save whose failure was reported may  *)
(* be undone by the next attempt.  It never becomes anything else.         *)
(***************************************************************************)
CONSTANTS Packages, None

VARIABLES saved,   \* the package a reset would bring back
          served,  \* the package clients are given now
          upload,  \* the package being uploaded
          up       \* the device has finished booting

vars == <<saved, served, upload, up>>

Init == saved = None /\ served = None /\ upload = None /\ up = FALSE

\* What may be saved after one more step of an upload.
Outcomes == IF upload = None THEN {saved} ELSE {saved, served, upload}

Stage(p) ==
  /\ up /\ upload = None
  /\ upload' = p
  /\ UNCHANGED <<saved, served, up>>

\* One step of a commit.
Save ==
  /\ up
  /\ saved' \in Outcomes
  /\ UNCHANGED <<served, upload, up>>

\* The host is told that its upload was saved.
Acknowledge ==
  /\ up /\ upload # None
  /\ saved = upload
  /\ served' = upload
  /\ upload' = None
  /\ UNCHANGED <<saved, up>>

\* The upload is aborted, or its commit reports an error.
Drop ==
  /\ up
  /\ saved' \in Outcomes
  /\ upload' = None
  /\ UNCHANGED <<served, up>>

Reset ==
  /\ up' = FALSE
  /\ saved' \in Outcomes
  /\ upload' = None
  /\ served' = None

\* Boot, or a later scan, serves what is saved.
Scan ==
  /\ upload = None
  /\ up' = TRUE
  /\ served' = saved
  /\ UNCHANGED <<saved, upload>>

Next == (\E p \in Packages : Stage(p)) \/ Save \/ Acknowledge \/ Drop
        \/ Reset \/ Scan

Spec == Init /\ [][Next]_vars
=============================================================================
