--------------------------- MODULE CalibrationStorage --------------------------
(***************************************************************************)
(* The two-slot calibration storage                                        *)
(* (firmware/Common/Raw16/t384_calibration_storage.c): an upload is staged *)
(* in RAM, committed to the slot that is not active, and selected by its   *)
(* generation at the next boot.                                            *)
(*                                                                         *)
(* All calls come from one loop, so only a reset can come between two      *)
(* flash operations of a commit, and it may come in the middle of one.  A  *)
(* slot has three cells that are programmed in turn: the payload, the      *)
(* header without its magic, and the magic word.  A cell whose contents    *)
(* match no checksum is Torn.  A package stands for a payload, its length  *)
(* and its CRC-32, which is taken to be exact; g_payload always goes with  *)
(* g_active and is not a variable of its own.                              *)
(***************************************************************************)
EXTENDS Integers

CONSTANTS
  Packages,    \* calibration packages the host uploads
  Parts,       \* pieces a payload is written to the staging buffer in
  Half,        \* generations are words modulo 2 * Half (2^32 in the code)
  Magic,       \* T384_CAL_STORAGE_MAGIC
  None, Blank, Torn

ASSUME CalibrationAssumption ==
  /\ Half \in Nat \ {0, 1}
  /\ None \notin Packages /\ Blank \notin Packages /\ Torn \notin Packages
  /\ Blank # Torn /\ Magic # Blank /\ Magic # Torn
  /\ LET M == [generation : 0 .. 2 * Half - 1, package : Packages]
     IN  None \notin M /\ Blank \notin M /\ Torn \notin M

VARIABLES
  flash,                  \* contents of the two slots, kept over a reset
  g_active, g_active_slot,
  g_staging, g_staging_payload, g_written, g_staging_valid,
  g_init_status,
  g_runtime_initialized,
  pc                      \* booting, idle, or at which step of finish

vars == <<flash, g_active, g_active_slot, g_staging, g_staging_payload,
          g_written, g_staging_valid, g_init_status, g_runtime_initialized, pc>>

activeVars == <<g_active, g_active_slot>>
stagingVars == <<g_staging, g_staging_payload, g_written>>
statusVars == <<g_init_status, g_runtime_initialized>>

Slots == {0, 1}
Generations == 0 .. 2 * Half - 1
Manifests == [generation : Generations, package : Packages]
Cells == [magic : {Magic, Blank, Torn},
          header : Manifests \cup {Blank, Torn},
          body : Packages \cup {Blank, Torn}]

-----------------------------------------------------------------------------
(* Generations and the boot scan.                                           *)

\* Mistaken variants of operations end in a mark that says what is wrong in
\* them: each is a bug the properties below must catch.
Succ_Unwrapped(g) == g + 1
Succ(g) == IF g + 1 = 2 * Half THEN 0 ELSE g + 1
Minus(a, b) == IF a >= b THEN a - b ELSE a - b + 2 * Half

Newer_Unsigned(m, best) == m.generation > best.generation
\* Adjacent generations remain ordered across the wrap of the word.
Newer(m, best) == /\ m.generation # best.generation
                  /\ Minus(m.generation, best.generation) < Half

\* valid_manifest and the payload checksum: what the scan accepts.
Valid(cell) == /\ cell.magic = Magic
               /\ cell.header \in Manifests
               /\ cell.body = cell.header.package

Found == {s \in Slots : Valid(flash[s])}

\* The slot the scan ends with: slot 1 replaces slot 0 only if it is newer.
Best == IF 0 \in Found /\ (1 \in Found => ~Newer(flash[1].header,
                                                  flash[0].header))
        THEN 0 ELSE 1

\* What a scan of the flash would select now.
Selected == IF Found = {} THEN None ELSE flash[Best].header

Init ==
  /\ flash = [s \in Slots |-> [magic |-> Blank, header |-> Blank,
                               body |-> Blank]]
  /\ g_active = None /\ g_active_slot = 0
  /\ g_staging = None /\ g_staging_payload = [i \in Parts |-> None]
  /\ g_written = {}
  /\ g_staging_valid \in BOOLEAN      \* not cleared by the startup code
  /\ g_init_status = "no-valid"
  /\ g_runtime_initialized = FALSE
  /\ pc = "boot"

Scan ==
  /\ g_active' = Selected
  /\ g_active_slot' = IF Found = {} THEN IF g_runtime_initialized
                                         THEN g_active_slot ELSE 0
                                    ELSE Best
  /\ g_init_status' = IF Found = {} THEN "no-valid" ELSE "ok"

\* Mistake: the stale flag of the run before the reset is believed.
storage_init_StaleFlag ==
  /\ pc \in {"boot", "idle"}
  /\ pc' = "idle"
  /\ g_runtime_initialized' = TRUE
  /\ \/ /\ g_staging_valid
        /\ g_init_status' = "busy"
        /\ UNCHANGED activeVars
     \/ /\ ~g_staging_valid
        /\ Scan
  /\ UNCHANGED <<flash, stagingVars, g_staging_valid>>

\* t384_cal_storage_init: at boot the flags left in RAM are discarded.  A
\* second call is refused while an upload is open (only the tests make one).
\* Its use of the idle staging buffer as scratch is left out: begin clears it.
storage_init ==
  /\ pc \in {"boot", "idle"}
  /\ pc' = "idle"
  /\ g_runtime_initialized' = TRUE
  /\ \/ /\ ~g_runtime_initialized
        /\ Scan
        /\ g_staging_valid' = FALSE
        /\ g_written' = {}
        /\ UNCHANGED <<g_staging, g_staging_payload>>
     \/ /\ g_runtime_initialized /\ ~g_staging_valid
        /\ Scan
        /\ UNCHANGED <<stagingVars, g_staging_valid>>
     \/ /\ g_runtime_initialized /\ g_staging_valid
        /\ g_init_status' = "busy"
        /\ UNCHANGED <<activeVars, stagingVars, g_staging_valid>>
  /\ UNCHANGED flash

-----------------------------------------------------------------------------
(* Staging: a refused call changes nothing and is left out.                 *)

\* Mistake: the generation the host put into the manifest is kept.
storage_begin_HostGeneration(p) ==
  /\ pc = "idle" /\ ~g_staging_valid
  /\ \E g \in Generations : g_staging' = [generation |-> g, package |-> p]
  /\ g_staging_payload' = [i \in Parts |-> None]
  /\ g_written' = {}
  /\ g_staging_valid' = TRUE
  /\ UNCHANGED <<flash, activeVars, statusVars, pc>>

storage_begin(p) ==
  /\ pc = "idle" /\ ~g_staging_valid
  /\ g_staging' = [generation |-> IF g_active = None THEN 1
                                  ELSE Succ(g_active.generation),
                   package |-> p]
  /\ g_staging_payload' = [i \in Parts |-> None]
  /\ g_written' = {}
  /\ g_staging_valid' = TRUE
  /\ UNCHANGED <<flash, activeVars, statusVars, pc>>

\* The bytes of piece i of package p.
storage_write(i, p) ==
  /\ pc = "idle" /\ g_staging_valid
  /\ g_staging_payload' = [g_staging_payload EXCEPT ![i] = p]
  /\ g_written' = g_written \cup {i}
  /\ UNCHANGED <<flash, activeVars, g_staging, g_staging_valid, statusVars, pc>>

storage_abort ==
  /\ pc = "idle"
  /\ g_staging_valid' = FALSE
  /\ UNCHANGED <<flash, activeVars, stagingVars, statusVars, pc>>

-----------------------------------------------------------------------------
(* finish: every flash operation is a step.                                 *)

Target_Fixed == 1
\* The slot a commit writes: never the active one.
Target == IF g_active # None THEN 1 - g_active_slot ELSE 1

\* An operation on a cell may leave it as it was, torn, or done, whatever
\* status it returns: programming a word can time out after its second half
\* was issued, and a worn page can keep its contents unnoticed.
Programmed(old, new) == IF old \in {Blank, Torn, new} THEN {old, Torn, new}
                                                      ELSE {old, Torn}
Erased(old) == {old, Torn, Blank}

\* The cells a slot may have after the flash operation of this step.
Results(cell) ==
  CASE pc = "erase" ->
         [magic : Erased(cell.magic), header : Erased(cell.header),
          body : Erased(cell.body)]
    [] pc = "write_payload" ->
         {[cell EXCEPT !.body = b] : b \in Programmed(cell.body,
                                                      g_staging.package)}
    [] pc = "write_header" ->
         {[cell EXCEPT !.header = h] : h \in Programmed(cell.header,
                                                        g_staging)}
    [] pc = "write_magic" ->
         {[cell EXCEPT !.magic = m] : m \in Programmed(cell.magic, Magic)}
    [] OTHER -> {cell}

\* The staged payload is complete and has the checksum of the manifest.
finish_start ==
  /\ pc = "idle" /\ g_staging_valid
  /\ g_written = Parts
  /\ \A i \in Parts : g_staging_payload[i] = g_staging.package
  /\ pc' = "erase"
  /\ UNCHANGED <<flash, activeVars, stagingVars, g_staging_valid, statusVars>>

failed ==
  /\ pc' = "idle"
  /\ g_staging_valid' = FALSE

\* One erase or program call: it reports success or failure.
FlashOperation(label, next) ==
  /\ pc = label
  /\ \E cell \in Results(flash[Target]) :
       flash' = [flash EXCEPT ![Target] = cell]
  /\ \/ pc' = next /\ UNCHANGED g_staging_valid
     \/ failed
  /\ UNCHANGED <<activeVars, stagingVars, statusVars>>

\* flash_matches: the cell just programmed is compared with RAM.
Readback(label, next, matches) ==
  /\ pc = label
  /\ IF matches THEN pc' = next /\ UNCHANGED g_staging_valid ELSE failed
  /\ UNCHANGED <<flash, activeVars, stagingVars, statusVars>>

erase == FlashOperation("erase", "write_payload")
write_payload == FlashOperation("write_payload", "check_payload")
check_payload == Readback("check_payload", "write_header",
                          flash[Target].body = g_staging.package)
write_header == FlashOperation("write_header", "check_header")
check_header == Readback("check_header", "write_magic",
                         flash[Target].header = g_staging)
write_magic == FlashOperation("write_magic", "check_magic")

\* Mistake: the slot the device falls back to is not moved.
check_magic_SlotKept ==
  /\ pc = "check_magic"
  /\ pc' = "idle"
  /\ g_staging_valid' = FALSE
  /\ \/ /\ flash[Target].magic = Magic
        /\ g_active' = g_staging
        /\ g_init_status' = "ok"
     \/ /\ flash[Target].magic # Magic
        /\ UNCHANGED <<g_active, g_init_status>>
  /\ UNCHANGED <<flash, g_active_slot, stagingVars, g_runtime_initialized>>

\* The last readback: the staged package becomes the active one.
check_magic ==
  /\ pc = "check_magic"
  /\ pc' = "idle"
  /\ g_staging_valid' = FALSE
  /\ \/ /\ flash[Target].magic = Magic
        /\ g_active' = g_staging
        /\ g_active_slot' = Target
        /\ g_init_status' = "ok"
     \/ /\ flash[Target].magic # Magic
        /\ UNCHANGED <<activeVars, g_init_status>>
  /\ UNCHANGED <<flash, stagingVars, g_runtime_initialized>>

-----------------------------------------------------------------------------
(* A reset at any instant, in the middle of a flash operation too.  Words   *)
(* of the NOLOAD section keep their contents; the staging flag may hold     *)
(* anything after power-up.                                                 *)

reset ==
  /\ \E cell \in Results(flash[Target]) :
       flash' = [flash EXCEPT ![Target] = cell]
  /\ pc' = "boot"
  /\ g_active_slot' = 0
  /\ g_staging_valid' \in BOOLEAN
  /\ g_init_status' = "no-valid"
  /\ g_runtime_initialized' = FALSE
  /\ UNCHANGED <<g_active, stagingVars>>

Finish == \/ finish_start \/ erase \/ write_payload \/ check_payload
          \/ write_header \/ check_header \/ write_magic \/ check_magic

Next ==
  \/ storage_init
  \/ \E p \in Packages : storage_begin(p)
  \/ \E i \in Parts, p \in Packages : storage_write(i, p)
  \/ storage_abort
  \/ Finish
  \/ reset

Spec == Init /\ [][Next]_vars

-----------------------------------------------------------------------------
(* Properties.                                                              *)

FinishLabels == {"erase", "write_payload", "check_payload", "write_header",
                 "check_header", "write_magic", "check_magic"}

\* RAM and flash keep their types: generations wrap and slots are 0 or 1.
TypeOK ==
  /\ flash \in [Slots -> Cells]
  /\ g_active \in Manifests \cup {None} /\ g_active_slot \in Slots
  /\ g_staging \in Manifests \cup {None}
  /\ g_staging_payload \in [Parts -> Packages \cup {None}]
  /\ g_written \subseteq Parts
  /\ g_staging_valid \in BOOLEAN
  /\ g_init_status \in {"no-valid", "ok", "busy"}
  /\ g_runtime_initialized \in BOOLEAN
  /\ pc \in FinishLabels \cup {"boot", "idle"}

\* The calibration being served is whole in its slot at every instant of a
\* running device: no commit, failed or complete, ever disturbs the slot it
\* would fall back to.
ActiveIsSaved ==
  pc # "boot" /\ g_active # None =>
    Valid(flash[g_active_slot]) /\ flash[g_active_slot].header = g_active

\* Two valid slots are always one generation apart, so that the signed
\* comparison of the boot scan orders them, whatever failed before and
\* however often the word has wrapped.
GenerationsAdjacent ==
  Found = Slots =>
    \/ flash[0].header.generation = Succ(flash[1].header.generation)
    \/ flash[1].header.generation = Succ(flash[0].header.generation)

\* A save the host was not told of is the only thing that can be newer in
\* flash than what is served: the very next generation, in the other slot.
SelectedIsServedOrNext ==
  pc # "boot" =>
    \/ Selected = g_active
    \/ /\ g_active = None
       /\ Found = {1} /\ Selected.generation = 1
    \/ /\ g_active # None
       /\ Found = Slots /\ Best # g_active_slot
       /\ Selected.generation = Succ(g_active.generation)

\* The boot scan is never refused because of the bytes a reset left in RAM.
BootNeverBusy ==
  [][pc = "boot" /\ pc' = "idle" =>
       g_init_status' # "busy" /\ ~g_staging_valid']_vars

\* A commit that reports a failure leaves the old calibration in force, also
\* after a reset: "Erase/program failures and silent corruption preserve the
\* old slot on both runtime reads and reboot" (tests/
\* t384_calibration_storage_smoke.c, line 94).  The code breaks this when the
\* last word is programmed and reported as failed (CalibrationFailedCommit.cfg).
FailedCommitKeepsOld ==
  [][(/\ g_active # None
      /\ pc \in FinishLabels /\ pc' = "idle" /\ g_active' = g_active)
       => Selected' = g_active]_vars
=============================================================================
