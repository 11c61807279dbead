----------------------- MODULE CalibrationStorage_proofs -----------------------
(***************************************************************************)
(* The calibration storage keeps its promises for every set of packages,   *)
(* every division of a payload and every width of the generation word.     *)
(*                                                                         *)
(* The argument follows the fallback slot.  A commit touches only the      *)
(* other slot, the spare one.  The spare's cells may be in any state, but  *)
(* as long as its magic is set its header is one generation away from the  *)
(* active one: erasing can only lose the magic, the header is programmed   *)
(* with the next generation, and the magic is programmed only over a       *)
(* header that was read back.  A reset forgets which slot was active; that *)
(* one of the two plays its part survives in flash.                        *)
(***************************************************************************)
EXTENDS CalibrationRefinement, TLAPS

\* A cell that would be taken for a saved calibration if its payload matched.
Claims(cell) == cell.magic = Magic /\ cell.header \in Manifests

Adjacent(g, h) == g = Succ(h) \/ h = Succ(g)

\* Flash of a device that has never completed a commit.
NeverSaved ==
  /\ flash[0].magic = Blank
  /\ Claims(flash[1]) => flash[1].header.generation = 1

\* Slot s is a calibration the device can fall back to.
Fallback(s) ==
  /\ Valid(flash[s])
  /\ Claims(flash[1 - s]) =>
       Adjacent(flash[s].header.generation, flash[1 - s].header.generation)

NextGeneration == IF g_active = None THEN 1 ELSE Succ(g_active.generation)

FlashInv == NeverSaved \/ \E s \in Slots : Fallback(s)

ActiveInv ==
  pc # "boot" =>
    /\ g_active = None => NeverSaved
    /\ g_active # None => /\ Fallback(g_active_slot)
                          /\ flash[g_active_slot].header = g_active

StagingInv ==
  /\ pc # "boot" /\ g_staging_valid =>
       /\ g_staging \in Manifests
       /\ g_staging.generation = NextGeneration
  /\ pc \in FinishLabels => g_staging_valid

\* What the readbacks of a commit have established.
ReadbackInv ==
  /\ pc \in {"write_header", "check_header", "write_magic", "check_magic"}
       => flash[Target].body = g_staging.package
  /\ pc \in {"write_magic", "check_magic"} => flash[Target].header = g_staging

RuntimeInv == g_runtime_initialized <=> pc # "boot"

IInv ==
  /\ TypeOK
  /\ FlashInv
  /\ ActiveInv
  /\ StagingInv
  /\ ReadbackInv
  /\ RuntimeInv

-----------------------------------------------------------------------------
(* Generations.                                                             *)

LEMMA SuccFacts ==
  ASSUME NEW g \in Generations
  PROVE  Succ(g) \in Generations /\ Succ(g) # g /\ 1 \in Generations
BY CalibrationAssumption DEF Succ, Generations

\* Of two adjacent generations the comparison picks the successor.
LEMMA NewerIsSuccessor ==
  ASSUME NEW a \in Manifests, NEW b \in Manifests,
         Adjacent(a.generation, b.generation)
  PROVE  Newer(b, a) <=> b.generation = Succ(a.generation)
<1> DEFINE x == a.generation
           y == b.generation
<1>1. x \in 0 .. 2 * Half - 1 /\ y \in 0 .. 2 * Half - 1 /\ Half \in Nat
      /\ Half > 1
  BY CalibrationAssumption DEF Manifests, Generations
<1>2. CASE y = Succ(x)
  <2>1. Minus(y, x) = 1 /\ y # x
    BY <1>1, <1>2 DEF Minus, Succ
  <2> QED  BY <1>1, <1>2, <2>1 DEF Newer
<1>3. CASE y # Succ(x)
  <2>1. x = Succ(y)
    BY <1>3 DEF Adjacent
  <2>2. Minus(y, x) = 2 * Half - 1
    BY <1>1, <2>1 DEF Minus, Succ
  <2>3. ~(Minus(y, x) < Half)
    BY <1>1, <2>2
  <2> QED  BY <1>3, <2>3 DEF Newer
<1> QED  BY <1>2, <1>3

-----------------------------------------------------------------------------
(* What one flash operation can do to the spare slot.                       *)

LEMMA ResultsAreCells ==
  ASSUME TypeOK, StagingInv, NEW t \in Slots,
         NEW cell \in Results(flash[t])
  PROVE  cell \in Cells
<1> DEFINE old == flash[t]
<1>1. /\ old \in Cells
      /\ Blank \in {Magic, Blank, Torn} /\ Torn \in {Magic, Blank, Torn}
  BY DEF TypeOK
<1>2. CASE pc = "erase"
  BY <1>1, <1>2 DEF Results, Cells, Erased
<1>3. CASE pc = "write_payload"
  <2>1. g_staging.package \in Packages
    BY <1>3 DEF StagingInv, FinishLabels, Manifests
  <2>2. PICK b \in Programmed(old.body, g_staging.package) :
          cell = [old EXCEPT !.body = b]
    BY <1>3 DEF Results
  <2>3. b \in Packages \cup {Blank, Torn}
    BY <1>1, <2>1, <2>2 DEF Programmed, Cells
  <2> QED  BY <1>1, <2>2, <2>3 DEF Cells
<1>4. CASE pc = "write_header"
  <2>1. g_staging \in Manifests
    BY <1>4 DEF StagingInv, FinishLabels
  <2>2. PICK h \in Programmed(old.header, g_staging) :
          cell = [old EXCEPT !.header = h]
    BY <1>4 DEF Results
  <2>3. h \in Manifests \cup {Blank, Torn}
    BY <1>1, <2>1, <2>2 DEF Programmed, Cells
  <2> QED  BY <1>1, <2>2, <2>3 DEF Cells
<1>5. CASE pc = "write_magic"
  <2>1. PICK m \in Programmed(old.magic, Magic) :
          cell = [old EXCEPT !.magic = m]
    BY <1>5 DEF Results
  <2>2. m \in {Magic, Blank, Torn}
    BY <1>1, <2>1 DEF Programmed, Cells
  <2> QED  BY <1>1, <2>1, <2>2 DEF Cells
<1>6. CASE pc \notin {"erase", "write_payload", "write_header", "write_magic"}
  BY <1>1, <1>6 DEF Results
<1> QED  BY <1>2, <1>3, <1>4, <1>5, <1>6

\* A header under a set magic was there before, or carries the generation
\* that follows the active one.
LEMMA ClaimsAreOldOrNext ==
  ASSUME TypeOK, StagingInv, ReadbackInv,
         NEW cell \in Results(flash[Target]), Target \in Slots, Claims(cell)
  PROVE  \/ /\ Claims(flash[Target])
            /\ cell.header = flash[Target].header
         \/ pc # "boot" /\ cell.header.generation = NextGeneration
<1> DEFINE old == flash[Target]
<1>1. old \in Cells /\ Magic # Blank /\ Magic # Torn
  BY CalibrationAssumption DEF TypeOK
<1>2. Blank \notin Manifests /\ Torn \notin Manifests
  BY CalibrationAssumption DEF Manifests, Generations
<1>3. CASE pc = "erase"
  <2>1. cell.magic \in Erased(old.magic) /\ cell.header \in Erased(old.header)
    BY <1>3 DEF Results
  <2> QED  BY <1>1, <1>2, <2>1 DEF Erased, Claims
<1>4. CASE pc = "write_payload"
  <2>1. cell.magic = old.magic /\ cell.header = old.header
    BY <1>1, <1>4 DEF Results, Cells
  <2> QED  BY <2>1 DEF Claims
<1>5. CASE pc = "write_header"
  <2>1. /\ cell.magic = old.magic
        /\ cell.header \in Programmed(old.header, g_staging)
    BY <1>1, <1>5 DEF Results, Cells
  <2>2. g_staging.generation = NextGeneration
    BY <1>5 DEF StagingInv, FinishLabels
  <2>3. cell.header \in {old.header, Torn, g_staging}
    BY <2>1 DEF Programmed
  <2> QED  BY <1>2, <1>5, <2>1, <2>2, <2>3 DEF Claims
<1>6. CASE pc = "write_magic"
  <2>1. cell.header = old.header
    BY <1>1, <1>6 DEF Results, Cells
  <2>2. old.header = g_staging /\ g_staging.generation = NextGeneration
    BY <1>6 DEF ReadbackInv, StagingInv, FinishLabels
  <2> QED  BY <1>6, <2>1, <2>2
<1>7. CASE pc \notin {"erase", "write_payload", "write_header", "write_magic"}
  BY <1>7 DEF Results
<1> QED  BY <1>3, <1>4, <1>5, <1>6, <1>7

LEMMA TargetIsSpare ==
  ASSUME TypeOK
  PROVE  /\ Target \in Slots
         /\ g_active # None => Target # g_active_slot
                               /\ Target = 1 - g_active_slot
         /\ g_active = None => Target = 1
BY DEF TypeOK, Target, Slots

\* Whatever the operation did, the slot to fall back to is untouched and the
\* spare still has an adjacent generation.
LEMMA FallbackKept ==
  ASSUME TypeOK, ActiveInv, StagingInv, ReadbackInv, pc # "boot",
         NEW cell \in Results(flash[Target]),
         flash' = [flash EXCEPT ![Target] = cell]
  PROVE  /\ g_active = None => NeverSaved'
         /\ g_active # None =>
              /\ Valid(flash'[g_active_slot])
              /\ flash'[g_active_slot].header = g_active
              /\ Claims(flash'[1 - g_active_slot]) =>
                   Adjacent(g_active.generation,
                            flash'[1 - g_active_slot].header.generation)
<1>1. Target \in Slots /\ flash'[Target] = cell
      /\ \A s \in Slots : s # Target => flash'[s] = flash[s]
  BY TargetIsSpare DEF TypeOK
<1>2. Claims(cell) =>
        \/ Claims(flash[Target]) /\ cell.header = flash[Target].header
        \/ cell.header.generation = NextGeneration
  BY <1>1, ClaimsAreOldOrNext
<1>3. CASE g_active = None
  <2>1. Target = 1 /\ flash'[0] = flash[0] /\ flash'[1] = cell
    BY <1>1, <1>3, TargetIsSpare DEF Slots
  <2>2. Claims(cell) => cell.header.generation = 1
    BY <1>2, <1>3, <2>1 DEF ActiveInv, NeverSaved, NextGeneration
  <2>3. Claims(flash'[1]) => flash'[1].header.generation = 1
    BY <2>1, <2>2
  <2>4. flash'[0].magic = Blank
    BY <1>3, <2>1 DEF ActiveInv, NeverSaved
  <2> QED  BY <1>3, <2>3, <2>4 DEF NeverSaved, Claims
<1>4. CASE g_active # None
  <2>1. /\ g_active_slot \in Slots /\ Target = 1 - g_active_slot
        /\ flash'[g_active_slot] = flash[g_active_slot]
        /\ flash'[1 - g_active_slot] = cell
    BY <1>1, <1>4, TargetIsSpare DEF TypeOK
  <2>2. Claims(cell) => Adjacent(g_active.generation, cell.header.generation)
    BY <1>2, <1>4, <2>1 DEF ActiveInv, Fallback, NextGeneration, Adjacent
  <2>3. /\ Valid(flash[g_active_slot])
        /\ flash[g_active_slot].header = g_active
    BY <1>4 DEF ActiveInv, Fallback
  <2> QED  BY <1>4, <2>1, <2>2, <2>3
<1> QED  BY <1>3, <1>4

-----------------------------------------------------------------------------
(* What the boot scan selects.                                              *)

LEMMA ScanSelectsFallback ==
  ASSUME TypeOK, FlashInv
  PROVE  /\ Found = {} => Selected = None /\ NeverSaved
         /\ Found # {} => /\ Best \in Slots /\ Best \in Found
                          /\ Selected = flash[Best].header
                          /\ Selected \in Manifests
                          /\ Fallback(Best)
<1>0. /\ \A s \in Slots : Valid(flash[s]) => Claims(flash[s])
      /\ Magic # Blank
  BY CalibrationAssumption DEF Valid, Claims
<1>1. CASE Found = {}
  <2>1. \A s \in Slots : ~Fallback(s)
    BY <1>1 DEF Found, Fallback
  <2> QED  BY <1>1, <2>1 DEF FlashInv, Selected
<1>2. CASE Found # {}
  <2>1. Best \in Slots /\ Best \in Found
    BY <1>2 DEF Best, Found, Slots
  <2>2. Selected = flash[Best].header /\ Selected \in Manifests
    BY <1>2, <2>1 DEF Selected, Found, Valid
  <2>3. Fallback(Best)
    <3>1. CASE NeverSaved
      <4>1. ~Valid(flash[0]) /\ ~Claims(flash[0])
        BY <1>0, <3>1 DEF NeverSaved, Claims, Valid
      <4>2. Best = 1 /\ Valid(flash[1])
        BY <2>1, <4>1 DEF Found, Slots
      <4> QED  BY <4>1, <4>2 DEF Fallback
    <3>2. ASSUME NEW s \in Slots, Fallback(s)
          PROVE  Fallback(Best)
      <4>1. CASE Best = s
        BY <3>2, <4>1
      <4>2. CASE Best # s
        <5>1. s = 1 - Best /\ Best = 1 - s
          BY <2>1, <4>2 DEF Slots
        <5>2. Valid(flash[Best]) /\ Claims(flash[Best])
          BY <1>0, <2>1 DEF Found
        <5>3. Adjacent(flash[Best].header.generation,
                       flash[s].header.generation)
          BY <3>2, <5>1, <5>2 DEF Fallback, Adjacent
        <5> QED  BY <5>1, <5>2, <5>3 DEF Fallback
      <4> QED  BY <4>1, <4>2
    <3> QED  BY <3>1, <3>2 DEF FlashInv
  <2> QED  BY <2>1, <2>2, <2>3
<1> QED  BY <1>1, <1>2

-----------------------------------------------------------------------------
(* The invariant is inductive.                                              *)

THEOREM InitInductive == Init => IInv
<1> SUFFICES ASSUME Init PROVE IInv
  OBVIOUS
<1>1. Magic # Blank
  BY CalibrationAssumption
<1>2. TypeOK
  BY DEF Init, TypeOK, Slots, Cells, FinishLabels
<1>3. FlashInv
  BY <1>1 DEF Init, FlashInv, NeverSaved, Claims, Slots
<1> QED  BY <1>2, <1>3 DEF Init, IInv, ActiveInv, StagingInv, ReadbackInv,
            RuntimeInv, FinishLabels

\* A running device's fallback is what the next boot finds.
LEMMA ActiveGivesFlash ==
  TypeOK /\ ActiveInv /\ pc # "boot" => FlashInv
BY DEF TypeOK, ActiveInv, FlashInv

LEMMA ScanStep ==
  ASSUME IInv, storage_init
  PROVE  IInv'
<1> USE DEF IInv
<1>1. CASE g_runtime_initialized /\ g_staging_valid
  <2>1. pc = "idle" /\ pc' = "idle"
    BY <1>1 DEF storage_init, RuntimeInv
  <2>2. TypeOK'
    BY <1>1, <2>1 DEF storage_init, TypeOK, activeVars, stagingVars
  <2> QED  BY <1>1, <2>1, <2>2 DEF storage_init, activeVars, stagingVars,
              FlashInv, ActiveInv, StagingInv, ReadbackInv, RuntimeInv,
              FinishLabels, NeverSaved, Fallback, NextGeneration
<1>2. CASE ~(g_runtime_initialized /\ g_staging_valid)
  <2>1. /\ Scan
        /\ UNCHANGED <<flash, g_staging, g_staging_payload>>
        /\ g_written' \in {g_written, {}}
        /\ g_staging_valid' = FALSE
        /\ pc' = "idle" /\ g_runtime_initialized' = TRUE
    BY <1>2 DEF storage_init, stagingVars, TypeOK
  <2>2. /\ Found = {} => g_active' = None /\ NeverSaved
        /\ Found # {} => /\ g_active' \in Manifests /\ g_active' # None
                         /\ g_active_slot' \in Slots
                         /\ g_active' = flash[g_active_slot'].header
                         /\ Fallback(g_active_slot')
    <3>1. None \notin Manifests
      BY CalibrationAssumption DEF Manifests, Generations
    <3> QED  BY <2>1, <3>1, ScanSelectsFallback DEF Scan
  <2>3. TypeOK'
    <3>1. g_active_slot' \in Slots
      BY <2>1, <2>2 DEF Scan, TypeOK, Slots
    <3>2. g_init_status' \in {"no-valid", "ok", "busy"}
      BY <2>1 DEF Scan
    <3> QED  BY <2>1, <2>2, <3>1, <3>2 DEF TypeOK
  <2>4. ActiveInv'
    BY <2>1, <2>2 DEF ActiveInv, NeverSaved, Fallback
  <2>5. FlashInv'
    BY <2>1 DEF FlashInv, NeverSaved, Fallback
  <2> QED  BY <2>1, <2>3, <2>4, <2>5 DEF StagingInv, ReadbackInv, RuntimeInv,
              FinishLabels
<1> QED  BY <1>1, <1>2

\* Steps of the staging buffer leave the flash and the active slot alone.
LEMMA StagingStep ==
  ASSUME IInv,
         \/ \E p \in Packages : storage_begin(p)
         \/ \E i \in Parts, p \in Packages : storage_write(i, p)
         \/ storage_abort
         \/ finish_start
  PROVE  IInv'
<1> USE DEF IInv
<1>1. /\ UNCHANGED <<flash, g_active, g_active_slot, g_init_status,
                     g_runtime_initialized>>
      /\ pc = "idle" /\ pc' \in {"idle", "erase"}
      /\ pc' = "erase" => g_staging_valid'
  BY DEF storage_begin, storage_write, storage_abort, finish_start, activeVars,
         statusVars
<1>2. g_active # None => Succ(g_active.generation) \in Generations
  BY SuccFacts DEF TypeOK, Manifests
<1>3. 1 \in Generations
  BY CalibrationAssumption DEF Generations
<1>4. /\ g_staging' \in Manifests \cup {None}
      /\ g_staging_valid' => /\ g_staging' \in Manifests
                             /\ g_staging'.generation = NextGeneration
  <2>1. ASSUME NEW p \in Packages, storage_begin(p)
        PROVE  g_staging' \in Manifests
               /\ g_staging'.generation = NextGeneration
    BY <1>2, <1>3, <2>1 DEF storage_begin, Manifests, NextGeneration
  <2>2. CASE UNCHANGED <<g_staging, g_staging_valid>>
    BY <1>1, <2>2 DEF StagingInv, TypeOK
  <2>3. CASE storage_abort
    BY <2>3 DEF storage_abort, stagingVars, TypeOK
  <2> QED  BY <2>1, <2>2, <2>3 DEF storage_write, finish_start, stagingVars
<1>5. TypeOK'
  <2>1. /\ g_staging_payload' \in [Parts -> Packages \cup {None}]
        /\ g_written' \subseteq Parts
        /\ g_staging_valid' \in BOOLEAN
    BY DEF storage_begin, storage_write, storage_abort, finish_start, TypeOK,
           stagingVars
  <2> QED  BY <1>1, <1>4, <2>1 DEF TypeOK, FinishLabels
<1>6. ActiveInv' /\ FlashInv'
  BY <1>1 DEF ActiveInv, FlashInv, NeverSaved, Fallback
<1>7. NextGeneration' = NextGeneration
  BY <1>1 DEF NextGeneration
<1> QED  BY <1>1, <1>4, <1>5, <1>6, <1>7 DEF StagingInv, ReadbackInv,
            RuntimeInv, FinishLabels

\* The slot to fall back to, and the flash types, after any flash operation.
LEMMA OperationKeepsFlash ==
  ASSUME IInv, NEW cell \in Results(flash[Target]),
         flash' = [flash EXCEPT ![Target] = cell]
  PROVE  /\ flash' \in [Slots -> Cells]
         /\ flash'[Target] = cell
         /\ FlashInv'
         /\ UNCHANGED <<g_active, g_active_slot>> /\ pc # "boot" => ActiveInv'
<1> USE DEF IInv
<1>1. Target \in Slots /\ cell \in Cells
  BY TargetIsSpare, ResultsAreCells
<1>2. flash' \in [Slots -> Cells] /\ flash'[Target] = cell
  BY <1>1 DEF TypeOK
<1>3. CASE pc = "boot"
  <2>1. cell = flash[Target]
    BY <1>3 DEF Results
  <2>2. flash' = flash
    BY <1>1, <2>1 DEF TypeOK
  <2> QED  BY <1>2, <1>3, <2>2 DEF FlashInv, NeverSaved, Fallback
<1>4. CASE pc # "boot"
  <2>1. /\ g_active = None => NeverSaved'
        /\ g_active # None =>
             /\ Valid(flash'[g_active_slot])
             /\ flash'[g_active_slot].header = g_active
             /\ Claims(flash'[1 - g_active_slot]) =>
                  Adjacent(g_active.generation,
                           flash'[1 - g_active_slot].header.generation)
    BY <1>4, FallbackKept
  <2>2. FlashInv'
    BY <2>1 DEF FlashInv, Fallback, TypeOK
  <2>3. UNCHANGED <<g_active, g_active_slot>> => ActiveInv'
    BY <2>1 DEF ActiveInv, Fallback
  <2> QED  BY <1>2, <2>2, <2>3
<1> QED  BY <1>3, <1>4

LEMMA FlashStep ==
  ASSUME IInv, erase \/ write_payload \/ write_header \/ write_magic
  PROVE  IInv'
<1> USE DEF IInv
<1>1. /\ UNCHANGED <<g_active, g_active_slot, g_staging, g_staging_payload,
                     g_written, g_init_status, g_runtime_initialized>>
      /\ pc \in {"erase", "write_payload", "write_header", "write_magic"}
      /\ pc' \in {"idle", "write_payload", "check_payload", "check_header",
                  "check_magic"}
      /\ \/ pc' = "idle" /\ g_staging_valid' = FALSE
         \/ g_staging_valid' = g_staging_valid
      /\ pc' = "check_header" => pc = "write_header"
      /\ pc' = "check_magic" => pc = "write_magic"
  BY DEF erase, write_payload, write_header, write_magic, FlashOperation,
         failed, activeVars, stagingVars, statusVars
<1>2. PICK cell \in Results(flash[Target]) :
        flash' = [flash EXCEPT ![Target] = cell]
  BY DEF erase, write_payload, write_header, write_magic, FlashOperation
<1>3. /\ flash' \in [Slots -> Cells] /\ flash'[Target] = cell
      /\ FlashInv' /\ ActiveInv'
  BY <1>1, <1>2, OperationKeepsFlash
<1>4. Target' = Target /\ NextGeneration' = NextGeneration
  BY <1>1 DEF Target, NextGeneration
<1>5. TypeOK'
  BY <1>1, <1>3 DEF TypeOK, FinishLabels
<1>6. StagingInv'
  BY <1>1, <1>4 DEF StagingInv, FinishLabels
<1>7. ReadbackInv'
  <2>1. flash[Target] \in Cells
    BY TargetIsSpare DEF TypeOK
  <2>2. CASE pc' = "check_header"
    <3>1. cell.body = flash[Target].body
      BY <1>1, <2>1, <2>2 DEF Results, Cells
    <3>2. flash'[Target'].body = g_staging'.package
      BY <1>1, <1>3, <1>4, <2>2, <3>1 DEF ReadbackInv
    <3> QED  BY <2>2, <3>2 DEF ReadbackInv
  <2>3. CASE pc' = "check_magic"
    <3>1. cell.body = flash[Target].body /\ cell.header = flash[Target].header
      BY <1>1, <2>1, <2>3 DEF Results, Cells
    <3>2. /\ flash'[Target'].body = g_staging'.package
          /\ flash'[Target'].header = g_staging'
      BY <1>1, <1>3, <1>4, <2>3, <3>1 DEF ReadbackInv
    <3> QED  BY <2>3, <3>2 DEF ReadbackInv
  <2> QED  BY <1>1, <2>2, <2>3 DEF ReadbackInv
<1>8. RuntimeInv'
  BY <1>1 DEF RuntimeInv
<1> QED  BY <1>3, <1>5, <1>6, <1>7, <1>8

LEMMA ReadbackStep ==
  ASSUME IInv, check_payload \/ check_header
  PROVE  IInv'
<1> USE DEF IInv
<1>1. /\ UNCHANGED <<flash, g_active, g_active_slot, g_staging,
                     g_staging_payload, g_written, g_init_status,
                     g_runtime_initialized>>
      /\ pc \in {"check_payload", "check_header"}
      /\ pc' \in {"idle", "write_header", "write_magic"}
      /\ \/ pc' = "idle" /\ g_staging_valid' = FALSE
         \/ g_staging_valid' = g_staging_valid
      /\ pc' = "write_header" => flash[Target].body = g_staging.package
      /\ pc' = "write_magic" => pc = "check_header"
                                /\ flash[Target].header = g_staging
  BY DEF check_payload, check_header, Readback, failed, activeVars,
         stagingVars, statusVars
<1>2. Target' = Target /\ NextGeneration' = NextGeneration
  BY <1>1 DEF Target, NextGeneration
<1>3. TypeOK'
  BY <1>1 DEF TypeOK, FinishLabels
<1>4. ActiveInv' /\ FlashInv'
  BY <1>1 DEF ActiveInv, FlashInv, NeverSaved, Fallback
<1>5. StagingInv'
  BY <1>1, <1>2 DEF StagingInv, FinishLabels
<1>6. ReadbackInv'
  BY <1>1, <1>2 DEF ReadbackInv
<1>7. RuntimeInv'
  BY <1>1 DEF RuntimeInv
<1> QED  BY <1>3, <1>4, <1>5, <1>6, <1>7

LEMMA MagicStep ==
  ASSUME IInv, check_magic
  PROVE  IInv'
<1> USE DEF IInv
<1>1. /\ UNCHANGED <<flash, g_staging, g_staging_payload, g_written,
                     g_runtime_initialized>>
      /\ pc = "check_magic" /\ pc' = "idle" /\ g_staging_valid' = FALSE
  BY DEF check_magic, stagingVars
<1>2. /\ flash[Target].header = g_staging
      /\ flash[Target].body = g_staging.package
      /\ g_staging \in Manifests /\ g_staging # None
      /\ g_staging.generation = NextGeneration
      /\ Target \in Slots
  BY <1>1, TargetIsSpare, CalibrationAssumption
     DEF ReadbackInv, StagingInv, FinishLabels, Manifests, Generations
<1>3. StagingInv' /\ ReadbackInv' /\ RuntimeInv'
  BY <1>1 DEF StagingInv, ReadbackInv, RuntimeInv, FinishLabels
<1>4. CASE flash[Target].magic = Magic
  <2>1. g_active' = g_staging /\ g_active_slot' = Target
        /\ g_init_status' = "ok"
    BY <1>4 DEF check_magic
  <2>2. TypeOK'
    BY <1>1, <1>2, <2>1 DEF TypeOK
  <2>3. Valid(flash[Target])
    BY <1>2, <1>4 DEF Valid
  <2>4. Claims(flash[1 - Target]) =>
          Adjacent(g_staging.generation, flash[1 - Target].header.generation)
    <3>1. CASE g_active = None
      <4>1. 1 - Target = 0 /\ flash[0].magic = Blank
        BY <1>1, <3>1, TargetIsSpare DEF ActiveInv, NeverSaved
      <4> QED  BY <4>1, CalibrationAssumption DEF Claims
    <3>2. CASE g_active # None
      <4>1. 1 - Target = g_active_slot
        BY <3>2, TargetIsSpare DEF TypeOK, Slots
      <4>2. flash[1 - Target].header = g_active
        BY <1>1, <3>2, <4>1 DEF ActiveInv
      <4> QED  BY <1>2, <3>2, <4>2 DEF NextGeneration, Adjacent
    <3> QED  BY <3>1, <3>2
  <2>5. Fallback(Target)
    BY <1>2, <2>3, <2>4 DEF Fallback
  <2>6. ActiveInv'
    BY <1>1, <1>2, <2>1, <2>5 DEF ActiveInv, Fallback
  <2>7. FlashInv'
    BY <1>1, <1>2, <2>5 DEF FlashInv, Fallback
  <2> QED  BY <1>3, <2>2, <2>6, <2>7
<1>5. CASE flash[Target].magic # Magic
  <2>1. UNCHANGED <<g_active, g_active_slot, g_init_status>>
    BY <1>5 DEF check_magic, activeVars
  <2> QED  BY <1>1, <1>3, <2>1 DEF TypeOK, ActiveInv, FlashInv, NeverSaved,
              Fallback
<1> QED  BY <1>4, <1>5

LEMMA ResetStep ==
  ASSUME IInv, reset
  PROVE  IInv'
<1> USE DEF IInv
<1>1. PICK cell \in Results(flash[Target]) :
        flash' = [flash EXCEPT ![Target] = cell]
  BY DEF reset
<1>2. flash' \in [Slots -> Cells] /\ FlashInv'
  BY <1>1, OperationKeepsFlash
<1>3. TypeOK'
  BY <1>2 DEF reset, TypeOK, stagingVars, Slots
<1> QED  BY <1>2, <1>3 DEF reset, ActiveInv, StagingInv, ReadbackInv,
            RuntimeInv, FinishLabels

THEOREM NextInductive == IInv /\ [Next]_vars => IInv'
<1> SUFFICES ASSUME IInv, [Next]_vars PROVE IInv'
  OBVIOUS
<1>1. CASE storage_init
  BY <1>1, ScanStep
<1>2. CASE \/ \E p \in Packages : storage_begin(p)
           \/ \E i \in Parts, p \in Packages : storage_write(i, p)
           \/ storage_abort
           \/ finish_start
  BY <1>2, StagingStep
<1>3. CASE erase \/ write_payload \/ write_header \/ write_magic
  BY <1>3, FlashStep
<1>4. CASE check_payload \/ check_header
  BY <1>4, ReadbackStep
<1>5. CASE check_magic
  BY <1>5, MagicStep
<1>6. CASE reset
  BY <1>6, ResetStep
<1>7. CASE UNCHANGED vars
  BY <1>7 DEF vars, IInv, TypeOK, FlashInv, ActiveInv, StagingInv, ReadbackInv,
              RuntimeInv, NeverSaved, Fallback, NextGeneration, Target
<1> QED  BY <1>1, <1>2, <1>3, <1>4, <1>5, <1>6, <1>7 DEF Next, Finish

THEOREM Invariance == Spec => []IInv
BY InitInductive, NextInductive, PTL DEF Spec

-----------------------------------------------------------------------------
(* The properties.                                                          *)

\* Every variable keeps its type.
THEOREM TypeSafety == Spec => []TypeOK
BY Invariance, PTL DEF IInv

\* The slot of the calibration being served is never disturbed.
THEOREM FallbackSafety == Spec => []ActiveIsSaved
<1>1. IInv => ActiveIsSaved
  BY DEF IInv, ActiveInv, Fallback, ActiveIsSaved
<1> QED  BY <1>1, Invariance, PTL

LEMMA ValidClaims == \A s \in Slots : Valid(flash[s]) => Claims(flash[s])
BY DEF Valid, Claims

\* Two valid slots are one generation apart: the signed comparison of the
\* boot scan never meets generations it cannot order.
THEOREM GenerationSafety == Spec => []GenerationsAdjacent
<1>1. ASSUME IInv, Found = Slots
      PROVE  Adjacent(flash[0].header.generation, flash[1].header.generation)
  <2>1. Valid(flash[0]) /\ Valid(flash[1]) /\ Claims(flash[0])
        /\ Claims(flash[1]) /\ Magic # Blank
    BY <1>1, ValidClaims, CalibrationAssumption DEF Found, Slots
  <2>2. ~NeverSaved
    BY <2>1 DEF NeverSaved, Claims
  <2>3. PICK s \in Slots : Fallback(s)
    BY <1>1, <2>2 DEF IInv, FlashInv
  <2>4. (s = 0 /\ 1 - s = 1) \/ (s = 1 /\ 1 - s = 0)
    BY DEF Slots
  <2> QED  BY <2>1, <2>3, <2>4 DEF Fallback, Adjacent
<1>2. IInv => GenerationsAdjacent
  BY <1>1 DEF GenerationsAdjacent, Adjacent
<1> QED  BY <1>2, Invariance, PTL

\* On a running device the scan would select the fallback slot, or the spare
\* when that holds the next generation.
LEMMA SelectedWhenRunning ==
  ASSUME IInv, pc # "boot"
  PROVE  /\ g_active = None =>
              \/ Found = {} /\ Selected = None
              \/ /\ Found = {1} /\ Selected = flash[1].header
                 /\ Selected.generation = 1
         /\ g_active # None =>
              /\ ~Valid(flash[1 - g_active_slot]) => Selected = g_active
              /\ Valid(flash[1 - g_active_slot]) =>
                   \/ Best = g_active_slot /\ Selected = g_active
                   \/ /\ Found = Slots
                      /\ Best = 1 - g_active_slot /\ Best # g_active_slot
                      /\ Selected = flash[1 - g_active_slot].header
                      /\ Selected.generation = Succ(g_active.generation)
              /\ /\ Valid(flash[1 - g_active_slot])
                 /\ flash[1 - g_active_slot].header.generation
                      = Succ(g_active.generation)
                 => Selected = flash[1 - g_active_slot].header
<1> USE DEF IInv
<1>1. CASE g_active = None
  <2>1. ~Valid(flash[0])
    BY <1>1, CalibrationAssumption DEF ActiveInv, NeverSaved, Valid
  <2>2. Valid(flash[1]) => Found = {1} /\ Best = 1
                           /\ flash[1].header.generation = 1
    BY <1>1, <2>1, ValidClaims DEF Found, Slots, Best, ActiveInv, NeverSaved
  <2>3. ~Valid(flash[1]) => Found = {}
    BY <2>1 DEF Found, Slots
  <2> QED  BY <1>1, <2>2, <2>3 DEF Selected
<1>2. CASE g_active # None
  <2> DEFINE a == g_active_slot
             b == 1 - g_active_slot
  <2>1. /\ (a = 0 /\ b = 1) \/ (a = 1 /\ b = 0)
        /\ a \in Slots /\ b \in Slots
    BY DEF TypeOK, Slots
  <2>2. /\ Valid(flash[a]) /\ flash[a].header = g_active
        /\ a \in Found /\ g_active \in Manifests
    BY <1>2, <2>1 DEF ActiveInv, Fallback, Found, TypeOK
  <2>3. CASE ~Valid(flash[b])
    <3>1. Found = {a} /\ Best = a
      BY <2>1, <2>2, <2>3 DEF Found, Slots, Best
    <3> QED  BY <1>2, <2>2, <2>3, <3>1 DEF Selected
  <2>4. CASE Valid(flash[b])
    <3>1. /\ Found = Slots /\ Found # {}
          /\ flash[b].header \in Manifests
          /\ Adjacent(g_active.generation, flash[b].header.generation)
      BY <1>2, <2>1, <2>2, <2>4, ValidClaims
         DEF Found, Slots, Valid, ActiveInv, Fallback
    <3>2. g_active.generation \in Generations
          /\ flash[b].header.generation \in Generations
      BY <2>2, <3>1 DEF Manifests
    <3>3. ~(/\ g_active.generation = Succ(flash[b].header.generation)
            /\ flash[b].header.generation = Succ(g_active.generation))
      BY <3>2, CalibrationAssumption DEF Succ, Generations
    <3>4. CASE a = 0 /\ b = 1
      <4>1. Newer(flash[1].header, flash[0].header) <=>
              flash[1].header.generation = Succ(flash[0].header.generation)
        BY <2>2, <3>1, <3>4, NewerIsSuccessor
      <4>2. 0 \in Found /\ 1 \in Found
        BY <3>1 DEF Slots
      <4>3. CASE Best = 0
        <5>1. flash[1].header.generation # Succ(g_active.generation)
          BY <2>2, <3>4, <4>1, <4>2, <4>3 DEF Best
        <5> QED  BY <1>2, <2>2, <2>4, <3>1, <3>4, <4>3, <5>1 DEF Selected
      <4>4. CASE Best = 1
        <5>1. flash[1].header.generation = Succ(g_active.generation)
          BY <2>2, <3>4, <4>1, <4>2, <4>4 DEF Best
        <5> QED  BY <1>2, <2>2, <2>4, <3>1, <3>4, <4>4, <5>1 DEF Selected
      <4> QED  BY <4>3, <4>4 DEF Best
    <3>5. CASE a = 1 /\ b = 0
      <4>1. Newer(flash[1].header, flash[0].header) <=>
              flash[1].header.generation = Succ(flash[0].header.generation)
        BY <2>2, <3>1, <3>5, NewerIsSuccessor DEF Adjacent
      <4>2. 0 \in Found /\ 1 \in Found
        BY <3>1 DEF Slots
      <4>3. CASE Best = 0
        <5>1. g_active.generation # Succ(flash[0].header.generation)
          BY <2>2, <3>5, <4>1, <4>2, <4>3 DEF Best
        <5>2. flash[0].header.generation = Succ(g_active.generation)
          BY <3>1, <3>5, <5>1 DEF Adjacent
        <5> QED  BY <1>2, <2>2, <2>4, <3>1, <3>5, <4>3, <5>2 DEF Selected
      <4>4. CASE Best = 1
        <5>1. g_active.generation = Succ(flash[0].header.generation)
          BY <2>2, <3>5, <4>1, <4>2, <4>4 DEF Best
        <5> QED  BY <1>2, <2>2, <2>4, <3>1, <3>3, <3>5, <4>4, <5>1
                 DEF Selected
      <4> QED  BY <4>3, <4>4 DEF Best
    <3> QED  BY <2>1, <3>4, <3>5
  <2> QED  BY <2>3, <2>4
<1> QED  BY <1>1, <1>2

\* What a reset would bring back is what is served, or the next generation.
THEOREM SelectionSafety == Spec => []SelectedIsServedOrNext
<1>1. IInv => SelectedIsServedOrNext
  BY SelectedWhenRunning DEF SelectedIsServedOrNext
<1> QED  BY <1>1, Invariance, PTL

\* The boot scan is never refused because of stale RAM.
THEOREM BootSafety == Spec => BootNeverBusy
<1>1. ASSUME IInv, [Next]_vars, pc = "boot", pc' = "idle"
      PROVE  g_init_status' # "busy" /\ ~g_staging_valid'
  <2>1. storage_init
    BY <1>1 DEF Next, Finish, storage_begin, storage_write, storage_abort,
       finish_start, erase, write_payload, check_payload, write_header,
       check_header, write_magic, check_magic, reset, FlashOperation, Readback,
       vars
  <2>2. ~g_runtime_initialized
    BY <1>1 DEF IInv, RuntimeInv
  <2> QED  BY <2>1, <2>2 DEF storage_init, Scan
<1>2. IInv /\ [Next]_vars =>
        [pc = "boot" /\ pc' = "idle" =>
           g_init_status' # "busy" /\ ~g_staging_valid']_vars
  BY <1>1
<1> QED  BY <1>2, Invariance, PTL DEF Spec, BootNeverBusy

-----------------------------------------------------------------------------
(* Implementation of the one-package store.                                 *)

\* A slot the boot would accept after a flash operation was acceptable before
\* it, unchanged, or holds the uploaded package.
LEMMA NewlyValidIsUpload ==
  ASSUME IInv, pc # "boot", NEW cell \in Results(flash[Target]), Valid(cell)
  PROVE  \/ cell = flash[Target]
         \/ g_staging_valid /\ cell.header.package = g_staging.package
<1> USE DEF IInv
<1> DEFINE old == flash[Target]
<1>1. /\ old \in Cells /\ Magic # Blank /\ Magic # Torn
      /\ Blank \notin Packages /\ Torn \notin Packages
      /\ Blank \notin Manifests /\ Torn \notin Manifests
  BY TargetIsSpare, CalibrationAssumption DEF TypeOK, Manifests, Generations
<1>2. /\ cell.magic = Magic /\ cell.header \in Manifests
      /\ cell.body = cell.header.package /\ cell.body \in Packages
  BY DEF Valid, Manifests
<1>3. CASE pc = "erase"
  <2>1. /\ cell \in [magic : Erased(old.magic), header : Erased(old.header),
                     body : Erased(old.body)]
    BY <1>3 DEF Results
  <2>2. /\ cell.magic = old.magic /\ cell.header = old.header
        /\ cell.body = old.body
    BY <1>1, <1>2, <2>1 DEF Erased
  <2>3. cell = [magic |-> cell.magic, header |-> cell.header,
                body |-> cell.body]
    BY <2>1
  <2>4. old = [magic |-> old.magic, header |-> old.header, body |-> old.body]
    BY <1>1 DEF Cells
  <2> QED  BY <2>2, <2>3, <2>4
<1>4. CASE pc = "write_payload"
  <2>1. g_staging_valid
    BY <1>4 DEF StagingInv, FinishLabels
  <2>2. PICK b \in Programmed(old.body, g_staging.package) :
          cell = [old EXCEPT !.body = b]
    BY <1>4 DEF Results
  <2>3. b \in {old.body, Torn, g_staging.package} /\ cell.body = b
    BY <1>1, <2>2 DEF Programmed, Cells
  <2>4. CASE b = old.body
    BY <1>1, <2>2, <2>4 DEF Cells
  <2>5. CASE b = g_staging.package
    BY <1>2, <2>1, <2>3, <2>5
  <2> QED  BY <1>1, <1>2, <2>3, <2>4, <2>5
<1>5. CASE pc = "write_header"
  <2>1. g_staging_valid
    BY <1>5 DEF StagingInv, FinishLabels
  <2>2. PICK h \in Programmed(old.header, g_staging) :
          cell = [old EXCEPT !.header = h]
    BY <1>5 DEF Results
  <2>3. h \in {old.header, Torn, g_staging} /\ cell.header = h
    BY <1>1, <2>2 DEF Programmed, Cells
  <2>4. CASE h = old.header
    BY <1>1, <2>2, <2>4 DEF Cells
  <2>5. CASE h = g_staging
    BY <2>1, <2>3, <2>5
  <2> QED  BY <1>1, <1>2, <2>3, <2>4, <2>5
<1>6. CASE pc = "write_magic"
  <2>1. g_staging_valid /\ old.header = g_staging
    BY <1>6 DEF StagingInv, ReadbackInv, FinishLabels
  <2>2. cell.header = old.header
    BY <1>1, <1>6 DEF Results, Cells
  <2> QED  BY <2>1, <2>2
<1>7. CASE pc \notin {"erase", "write_payload", "write_header", "write_magic"}
  BY <1>7 DEF Results
<1> QED  BY <1>3, <1>4, <1>5, <1>6, <1>7

\* What the boot would select after a flash operation is one of three things.
LEMMA SavedOutcome ==
  ASSUME IInv, NEW cell \in Results(flash[Target]),
         flash' = [flash EXCEPT ![Target] = cell]
  PROVE  savedMap' \in Store!Outcomes
<1> USE DEF IInv
<1>1. /\ Target \in Slots /\ flash'[Target] = cell
      /\ cell = flash[Target] => flash' = flash
      /\ \A s \in Slots : s # Target => flash'[s] = flash[s]
  BY TargetIsSpare DEF TypeOK
<1>2. CASE flash' = flash
  <2>1. savedMap' = savedMap
    BY <1>2 DEF savedMap, PackageOf, Selected, Found, Best
  <2> QED  BY <2>1 DEF Store!Outcomes
<1>3. CASE flash' # flash
  <2>1. cell # flash[Target] /\ pc # "boot"
    BY <1>1, <1>3 DEF Results
  <2>2. pc \in FinishLabels
    BY <2>1 DEF Results, FinishLabels
  <2>3. /\ g_staging_valid /\ g_staging \in Manifests
        /\ uploadMap = g_staging.package /\ uploadMap # None
        /\ servedMap = PackageOf(g_active)
    BY <2>1, <2>2, CalibrationAssumption
       DEF StagingInv, uploadMap, servedMap, Manifests
  <2>4. Valid(cell) => cell.header.package = uploadMap
                       /\ cell.header # None
    BY <2>1, <2>3, NewlyValidIsUpload, CalibrationAssumption
       DEF Valid, Manifests, Generations
  <2>5. \A s \in Slots : s \in Found' <=> Valid(flash'[s])
    BY DEF Found, Valid
  <2>6. Selected' = g_active \/ (Valid(cell) /\ Selected' = cell.header)
    <3>1. CASE g_active = None
      <4>1. Target = 1 /\ ~Valid(flash'[0]) /\ flash'[1] = cell
        BY <1>1, <2>1, <3>1, TargetIsSpare, CalibrationAssumption
           DEF ActiveInv, NeverSaved, Valid, Slots
      <4>2. CASE Valid(cell)
        <5>1. Found' = {1}
          BY <4>1, <4>2, <2>5 DEF Found, Slots
        <5>2. Best' = 1
          BY <5>1 DEF Best
        <5> QED  BY <4>1, <4>2, <5>1, <5>2 DEF Selected
      <4>3. CASE ~Valid(cell)
        <5>1. Found' = {}
          BY <4>1, <4>3, <2>5 DEF Found, Slots
        <5> QED  BY <3>1, <5>1 DEF Selected
      <4> QED  BY <4>2, <4>3
    <3>2. CASE g_active # None
      <4>1. /\ g_active_slot \in Slots /\ Target = 1 - g_active_slot
            /\ \/ g_active_slot = 0 /\ Target = 1
               \/ g_active_slot = 1 /\ Target = 0
            /\ flash'[g_active_slot] = flash[g_active_slot]
            /\ Valid(flash[g_active_slot])
            /\ flash[g_active_slot].header = g_active
        BY <1>1, <2>1, <3>2, TargetIsSpare
           DEF ActiveInv, Fallback, TypeOK, Slots
      <4>2. Found' # {} /\ g_active_slot \in Found'
        BY <2>5, <4>1
      <4>3. Selected' = flash'[Best'].header
        BY <4>2 DEF Selected
      <4>4. Best' \in Slots /\ Best' \in Found'
        BY <4>2 DEF Best, Found, Slots
      <4>5. CASE Best' = g_active_slot
        BY <4>1, <4>3, <4>5
      <4>6. CASE Best' = Target
        BY <1>1, <2>5, <4>3, <4>4, <4>6
      <4> QED  BY <4>1, <4>4, <4>5, <4>6 DEF Slots
    <3> QED  BY <3>1, <3>2
  <2>7. savedMap' = servedMap \/ savedMap' = uploadMap
    BY <2>3, <2>4, <2>6 DEF savedMap, PackageOf
  <2> QED  BY <2>3, <2>7 DEF Store!Outcomes
<1> QED  BY <1>2, <1>3

THEOREM InitRefines == Init => Store!Init
BY CalibrationAssumption DEF Init, Store!Init, savedMap, servedMap, uploadMap, upMap,
   PackageOf, Selected, Found, Valid, Slots

\* What is selected is a function of the flash alone.
LEMMA SelectedFollowsFlash ==
  ASSUME UNCHANGED flash
  PROVE  savedMap' = savedMap /\ Selected' = Selected
         /\ savedMap' \in Store!Outcomes
<1>1. savedMap' = savedMap /\ Selected' = Selected
  BY DEF savedMap, PackageOf, Selected, Found, Best
<1> QED  BY <1>1 DEF Store!Outcomes

THEOREM StepRefines == IInv /\ [Next]_vars => [Store!Next]_(Store!vars)
<1> SUFFICES ASSUME IInv, [Next]_vars
             PROVE  [Store!Next]_(Store!vars)
  OBVIOUS
<1> USE DEF IInv
<1>1. CASE storage_init
  <2>1. UNCHANGED flash /\ pc' = "idle"
    BY <1>1 DEF storage_init
  <2>2. savedMap' = savedMap
    BY <2>1, SelectedFollowsFlash
  <2>3. CASE g_runtime_initialized /\ g_staging_valid
    <3>1. UNCHANGED <<g_active, g_staging, g_staging_valid>> /\ pc = "idle"
      BY <1>1, <2>3 DEF storage_init, RuntimeInv, activeVars, stagingVars
    <3> QED  BY <2>1, <2>2, <3>1
             DEF Store!vars, servedMap, uploadMap, upMap, PackageOf
  <2>4. CASE ~(g_runtime_initialized /\ g_staging_valid)
    <3>1. g_active' = Selected /\ g_staging_valid' = FALSE
      BY <1>1, <2>4 DEF storage_init, Scan, TypeOK
    <3>2. uploadMap = None
      BY <2>4 DEF uploadMap, RuntimeInv
    <3>3. uploadMap' = None /\ upMap' = TRUE
      BY <2>1, <3>1 DEF uploadMap, upMap
    <3>4. servedMap' = savedMap
      BY <2>1, <3>1 DEF servedMap, savedMap, PackageOf
    <3> QED  BY <2>2, <3>2, <3>3, <3>4 DEF Store!Scan, Store!Next
  <2> QED  BY <2>3, <2>4
<1>2. ASSUME NEW p \in Packages, storage_begin(p)
      PROVE  Store!Stage(p)
  <2>1. UNCHANGED <<flash, g_active, pc>> /\ pc = "idle" /\ ~g_staging_valid
        /\ g_staging_valid' = TRUE /\ g_staging'.package = p
    BY <1>2 DEF storage_begin, activeVars
  <2>2. savedMap' = savedMap
    BY <2>1, SelectedFollowsFlash
  <2> QED  BY <2>1, <2>2
           DEF Store!Stage, servedMap, uploadMap, upMap, PackageOf
<1>3. CASE \/ \E i \in Parts, p \in Packages : storage_write(i, p)
           \/ finish_start
  <2>1. UNCHANGED <<flash, g_active, g_staging, g_staging_valid>>
        /\ pc # "boot" /\ pc' # "boot"
    BY <1>3 DEF storage_write, finish_start, activeVars, stagingVars
  <2>2. savedMap' = savedMap
    BY <2>1, SelectedFollowsFlash
  <2> QED  BY <2>1, <2>2
           DEF Store!vars, servedMap, uploadMap, upMap, PackageOf
<1>4. CASE storage_abort
  <2>1. UNCHANGED <<flash, g_active, pc>> /\ pc = "idle"
        /\ g_staging_valid' = FALSE
    BY <1>4 DEF storage_abort, activeVars
  <2>2. savedMap' \in Store!Outcomes
    BY <2>1, SelectedFollowsFlash
  <2>3. uploadMap' = None /\ upMap' = upMap /\ upMap /\ servedMap' = servedMap
    BY <2>1 DEF servedMap, uploadMap, upMap, PackageOf
  <2> QED  BY <2>2, <2>3 DEF Store!Drop, Store!Next
<1>5. CASE erase \/ write_payload \/ write_header \/ write_magic
  <2>1. PICK cell \in Results(flash[Target]) :
          flash' = [flash EXCEPT ![Target] = cell]
    BY <1>5 DEF erase, write_payload, write_header, write_magic,
       FlashOperation
  <2>2. savedMap' \in Store!Outcomes
    BY <2>1, SavedOutcome
  <2>3. /\ UNCHANGED <<g_active, g_staging>> /\ pc # "boot" /\ pc' # "boot"
        /\ UNCHANGED g_staging_valid \/ g_staging_valid' = FALSE
    BY <1>5 DEF erase, write_payload, write_header, write_magic,
       FlashOperation, failed, activeVars, stagingVars
  <2>4. upMap' = upMap /\ upMap /\ servedMap' = servedMap
        /\ (uploadMap' = uploadMap \/ uploadMap' = None)
    BY <2>3 DEF servedMap, uploadMap, upMap, PackageOf
  <2> QED  BY <2>2, <2>4 DEF Store!Save, Store!Drop, Store!Next
<1>6. CASE check_payload \/ check_header
  <2>1. /\ UNCHANGED <<flash, g_active, g_staging>>
        /\ pc # "boot" /\ pc' # "boot"
        /\ UNCHANGED g_staging_valid \/ g_staging_valid' = FALSE
    BY <1>6 DEF check_payload, check_header, Readback, failed, activeVars,
       stagingVars
  <2>2. savedMap' \in Store!Outcomes
    BY <2>1, SelectedFollowsFlash
  <2>3. upMap' = upMap /\ upMap /\ servedMap' = servedMap
        /\ (uploadMap' = uploadMap \/ uploadMap' = None)
    BY <2>1 DEF servedMap, uploadMap, upMap, PackageOf
  <2> QED  BY <2>2, <2>3 DEF Store!Save, Store!Drop, Store!Next
<1>7. CASE check_magic
  <2>1. /\ UNCHANGED <<flash, g_staging>> /\ pc = "check_magic" /\ pc' = "idle"
        /\ g_staging_valid' = FALSE /\ g_staging_valid
    BY <1>7 DEF check_magic, stagingVars, StagingInv, FinishLabels
  <2>2. /\ savedMap' = savedMap /\ savedMap' \in Store!Outcomes
        /\ uploadMap' = None /\ upMap' = upMap /\ upMap
    BY <2>1, SelectedFollowsFlash DEF uploadMap, upMap
  <2>3. CASE flash[Target].magic # Magic
    <3>1. servedMap' = servedMap
      BY <1>7, <2>1, <2>3 DEF check_magic, activeVars, servedMap, PackageOf
    <3> QED  BY <2>2, <3>1 DEF Store!Drop, Store!Next
  <2>4. CASE flash[Target].magic = Magic
    <3>1. /\ flash[Target].header = g_staging /\ g_staging \in Manifests
          /\ flash[Target].body = g_staging.package
          /\ g_staging.generation = NextGeneration
          /\ g_staging # None /\ g_staging.package # None
      BY <2>1, CalibrationAssumption
         DEF ReadbackInv, StagingInv, FinishLabels, Manifests, Generations
    <3>2. Valid(flash[Target]) /\ Target \in Found
      BY <2>4, <3>1, TargetIsSpare DEF Valid, Found
    <3>3. Selected = g_staging
      <4>1. CASE g_active = None
        BY <2>1, <3>1, <3>2, <4>1, SelectedWhenRunning, TargetIsSpare
      <4>2. CASE g_active # None
        BY <2>1, <3>1, <3>2, <4>2, SelectedWhenRunning, TargetIsSpare
           DEF NextGeneration
      <4> QED  BY <4>1, <4>2
    <3>4. g_active' = g_staging
      BY <1>7, <2>4 DEF check_magic
    <3>5. /\ uploadMap = g_staging.package /\ uploadMap # None
          /\ savedMap = uploadMap /\ servedMap' = uploadMap
      BY <2>1, <3>1, <3>3, <3>4 DEF uploadMap, savedMap, servedMap, PackageOf
    <3> QED  BY <2>2, <3>5 DEF Store!Acknowledge, Store!Next
  <2> QED  BY <2>3, <2>4
<1>8. CASE reset
  <2>1. PICK cell \in Results(flash[Target]) :
          flash' = [flash EXCEPT ![Target] = cell]
    BY <1>8 DEF reset
  <2>2. savedMap' \in Store!Outcomes
    BY <2>1, SavedOutcome
  <2>3. uploadMap' = None /\ servedMap' = None /\ upMap' = FALSE
    BY <1>8 DEF reset, uploadMap, servedMap, upMap
  <2> QED  BY <2>2, <2>3 DEF Store!Reset, Store!Next
<1>9. CASE UNCHANGED vars
  <2>1. UNCHANGED <<flash, g_active, g_staging, g_staging_valid, pc>>
    BY <1>9 DEF vars
  <2> QED  BY <2>1, SelectedFollowsFlash
           DEF Store!vars, servedMap, uploadMap, upMap, PackageOf
<1> QED  BY <1>1, <1>2, <1>3, <1>4, <1>5, <1>6, <1>7, <1>8, <1>9
         DEF Next, Finish, Store!Next

\* The two slots, their generations and every torn flash operation together
\* implement one saved package that an upload replaces whole or not at all.
THEOREM StoreRefinement == Spec => ImplementsStore
BY InitRefines, StepRefines, Invariance, PTL
   DEF Spec, ImplementsStore, Store!Spec
=============================================================================
