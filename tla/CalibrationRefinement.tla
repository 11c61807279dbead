-------------------------- MODULE CalibrationRefinement -------------------------
(***************************************************************************)
(* The two-slot storage implements the one-package store: slots,           *)
(* generations and partial flash operations stay hidden.                   *)
(***************************************************************************)
EXTENDS CalibrationStorage

PackageOf(manifest) == IF manifest = None THEN None ELSE manifest.package

savedMap == PackageOf(Selected)
servedMap == IF pc = "boot" THEN None ELSE PackageOf(g_active)
uploadMap == IF pc # "boot" /\ g_staging_valid THEN g_staging.package ELSE None
upMap == pc # "boot"

Store == INSTANCE CalibrationStore WITH
           saved <- savedMap, served <- servedMap, upload <- uploadMap,
           up <- upMap

\* At every instant, power losses in the middle of a flash operation included,
\* the package a boot would select is the one served before the commit or the
\* uploaded one, and it is the uploaded one once the host was told so.
ImplementsStore == Store!Spec
=============================================================================
