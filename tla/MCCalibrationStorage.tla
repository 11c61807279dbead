-------------------------- MODULE MCCalibrationStorage --------------------------
(***************************************************************************)
(* Two packages in two pieces each, and a four-valued generation word, the *)
(* smallest whose wrap a signed comparison must get right.                 *)
(***************************************************************************)
EXTENDS CalibrationRefinement

MCParts == {1, 2}
=============================================================================
