----------------------------- MODULE MCBlockRing -----------------------------
(* Model checking of BlockRing and of the chunk queue it implements: two     *)
(* slots and a frame of three chunks, so that a frame never fits the ring,   *)
(* and counters modulo 4, so that they wrap within two frames.               *)
EXTENDS BlockRingQueue

MCSequences == {0, 1}
=============================================================================
