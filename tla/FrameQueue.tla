------------------------------ MODULE FrameQueue ------------------------------
(***************************************************************************)
(* What the frame banks of the 256 profile promise: a short queue of whole *)
(* frames.  A frame is seen by consumers only when it is complete; they    *)
(* borrow its chunks one at a time, in order, oldest frame first; the      *)
(* memory is lent to a module transaction only when nothing is queued.     *)
(***************************************************************************)
EXTENDS Naturals, Sequences

CONSTANTS
  Depth,    \* frames the queue holds
  F,        \* chunks of one frame
  FrameIds, \* frame sequence numbers
  None      \* no chunk

VARIABLES
  frames,   \* complete frames not yet fully given back, oldest first
  position, \* chunks of the oldest frame already given back
  lent,     \* the chunk a consumer is reading
  borrowed  \* the memory is lent to a module transaction

fvars == <<frames, position, lent, borrowed>>

Init ==
  /\ frames = <<>>
  /\ position = 0
  /\ lent = None
  /\ borrowed = FALSE

Publish(seq) ==
  /\ ~borrowed
  /\ Len(frames) < Depth
  /\ frames' = Append(frames, seq)
  /\ UNCHANGED <<position, lent, borrowed>>

Lend ==
  /\ lent = None
  /\ frames # <<>>
  /\ lent' = [seq |-> Head(frames), off |-> position]
  /\ UNCHANGED <<frames, position, borrowed>>

\* The last chunk of a frame takes the frame with it.
Return ==
  /\ lent # None
  /\ lent' = None
  /\ IF position = F - 1 THEN frames' = Tail(frames) /\ position' = 0
                         ELSE position' = position + 1 /\ UNCHANGED frames
  /\ UNCHANGED borrowed

Borrow ==
  /\ frames = <<>>
  /\ ~borrowed
  /\ borrowed' = TRUE
  /\ UNCHANGED <<frames, position, lent>>

GiveBack ==
  /\ borrowed
  /\ borrowed' = FALSE
  /\ UNCHANGED <<frames, position, lent>>

Next ==
  \/ \E seq \in FrameIds : Publish(seq)
  \/ Lend \/ Return \/ Borrow \/ GiveBack

Spec == Init /\ [][Next]_fvars

\* Every chunk of every frame is taken and given back.
FairSpec == Spec /\ WF_fvars(Lend) /\ WF_fvars(Return)
=============================================================================
