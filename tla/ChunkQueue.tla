------------------------------ MODULE ChunkQueue ------------------------------
(***************************************************************************)
(* What the frame pipeline promises its two users, whatever the memory     *)
(* layout behind it: a queue of immutable chunks.  The source appends the  *)
(* chunks of one frame at a time, in order, and may cut a frame short; the *)
(* consumer borrows the oldest chunk and gives it back; the whole payload  *)
(* memory can be lent to a module transaction while nothing else needs it. *)
(***************************************************************************)
EXTENDS Naturals, Sequences

CONSTANTS
  Depth,    \* chunks the queue holds
  F,        \* chunks of one frame
  FrameIds, \* frame sequence numbers
  None      \* no chunk

VARIABLES
  queue,    \* published chunks not yet given back, oldest first
  lent,     \* the chunk a consumer is reading
  tail,     \* the last chunk of the frame still open, once it has one
  borrowed  \* the payload memory is lent to a module transaction

cvars == <<queue, lent, tail, borrowed>>

Chunk(seq, off) == [seq |-> seq, off |-> off, start |-> off = 0,
                    end |-> off = F - 1]

Init ==
  /\ queue = <<>>
  /\ lent = None
  /\ tail = None
  /\ borrowed = FALSE

\* A frame starts only when every chunk before it has been given back, and
\* then grows by one chunk at a time.
Publish(seq, off) ==
  /\ ~borrowed
  /\ Len(queue) < Depth
  /\ IF off = 0 THEN tail = None /\ queue = <<>> /\ lent = None
                ELSE tail = Chunk(seq, off - 1)
  /\ queue' = Append(queue, Chunk(seq, off))
  /\ tail' = IF off = F - 1 THEN None ELSE Chunk(seq, off)
  /\ UNCHANGED <<lent, borrowed>>

\* The open frame gets no more chunks; those published stay.
Cut ==
  /\ tail' = None
  /\ UNCHANGED <<queue, lent, borrowed>>

Lend ==
  /\ lent = None /\ ~borrowed
  /\ queue # <<>>
  /\ lent' = Head(queue)
  /\ UNCHANGED <<queue, tail, borrowed>>

Return ==
  /\ lent # None
  /\ lent' = None
  /\ queue' = Tail(queue)
  /\ UNCHANGED <<tail, borrowed>>

Borrow ==
  /\ queue = <<>> /\ lent = None /\ tail = None
  /\ ~borrowed
  /\ borrowed' = TRUE
  /\ UNCHANGED <<queue, lent, tail>>

GiveBack ==
  /\ borrowed
  /\ borrowed' = FALSE
  /\ UNCHANGED <<queue, lent, tail>>

Next ==
  \/ \E seq \in FrameIds, off \in 0 .. F - 1 : Publish(seq, off)
  \/ Cut \/ Lend \/ Return \/ Borrow \/ GiveBack

Spec == Init /\ [][Next]_cvars

\* Every chunk is taken and given back.
FairSpec == Spec /\ WF_cvars(Lend) /\ WF_cvars(Return)
=============================================================================
