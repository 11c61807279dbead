---------------------------- MODULE BlockRingQueue ----------------------------
(* The block ring implements the chunk queue: under this mapping every step  *)
(* is a step of ChunkQueue or leaves the queue as it is.                     *)
EXTENDS BlockRing, Sequences

\* The slots from the consumer's cursor on, as far as the producer published.
queueMap == [k \in 1 .. Unread |-> meta[At(k - 1)]]

\* The chunk of the actor that is reading one.
lentMap == IF Viewing("http") THEN view["http"]
           ELSE IF Viewing("source") THEN view["source"] ELSE None

\* The chunk before the one the producer will publish next.
tailMap == IF active /\ frame_offset > 0
             THEN ChunkOf([seq |-> frame_sequence, off |-> frame_offset - 1])
             ELSE None

Queue == INSTANCE ChunkQueue
           WITH Depth <- N, FrameIds <- Sequences, queue <- queueMap,
                lent <- lentMap, tail <- tailMap, borrowed <- scratch_leased

\* Users of the pipeline see a chunk queue: the interleaving of commits,
\* leases, releases, aborts and pauses never shows them anything else.
ImplementsChunkQueue == Queue!Spec

\* And every chunk is delivered: the lease is eventually free for the HTTP poll
\* or the pause's drain, and a chunk being read is given back.
ImplementsFairQueue == Queue!FairSpec
=============================================================================
