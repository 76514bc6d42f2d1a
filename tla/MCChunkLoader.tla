---------------------------- MODULE MCChunkLoader ----------------------------
(* ChunkLoader on small instances: two reads that share one limiter. *)
EXTENDS ChunkLoader, TLC

CONSTANTS r1, r2

\* r1 reads three whole chunks; r2 has a chunk larger than the budget and a byte
\* range smaller than the others.
MCChunks == (r1 :> 3) @@ (r2 :> 2)
MCCost == [t \in Tasks |-> IF ReadOf(t) = r1 THEN 2 ELSE IF t[2] = 1 THEN 5 ELSE 1]
MCRanged == {<<r2, 2>>}
==============================================================================
