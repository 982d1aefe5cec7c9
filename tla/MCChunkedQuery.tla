--------------------------- MODULE MCChunkedQuery ---------------------------
(* ChunkedQuery with the calls of two overlapping cycles: a filter of the  *)
(* members scan, the burns scan, and a scan a failed cycle left behind.    *)
EXTENDS ChunkedQuery, TLC

CONSTANTS members, burns, stray

MCChunkCount == members :> 3 @@ burns :> 2 @@ stray :> 3
=============================================================================
