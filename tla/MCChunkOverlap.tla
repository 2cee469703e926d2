--------------------------- MODULE MCChunkOverlap ---------------------------
(* Instances of ChunkOverlap for TLC. *)
EXTENDS ChunkOverlap

CONSTANTS r1, r2

\* Neither prompt is a whole number of blocks; one needs three steps.
Prompts == [r \in Reqs |-> IF r = r1 THEN 9 ELSE 3]
=============================================================================
