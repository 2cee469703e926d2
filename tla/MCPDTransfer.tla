--------------------------- MODULE MCPDTransfer -----------------------------
(* Instances of PDTransfer for TLC. *)
EXTENDS PDTransfer, TLC

\* Requests with blocks to read are alike, and so are the producer's ranks.
Symmetry == Permutations(Reqs \ Empty) \union Permutations(Ranks)
=============================================================================
