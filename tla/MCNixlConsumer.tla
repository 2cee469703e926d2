--------------------------- MODULE MCNixlConsumer ---------------------------
(* Instances of NixlConsumer for TLC. *)
EXTENDS NixlConsumer, TLC

\* Requests with blocks to read are alike, and so are the producer's ranks.
Symmetry == Permutations(Reqs \ Empty) \union Permutations(Ranks)
=============================================================================
