--------------------------- MODULE MCNixlProducer ---------------------------
(* Instances of NixlProducer for TLC. *)
EXTENDS NixlProducer, TLC

\* Every request has a UUID of its own: the proxy never reuses one.
OwnUuid == [r \in Reqs |-> r]

\* The proxy resubmits under the same UUID.
SharedUuid == [r \in Reqs |-> "uuid"]

\* OwnUuid maps permuted requests to permuted requests, so the three sets are
\* symmetric; used by runs without temporal properties beyond safety.
Symmetry == Permutations(Reqs) \union Permutations(Ranks)
=============================================================================
