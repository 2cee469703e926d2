---------------------------- MODULE MCHandshake ----------------------------
(* Instances of Handshake for TLC. *)
EXTENDS Handshake

\* A worker without tensor parallelism against two producer ranks.
TwoRanks ==
  [heads |-> 4, tp |-> 1, remote_tp |-> 2, tp_rank |-> 0, ratio |-> 1,
   tokens |-> 1, physical |-> 1, local_blocks |-> 1, remote_blocks |-> 1,
   layers |-> 1, window |-> <<>>, blocks_first |-> FALSE, mla |-> FALSE,
   layout |-> "HND", permute |-> FALSE]

\* The producer has one rank and half the block size, restarts with two ranks,
\* and then with one and a layout the worker does not take.
ThreeStarts ==
  <<[TwoRanks EXCEPT !.remote_tp = 1, !.ratio = 2], TwoRanks,
    [TwoRanks EXCEPT !.remote_tp = 1, !.layout = "NHD"]>>
=============================================================================
