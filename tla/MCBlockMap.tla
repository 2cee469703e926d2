----------------------------- MODULE MCBlockMap -----------------------------
(* Instances of BlockMap for TLC. *)
EXTENDS BlockMap

\* Two engines alike: four heads, two workers each, separate K and V.
Alike ==
  [heads |-> 4, tp |-> 2, remote_tp |-> 2, tp_rank |-> 1, ratio |-> 1,
   tokens |-> 2, physical |-> 1, local_blocks |-> 3, remote_blocks |-> 3,
   layers |-> 1, window |-> <<>>, blocks_first |-> FALSE, mla |-> FALSE,
   layout |-> "HND", permute |-> FALSE]

\* A consumer block of two producer blocks, the second layer with a window.
Windowed ==
  [Alike EXCEPT !.ratio = 2, !.local_blocks = 4, !.remote_blocks = 5,
                !.heads = 2, !.layers = 2, !.window = <<0, 2>>]

Small == [Alike EXCEPT !.ratio = 2]

OneToTwo == [Alike EXCEPT !.tp = 4, !.tp_rank = 3]
TwoToOne == [Alike EXCEPT !.tp = 1, !.tp_rank = 0]

WholeConfigs ==
  {Alike, Windowed, OneToTwo, TwoToOne,
   [Alike EXCEPT !.physical = 2, !.layers = 2, !.window = <<3, 1>>],
   [Small EXCEPT !.tp = 4, !.tp_rank = 3],
   \* refused: a larger producer with smaller blocks
   [Small EXCEPT !.tp = 1, !.tp_rank = 0],
   \* K and V in one block
   [Alike EXCEPT !.blocks_first = TRUE],
   [OneToTwo EXCEPT !.blocks_first = TRUE],
   [TwoToOne EXCEPT !.blocks_first = TRUE, !.layers = 2],
   \* a latent cache, the same on every rank; the model counts its heads
   [TwoToOne EXCEPT !.mla = TRUE],
   [OneToTwo EXCEPT !.mla = TRUE, !.heads = 1, !.ratio = 2],
   \* an NHD consumer, with and without the permutation
   [Alike EXCEPT !.layout = "NHD"],
   [TwoToOne EXCEPT !.layout = "NHD", !.permute = TRUE],
   [OneToTwo EXCEPT !.layout = "NHD", !.permute = TRUE, !.ratio = 2],
   \* heads replicated: on both sides, on the consumer's only (refused), and
   \* by a larger producer (refused)
   [OneToTwo EXCEPT !.heads = 2],
   [OneToTwo EXCEPT !.heads = 2, !.remote_tp = 1],
   [TwoToOne EXCEPT !.heads = 2]}

TailConfigs ==
  {[Windowed EXCEPT !.layers = 1, !.window = <<>>, !.heads = 1, !.tp = 1,
                    !.remote_tp = 1, !.tp_rank = 0, !.mla = TRUE]}
=============================================================================
