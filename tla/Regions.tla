------------------------------ MODULE Regions ------------------------------
(***************************************************************************)
(* The memory a decode worker reads and writes: which bytes of its own KV  *)
(* cache and of a producer rank's the prepared descriptors stand for, how  *)
(* both are cut when the two engines differ in tensor-parallel size or     *)
(* block size, and which producers a worker accepts.                       *)
(*                                                                         *)
(* A configuration c is a record of what the two engines are started with. *)
(* Memory is counted in cells, one for each head and token; K and V of a   *)
(* layer are regions of their own, or the two halves of every block of one *)
(* region (blocks_first), or one latent region (mla).  Ids, ranks, heads,  *)
(* tokens and offsets count from 0, as in the code.                        *)
(***************************************************************************)
EXTENDS Integers, Sequences

Config ==
  [heads : Nat \ {0},    \* KV heads of the model
   tp : Nat \ {0},       \* tensor-parallel size of the consumer
   remote_tp : Nat \ {0},  \* and of the producer
   tp_rank : Nat,        \* the consumer worker
   ratio : Nat \ {0},    \* block_size_ratio: consumer's block / producer's
   tokens : Nat \ {0},   \* tokens of a producer's kernel block
   physical : Nat \ {0}, \* _physical_blocks_per_logical_kv_block
   local_blocks : Nat,   \* logical blocks of the consumer's cache
   remote_blocks : Nat,  \* and of the producer's
   layers : Nat,
   window : Seq(Nat),    \* block_window_per_layer, or <<>>; 0 stands for None
   blocks_first : BOOLEAN,
   mla : BOOLEAN,
   layout : {"HND", "NHD"},  \* the consumer's; the producer's is HND
   permute : BOOLEAN]        \* enable_permute_local_kv

-----------------------------------------------------------------------------
(* Topology (TpKVTopology of vLLM) *)

TpRatio(c) ==
  IF c.tp >= c.remote_tp THEN c.tp \div c.remote_tp ELSE -(c.remote_tp \div c.tp)

\* What holds of the sizes two engines can be started with: TpKVTopology asserts
\* that one tensor-parallel size divides the other, and an attention layer that
\* each divides the KV heads or is divided by their number.
HeadsDivide(c) ==
  /\ c.tp % c.remote_tp = 0 \/ c.remote_tp % c.tp = 0
  /\ c.mla \/ \A t \in {c.tp, c.remote_tp} : c.heads % t = 0 \/ t % c.heads = 0

IsKvReplicated(c) == c.remote_tp >= c.heads

\* The producer ranks this worker handshakes with and reads from.
TargetRemoteRanks(c) ==
  IF TpRatio(c) > 0 THEN <<c.tp_rank \div TpRatio(c)>>
  ELSE [i \in 1..(-TpRatio(c)) |-> c.tp_rank * (-TpRatio(c)) + i - 1]

\* The heads of one rank of tp; a rank has at least one.
HeadsOf(c, tp) == IF c.mla \/ tp >= c.heads THEN 1 ELSE c.heads \div tp

GlobalHead(c, tp, rank, h) == IF c.mla THEN 0 ELSE (rank * c.heads) \div tp + h

-----------------------------------------------------------------------------
(* Registered memory *)

\* Cells of K (or V) in one block.
KvLen(c)       == HeadsOf(c, c.tp) * c.tokens * c.ratio
RemoteKvLen(c) == HeadsOf(c, c.remote_tp) * c.tokens

\* block_len_per_layer, and block_lens of the producer's metadata.
BlockLen(c)       == IF c.blocks_first THEN 2 * KvLen(c) ELSE KvLen(c)
RemoteBlockLen(c) == IF c.blocks_first THEN 2 * RemoteKvLen(c) ELSE RemoteKvLen(c)

NumBases(c) == IF c.mla \/ c.blocks_first THEN c.layers ELSE 2 * c.layers

RegionsPerLayer(c) == IF c.mla THEN 1 ELSE 2

\* Blocks of each side in units of the producer's kernel block.
LocalNum(c)  == c.local_blocks * c.physical * c.ratio
RemoteNum(c) == c.remote_blocks * c.physical

\* The descriptors of one side in registration order: base by base, the K
\* part of every block before the V parts when they share a base.
DescList(c, blocks, At(_, _, _)) ==
  LET parts == IF c.blocks_first THEN 2 ELSE 1
  IN  [d \in 0..(NumBases(c) * parts * blocks - 1) |->
         At(d \div (parts * blocks), (d \div blocks) % parts, d % blocks)]

Desc(base, off, len) == [base |-> base, off |-> off, len |-> len]

\* register_local_xfer_handler: the worker's own blocks in units of the
\* producer's block size.
LocalDescs(c) ==
  LET kv_block_len == KvLen(c) \div c.ratio
      At(base, part, block) ==
        Desc(base, block * (BlockLen(c) \div c.ratio) + part * kv_block_len,
             kv_block_len)
  IN  DescList(c, LocalNum(c), At)

\* add_remote_agent with a larger producer: the i-th of the pieces into which
\* the worker's own blocks are cut, one for each producer rank.
SplitDescs(c, i) ==
  [d \in DOMAIN LocalDescs(c) |->
     LET own == LocalDescs(c)[d]
         len == own.len \div (-TpRatio(c))
     IN  Desc(own.base, own.off + i * len, len)]

\* The source handle of the i-th rank read from (_read_blocks_for_req).
SourceDescs(c, i) ==
  IF TpRatio(c) < 0 /\ ~c.mla THEN SplitDescs(c, i) ELSE LocalDescs(c)

\* Mutant: every worker starts at the first head of the producer rank.
RankOffsetNone(c) == 0

\* Where a worker's share of the heads begins in a block of the producer.
RankOffset(c) ==
  IF TpRatio(c) > 0 /\ ~c.mla /\ ~IsKvReplicated(c)
  THEN (c.tp_rank % TpRatio(c)) * (KvLen(c) \div c.ratio) ELSE 0

\* add_remote_agent: all blocks of a producer rank, and of each only the heads
\* the worker reads.
RemoteDescs(c) ==
  LET unit == KvLen(c) \div c.ratio
      len  == IF TpRatio(c) < 0 /\ ~c.mla THEN unit \div (-TpRatio(c)) ELSE unit
      At(base, part, block) ==
        Desc(base, block * RemoteBlockLen(c) + RankOffset(c)
                     + part * (RemoteBlockLen(c) \div 2), len)
  IN  DescList(c, RemoteNum(c), At)

\* Mutant: the lengths of the blocks are not compared.
ValidHandshakeAnyLength(c) ==
  /\ ~(TpRatio(c) < 0 /\ IsKvReplicated(c))
  /\ c.mla \/ c.layout = "HND" \/ c.permute

\* _validate_remote_agent_handshake.
ValidHandshake(c) ==
  /\ ~(TpRatio(c) < 0 /\ IsKvReplicated(c))
  /\ c.mla \/ c.layout = "HND" \/ c.permute
  /\ \/ /\ c.mla \/ IsKvReplicated(c)
        /\ BlockLen(c) \div c.ratio = RemoteBlockLen(c)
     \/ /\ ~c.mla /\ ~IsKvReplicated(c) /\ TpRatio(c) > 0
        /\ RemoteBlockLen(c) = (BlockLen(c) * TpRatio(c)) \div c.ratio
     \/ /\ ~c.mla /\ ~IsKvReplicated(c) /\ TpRatio(c) < 0
        /\ c.ratio = 1
        /\ RemoteBlockLen(c) = BlockLen(c) \div (-TpRatio(c))

-----------------------------------------------------------------------------
(* What a cell of memory stands for: layer, K or V, block, head and token *)

LayerAndKv(c, base, part) ==
  IF c.mla THEN <<base, 0>>
  ELSE IF c.blocks_first THEN <<base, part>>
  ELSE <<base \div 2, base % 2>>

\* get_finished: whether the blocks of a request are rearranged once they are
\* read, since their parts came as whole producer blocks of HND.
IsPostProcessed(c) == ~c.mla /\ (c.ratio > 1 \/ (c.layout = "NHD" /\ c.permute))

\* post_process_device_kv_on_receive: the head and token whose place in the
\* worker's own layout the x-th cell of a block is moved to.
HeadAndToken(c, x) ==
  LET unit == HeadsOf(c, c.tp) * c.tokens
  IN  IF IsPostProcessed(c)
      THEN <<(x % unit) \div c.tokens, (x \div unit) * c.tokens + (x % c.tokens)>>
      ELSE <<x \div (c.ratio * c.tokens), x % (c.ratio * c.tokens)>>

LocalCell(c, base, off) ==
  LET within == off % BlockLen(c)
  IN  <<LayerAndKv(c, base, within \div KvLen(c)), off \div BlockLen(c),
        HeadAndToken(c, within % KvLen(c))>>

\* A producer rank keeps its own heads, in HND.
RemoteCell(c, rank, base, off) ==
  LET within == off % RemoteBlockLen(c)
      x      == within % RemoteKvLen(c)
  IN  <<LayerAndKv(c, base, within \div RemoteKvLen(c)), off \div RemoteBlockLen(c),
        <<GlobalHead(c, c.remote_tp, rank, x \div c.tokens), x % c.tokens>> >>
=============================================================================
