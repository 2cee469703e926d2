------------------------------ MODULE BlockMap ------------------------------
(***************************************************************************)
(* What a decode worker reads of a request, and where to: from the checks  *)
(* of the handshake and the two block tables of a request to the pairs of  *)
(* descriptors posted to NIXL (start_load_kv, _read_blocks_for_req,        *)
(* _read_blocks).  Regions says which memory a descriptor is.              *)
(*                                                                         *)
(* The first cached blocks of the consumer's table are a local             *)
(* prefix-cache hit and are not read.  Block and descriptor ids count      *)
(* from 0, as in the code.                                                 *)
(***************************************************************************)
EXTENDS Regions, SequencesExt

CONSTANTS
  Configs,     \* the pairs of engines considered
  PartialTails \* whether a request whose last consumer block is partly
               \* filled may have a prefix hit

\* Blocks that hold K and V together are read by a worker of the same block
\* size and layout only: the connector accepts the others, but the descriptors
\* of register_local_xfer_handler do not fit them.
ASSUME BlockMapAssumption ==
  /\ \A cfg \in Configs :
       /\ cfg \in Config
       /\ Len(cfg.window) \in {0, cfg.layers}
       /\ cfg.blocks_first => cfg.ratio = 1 /\ cfg.layout = "HND" /\ ~cfg.mla
  /\ PartialTails \in BOOLEAN

ASSUME TopologyAssumption == \A cfg \in Configs : HeadsDivide(cfg)

VARIABLES
  pc,          \* "handshake", "refused", "start", "mapped", "trimmed",
               \* "posted" or "notified"
  c,           \* the two engines
  localTable,  \* the consumer's block table of the request
  remoteTable, \* the producer's, sent as remote_block_ids
  cached,      \* consumer blocks hit in the local prefix cache
  local,       \* local_block_ids
  remote,      \* remote_block_ids
  posted       \* the reads <<index of the rank, local and remote descriptor>>

vars == <<pc, c, localTable, remoteTable, cached, local, remote, posted>>

tables == <<c, localTable, remoteTable, cached>>

-----------------------------------------------------------------------------
(* Block and descriptor ids *)

\* Every id replaced by the n ids of its parts.
Split(ids, n) ==
  [i \in 1..(n * Len(ids)) |-> ids[(i - 1) \div n + 1] * n + ((i - 1) % n)]

LastOf(seq, n) == SubSeq(seq, Len(seq) - n + 1, Len(seq))

\* Mutant: parts are numbered from 1.
MappedBlocksOffByOne(ids) ==
  IF c.ratio = 1 THEN ids
  ELSE [i \in 1..(c.ratio * Len(ids)) |-> Split(ids, c.ratio)[i] + 1]

\* get_mapped_blocks, called only when the block sizes differ.
MappedBlocks(ids) == IF c.ratio = 1 THEN ids ELSE Split(ids, c.ratio)

\* _logical_to_kernel_block_ids.
KernelIds(ids) == IF c.physical = 1 THEN ids ELSE Split(ids, c.physical)

\* _get_block_descs_ids for the regions of one layer, which counts from 0.
DescIds(layer, ids, numBlocks) ==
  [i \in 1..(RegionsPerLayer(c) * Len(ids)) |->
     (RegionsPerLayer(c) * layer + (i - 1) \div Len(ids)) * numBlocks
       + ids[((i - 1) % Len(ids)) + 1]]

Window(layer) == IF c.window = <<>> THEN 0 ELSE c.window[layer + 1]

\* ids[-block_window:], or all of ids without a window.
InWindow(ids, layer) ==
  IF Window(layer) \in 1..(Len(ids) - 1) THEN LastOf(ids, Window(layer)) ELSE ids

\* The transfer list of the i-th rank: the n-th local descriptor reads the
\* n-th remote one.  Without windows the code numbers all regions at once, in
\* the same order.
Transfer(i, layer) ==
  LET ls == DescIds(layer, InWindow(local, layer), LocalNum(c))
      rs == DescIds(layer, InWindow(remote, layer), RemoteNum(c))
  IN  {<<i, SourceDescs(c, i)[ls[n]], RemoteDescs(c)[rs[n]]>> : n \in 1..Len(ls)}

\* How many of the target ranks are read: the latent cache is the same on all.
RanksRead == IF c.mla /\ TpRatio(c) < 0 THEN 1 ELSE Len(TargetRemoteRanks(c))

-----------------------------------------------------------------------------
(* The request *)

Tables(blocks, n) ==
  {t \in [1..n -> 0..(blocks - 1)] : \A i, j \in 1..n : t[i] = t[j] => i = j}

NumLocal(cfg, r) == (r + cfg.ratio - 1) \div cfg.ratio

\* The consumer's table covers the tokens of the producer's; the unhashed
\* blocks, those after the prefix hit, are handed to start_load_kv.
Init ==
  /\ c \in Configs
  /\ \E r \in 1..c.remote_blocks :
        /\ remoteTable \in Tables(c.remote_blocks, r)
        /\ localTable \in Tables(c.local_blocks, NumLocal(c, r))
        /\ cached \in 0..NumLocal(c, r)
        /\ PartialTails \/ r % c.ratio = 0 \/ cached \in {0, NumLocal(c, r)}
  /\ local = KernelIds(LastOf(localTable, Len(localTable) - cached))
  /\ remote = KernelIds(remoteTable)
  /\ posted = {}
  /\ pc = "handshake"

\* add_remote_agent: the worker accepts the producer, or the request fails.
Handshake ==
  /\ pc = "handshake"
  /\ pc' = IF ValidHandshake(c) THEN "start" ELSE "refused"
  /\ UNCHANGED <<tables, local, remote, posted>>

\* get_mapped_blocks and "clip local to align with prefill".
MapLocal ==
  LET mapped == MappedBlocks(local)
  IN /\ pc = "start"
     /\ local' = IF c.ratio > 1 /\ Len(mapped) > Len(remote)
                 THEN SubSeq(mapped, 1, Len(remote)) ELSE mapped
     /\ pc' = "mapped"
     /\ UNCHANGED <<tables, remote, posted>>

\* "Full prefix cache hit": nothing is read.
NotifyOnly ==
  /\ pc = "mapped" /\ local = <<>>
  /\ pc' = "notified"
  /\ UNCHANGED <<tables, local, remote, posted>>

\* Mutant: remote_block_ids[:num_local_blocks].
TrimRemoteFront ==
  /\ pc = "mapped" /\ local # <<>>
  /\ remote' = SubSeq(remote, 1, Len(local))
  /\ pc' = "trimmed"
  /\ UNCHANGED <<tables, local, posted>>

\* "Partial prefix cache hit: just read uncomputed blocks."
TrimRemote ==
  /\ pc = "mapped" /\ local # <<>>
  /\ remote' = LastOf(remote, Len(local))
  /\ pc' = "trimmed"
  /\ UNCHANGED <<tables, local, posted>>

\* _read_blocks_for_req: a read of every layer from every rank.
Post ==
  /\ pc = "trimmed"
  /\ posted' = UNION {Transfer(i, layer) : i \in 0..(RanksRead - 1),
                                           layer \in 0..(c.layers - 1)}
  /\ pc' = "posted"
  /\ UNCHANGED <<tables, local, remote>>

Next == Handshake \/ MapLocal \/ NotifyOnly \/ TrimRemote \/ Post

Spec == Init /\ [][Next]_vars

-----------------------------------------------------------------------------
(* Properties *)

\* The request's tokens, cut into runs of one producer kernel block: run p is
\* in the p-th kernel block of the producer's table and in the p-th part of
\* the consumer's.  Runs of cached blocks are not read, and a layer with a
\* window needs only the last of them.
LocalRuns  == Split(KernelIds(localTable), c.ratio)
RemoteRuns == KernelIds(remoteTable)

FirstRun == cached * c.physical * c.ratio + 1

RunsToRead(layer) ==
  LET last == Len(RemoteRuns)
  IN  {p \in FirstRun..last : Window(layer) # 0 => p > last - Window(layer)}

\* Where the KV of token t of run p is needed, and where the producers have it.
Needed(layer, kv, p, t, h) ==
  <<<<<<layer, kv>>, LocalRuns[p] \div c.ratio,
      <<h, (LocalRuns[p] % c.ratio) * c.tokens + t>>>>,
    <<<<layer, kv>>, RemoteRuns[p],
      <<GlobalHead(c, c.tp, c.tp_rank, h), t>>>>>>

NeededCells ==
  UNION {{Needed(layer, kv, p, t, h) : p \in RunsToRead(layer)} :
           layer \in 0..(c.layers - 1), kv \in 0..(RegionsPerLayer(c) - 1),
           t \in 0..(c.tokens - 1), h \in 0..(HeadsOf(c, c.tp) - 1)}

\* The cells the posted reads write, with the cells they come from.
ReadCells ==
  UNION {{<<LocalCell(c, x[2].base, x[2].off + k),
            RemoteCell(c, TargetRemoteRanks(c)[x[1] + 1], x[3].base, x[3].off + k)>> :
             k \in 0..(x[2].len - 1)} : x \in posted}

\* A request that was read has, once get_finished rearranged its blocks, every
\* head of every uncached token in every layer where attention looks for it,
\* and from the producer's same head and token; nothing else was read ("just
\* read uncomputed blocks"), whatever the two engines' sizes and layouts.
ReadsUncomputed == pc = "posted" => ReadCells = NeededCells

\* Whatever the tables, a read writes into uncached blocks of its own request
\* only: the prefix hit, which other requests share, is never written.
WritesOwnBlocks ==
  \A x \in posted :
     \A k \in {x[2].off, x[2].off + x[2].len - 1} :
        \E p \in FirstRun..Len(LocalRuns) :
           LocalRuns[p] \div c.ratio = LocalCell(c, x[2].base, k)[2]

\* Every pair of descriptors that can be posted to an accepted producer has
\* one length and stays inside a K or V part of one block on both sides; the
\* assertions of _validate_remote_agent_handshake are there for it.
DescriptorsFit ==
  pc \notin {"handshake", "refused"} =>
     /\ \A i \in 0..(RanksRead - 1) : \A d \in DOMAIN SourceDescs(c, i) :
          LET x == SourceDescs(c, i)[d] IN
            /\ x.len = RemoteDescs(c)[0].len
            /\ (x.off % KvLen(c)) + x.len <= KvLen(c)
            /\ x.off \div BlockLen(c) < LocalNum(c) \div c.ratio
     /\ \A d \in DOMAIN RemoteDescs(c) :
          LET x == RemoteDescs(c)[d] IN
            /\ x.len = RemoteDescs(c)[0].len
            /\ (x.off % RemoteKvLen(c)) + x.len <= RemoteKvLen(c)
            /\ x.off \div RemoteBlockLen(c) < RemoteNum(c)
=============================================================================
