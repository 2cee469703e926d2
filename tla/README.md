# A TLA+ model of rdu-hdi

rdu-hdi serves one language model on two kinds of machine: GPU nodes compute the
prefill of a request, an RDU node decodes it, and the KV cache of the prompt moves
from the first to the second over NIXL. The repository holds the patched NIXL
connector of vLLM that moves the cache (`patches/gpu/nixl_connector.py`, the
program's core logic), the scripts that build and launch the containers, and tools
that test and measure a deployment. This directory models the connector: state
machines in TLA+, their instances for TLC, and proofs checked by TLAPS.

## The system

**Producer scheduler** (`NixlConnectorScheduler`, prefill side). State:
`_reqs_in_batch`, `_reqs_not_processed`, `_reqs_need_send` (request to expiry
time), `_reqs_need_save`, `_save_chunk_counter`. Operations:
`update_state_after_alloc`, `build_connector_meta` (hands over the sets and clears
them, once per engine step), `request_finished`. It talks to the workers only
through the metadata of a step, and hears of them through the engine, which frees a
request when every rank has named it in `done_sending`.

**Producer worker** (`NixlConnectorWorker`, one per tensor-parallel rank). State:
`_reqs_to_process`, `_reqs_to_send`, `consumer_notification_counts_by_req`.
Operations: `start_load_kv`, `get_finished` with `_get_new_notifs`,
`_resolve_free_notif_req_id` and the expiry loop; with a host buffer,
`save_kv_to_host`. Hard: ranks run at different speeds, several steps are in flight
under async scheduling, notifications are late, lost, or under another form of the
request's id, and a timer races them. Correct when blocks stay until every reader
has read them or the lease is over, are released once, and are always released.

**Consumer scheduler and worker** (decode side, same classes). State:
`_recving_metadata`, `_recving_transfers`, `_failed_recv_reqs`,
`_invalid_block_ids`, `_ready_requests`, `_handshake_futures`, `_remote_agents`.
Operations: `start_load_kv`, `_read_blocks`, `_background_nixl_handshake` and its
callbacks, `_pop_done_transfers`, `get_finished`, `get_block_ids_with_load_errors`.
Hard: the callbacks run on the executor's thread and share sets with the main
thread, mostly without a lock, and handshake, posting and transfer may each fail.
Correct when every waiting request is reported once, not before its reads have
ended, and never as good when a block is missing.

**Block mapping** (`_read_blocks`, `get_mapped_blocks`, `_get_block_descs_ids`,
`register_local_xfer_handler`, `add_remote_agent`,
`post_process_device_kv_on_receive`). No state; pure arithmetic on block ids and
addresses. Hard: engines with different block sizes, tensor-parallel sizes and
layouts, prefix hits, windows. Correct when each head of each uncached token ends
where the consumer's attention looks for it, and nothing else is written.

**Host staging and chunk overlap** (`save_kv_to_host`, `_notify_chunk_ready`,
`_register_consumers`). State: which chunks were saved and announced, which
consumers are known, `_pending_chunk_notifs`. Hard: chunk boundaries inside a block,
preemption, consumers that register late or again. Correct when a held request is
staged completely and its chunks are announced in order, once each.

**Handshake** (`_nixl_handshake_listener`, `_nixl_handshake`, `register_kv_caches`,
`add_remote_agent`, `_validate_remote_agent_handshake`): a listener thread serves
metadata over ZMQ; the consumer's one executor thread asks rank after rank,
validates and stores the answers, while its main thread starts handshakes for
engines it does not know. State: `_remote_agents`, `_handshake_futures`, the prepared
handles. Hard: a producer that dies or restarts with another engine id and shape
between two answers, a failure half way, the double-checked lock. Correct when an
engine taken as known can be read from, and every handshake ends.

**Statistics** (`NixlKVConnectorStats`): per-step counters, summed over workers.

**Around the connector**: `launch/*.sh` submit workers, poll their logs for
registration and tear down on failure; `docker/control-plane/entrypoint.sh` runs
etcd, NATS and the frontend; `docker/rdu`, `build`, `config` provision; `bench`
parses logs into timelines and merges traces; `test` drives a live deployment;
`patches/rdu` adapts torch.

## Modules

| module | what it is | code |
|---|---|---|
| `KVLease` | abstract: blocks of a finished request are leased until read by all or expired | the promise of the producer |
| `NixlProducer` | scheduler and ranks of the producer, readers, clock | `build_connector_meta`, `request_finished`, end of `start_load_kv`, `get_finished` |
| `NixlProducerProofs`, `NixlProducerTimerProofs` | theorems about it: leases and refinement; timers and reports | |
| `KVFetch` | abstract: a request's blocks are read once from all ranks, told when read, returned when no read is left | the promise of the consumer |
| `NixlConsumer` | one consumer worker, its handshake thread, NIXL | start of `start_load_kv`, `_read_blocks*`, handshake callbacks, `get_finished` |
| `PDTransfer` | `NixlConsumer` against a producer that keeps the promise of `KVLease` | the two together |
| `Regions` | operators: the memory of both engines, descriptors, validation | `register_kv_caches`, `register_local_xfer_handler`, `add_remote_agent`, `_validate_remote_agent_handshake`, post-processing |
| `BlockMap` | one read, from the validation to the posted descriptors | `_read_blocks*`, `get_mapped_blocks`, `_get_block_descs_ids` |
| `Handshake` | listener, executor's thread and main thread across restarts of the producer | `_nixl_handshake*`, `_background_nixl_handshake`, `add_remote_agent` |
| `HostSave` | chunked prefill copied to the host buffer | `build_connector_meta`, `save_kv_to_host` |
| `ChunkOverlap` | `HostSave` with registrations and the announcement of chunks | `_handle_consumer_registration`, `_register_consumers`, `_resolve_consumer_agent`, `_send_chunk_ready` |
| `NixlConsumerProofs`, `PDTransferProofs`, `BlockMapProofs`, `HandshakeProofs`, `HostSaveProofs`, `ChunkOverlapProofs` | theorems about the module named | |
| `MC*` | instances for TLC | |

**NixlProducer.** The variables have the code's names. A worker's step is
`StartLoadKV`, any number of `HandleNotif` (one per notification) and
`ExpireAndReturn`; `inflight` holds the metadata of steps whose outputs the engine
has not consumed, so ranks and scheduler may be up to `Depth` steps apart.
`_reqs_to_send` is a dict; its insertion order is kept as the position `pos` of each
entry, equal for requests finished in the same step. `HandleNotif` counts
notifications as the set of those counted: a reader sends one per request. A
notification not handled is still on the wire, so delay, reordering and loss need
no action. `lease` and `finishes` are history. The engine is external: it aborts
only requests that have not finished, and frees a request once every rank has named
it.

**NixlConsumer.** The main thread is cut wherever the executor's thread can come
between two accesses that matter: each request of `start_load_kv`, each turn of the
ready-queue loop, and the two statements that read and clear `_failed_recv_reqs`.
`request_ready` is cut between its two updates. Blocks are named by their request.
`alive` turns false when an exception leaves the step: the `KeyError` of an unknown
agent (line 2777, outside the `try` of `_read_blocks`), the assertion of
`get_finished` (2416) or its lookup of the block size of a reported request's engine
(2422), which fails for every request whose handshake ended before `add_remote_agent`
had filled `_block_size` (1857, `LearnBlockSize`). `WorkerStops` says which of these
can happen and when. The reads of one request are posted to all
ranks in one step; `bad` is the set of ranks for which posting raises. `KVFetch` sees
`status`, the state of the reads and who was told; threads, futures, queues and
metadata are below it.

**PDTransfer.** Each consumer action is conjoined with what it leaves alone of the
lease, and the producer's actions are those of `KVLease`, which `NixlProducer` is
proved to implement; `read` is the notifications of the consumer. A request is sent to
decode once it is leased. `stale` is history: the reads that ended when the blocks had
been freed.

**Regions and BlockMap.** A configuration is a record of what the two engines are
started with. Memory is counted in cells, one for a head of a token, so that an
address, a length or an offset of the code is a number of cells; bytes per cell play
no part. `LocalDescs`, `SplitDescs` and `RemoteDescs` are the lists prepared with
NIXL. `LocalCell` and `RemoteCell` say what a cell stands for, the first after
`post_process_device_kv_on_receive`; they are the reference of `ReadsUncomputed`,
which compares the cells of the posted reads with those attention needs. A behaviour
is one read: `Handshake` (accepted or refused), `MapLocal` (map and clip), then
`NotifyOnly` or `TrimRemote` and `Post`. Initial states are all pairs of block tables
of the bounded caches.

**Handshake.** One address serves one start of the producer after another. The main
thread's check is cut between the look without the lock (`Ask`) and what happens
under it (`Submit`). The executor's job is cut at its socket: `Send`, then an answer
or `ReceiveTimeout`, then `Reject`, `AddRemoteAgent` or `AddRemoteAgentRaises`;
`DoneCallback` ends it. What a failed job has prepared stays, as in the code.
`_tp_size`, `_block_size` and `dst_num_blocks` are functions of the engine id, hence of
the start, and are read off `Engines`. `AddRemoteAgentRaises` has one disjunct for each
point at which it may fail, the last being the handle for the producer's smaller blocks
(1984), when the producer's own is stored already. A request whose handshake has failed
is in `failed` until `Report`, which ends the worker (`alive`) if the engine is not in
`learnt`, the engines `_block_size` has: a timeout, a wrong hash or a wrong engine id is
therefore never retried, while a failure of `add_remote_agent` is. The hash check may be off, as the launch script
of this repository has it (`enforce_handshake_compat`).

**HostSave.** `Schedule` models the engine's sharing of its token budget (first come,
first served: at most one request gets less than it needs) together with the
connector's labelling; `SaveKvToHost` is the worker after the forward pass. Chunk
overlap is on and every announcement is delivered.

**ChunkOverlap** extends each action of `HostSave` by what it does to registrations
and announcements: `Register` on the listener's thread, `ScheduleDrain` into the
step's metadata, `SaveAndAnnounce` on the worker: register, flush, then announce the
step's chunks. `raising` are the registrations for which `add_remote_agent` raises. A
step without tokens has no forward pass, so its registrations are lost with its
metadata, as they are in the code. `sent` is history: everything handed to NIXL
for a request, oldest first, each message with the start of the request it is about.

## Runs

| run | instance | what it shows |
|---|---|---|
| `producer_ranks` | 2 requests, 2 ranks, 1 reader, depth 2, time 0..2 | reports only of held requests, once per rank; timers tracked, none overdue; no abort after a timer; refinement of `KVLease` |
| `producer_readers` | 2 requests, 1 rank, 2 readers (one tags by bare UUID) | lease respected, held blocks always return, aborted requests are forgotten |
| `producer_uuid` | 2 requests with one UUID | violation of `LeaseRespected`: finding 1 |
| `consumer_faults` | `PDTransfer`: 3 requests, 1 rank, every failure, leases of 1 tick | metadata present when reported; a loaded request is complete, and its blocks were not freed under a read before the lease was over; refinement of `KVFetch`; the two situations in which an exception ends the worker |
| `consumer_live` | 3 requests (1 with nothing to read), 2 ranks, reads fail | reported only after the last read; every waiting request is pending somewhere and resolved, or the worker has ended; the producer is told, or telling it is what ended the worker (line 2777); refinement of `KVFetch` |
| `consumer_ranks` | 1 request, 2 ranks, posting fails | violation of `ReportedOnlyWhenDone`: finding 2 |
| `consumer_lost` | 1 request, handshake fails | violation of `WaitingIsPending`: finding 3 |
| `blocks_whole` | 18 pairs of engines: equal, larger and smaller producer, larger consumer blocks, kernel blocks, windows, MLA (with a larger producer too), K and V in one block, NHD, replicated heads | every cell needed is read into its place, nothing else is written, and descriptors fit the blocks of an accepted producer |
| `blocks_tails` | ratio 2 with partly filled tails | violation of `ReadsUncomputed`: finding 4 |
| `handshake_restarts` | 3 starts of the producer: one rank with half blocks, two ranks, an unfit layout; one fault | a known engine is usable and settled; handshakes end; an engine for which `add_remote_agent` fails is known after a retry |
| `save_one` | `ChunkOverlap`: prompts of 9 and 3 tokens, blocks of 2, budget 4, one prefill at a time, up to 2 starts; 2 registrations | held requests are staged and leave nothing behind; announcements are numbered in turn over all starts and those of the latest name every block, sent in order; none is stuck |
| `save_two` | `HostSave`: the same, two prefills at a time, up to 3 starts | violation of `HeldIsStaged`: finding 5 |

**Bounds.** `Horizon` and `Depth` bound the producer: two steps in flight are the
least with which metadata arrives after the notification it belongs to, and two
instants after the first let one request expire while another has just been leased.
Two requests are the least that can be taken for each other, two ranks the least
that can disagree; a rank's handling of its readers does not depend on the other
ranks, so ranks and readers are varied in separate runs. The consumer's requests
meet only in the handshake and the shared sets: three are enough for one that
starts a handshake, one that joins it and one that comes after it. In `PDTransfer`
the clock makes one step (`MaxClock`, `Timeout`): all that matters of time is whether
a lease has run out. In `BlockMap` five producer blocks on three consumer blocks give
full and partial tails and prefix hits of every length; four heads on one, two and
four ranks give every sign of the ratio, and two tokens in a block distinguish the
layouts. In `Handshake` three starts are the least for an old engine, one that is
asked for and one that replaces it in between; two ranks, the least for a handshake of
two answers; one fault, the least for a retry over what it left. In `HostSave` `MaxRuns`
bounds the preemptions and `Depth` the steps in flight. With chunk overlap two starts
are enough: a preemption needs a free place among the steps in flight, so these belong
to two consecutive starts at most. Two registrations (`MaxMessages`) of two engines
(`MaxStarts`) are the least for one that supersedes another.

**Fairness.** Producer: the engine keeps scheduling, consuming outputs and running
the workers, and the clock keeps running; nothing is assumed of the decode side, and
nothing makes a request finish or abort. This is what the engine's busy loop gives
while it has work; expiry runs only inside `get_finished`, so the result does not
cover an engine that stops stepping. Consumer: the same of the engine; the
executor's thread runs what it is given; a handshake ends (this is what
`HandshakeEnds` shows of `Handshake`); NIXL ends every read it has accepted.
`consumer_live` stops where a worker has died of an exception, which is why deadlock
is not checked there, `WaitingResolved` says "or not alive" and `CachedNotified` names
the one place of the death it excuses, the drain. Handshake: the executor's thread runs,
a `start_load_kv` that has looked for an engine goes on to the lock (`Submit`), a receive
times out (`RCVTIMEO`), and a listener that is up answers. Nothing makes a request come
or the worker survive: that requests keep naming an engine, and that no failed one is
fatal when reported, are premises of `RetriesSucceed`. `blocks_*` stop when the read is
posted, `handshake_restarts` when the last producer has gone or the worker has ended.

## Proofs

Eight modules of theorems, checked by TLAPS for all values of the constants. What
they assume of the constants are the `ASSUME`s of the modules, which TLC evaluates in
every run. Some theorems have a hypothesis besides; each is a condition the code needs
and does not enforce, and a run or a note says what happens without it:

| hypothesis | meaning | without it |
|---|---|---|
| `UuidsUnique` | no two requests share a UUID | finding 1, run `producer_uuid` |
| `ReadsFailTogether` | a read cannot be posted to some of its producer ranks and refused for others; true of a single rank | finding 2, run `consumer_ranks` |
| `~HandshakeFails` | no handshake fails; for `WaitingPending` only | finding 3, run `consumer_lost` |
| `~SplitFails` | `prep_xfer_dlist` does not fail half way through the worker's own regions | a short list is taken as complete: see "Not modelled" |
| `~PartialTails` | a prefix hit never meets a last consumer block that is partly filled | finding 4, run `blocks_tails` |
| `[]Aligned` | every prefill stands at the end of a block or of its prompt | finding 5, run `save_two` |

`OneAtATime` shows that the last one is not empty: with one prefill at a time and a
budget of whole blocks, which is how `save_one` runs, every behaviour is aligned.

### Producer

`NixlProducerProofs`:

- `TypeCorrect`: `Spec => []TypeOK`.
- `LeaseInvariant`: `Spec => []LeaseInv`, if no two requests share a UUID.
- `LeaseSafety`, `ReportsOnlyHeld`: `LeaseRespected` and `OnlyHeldReported`, from it.
- `ProducerImplementsLease`: `Spec => Lease!Spec`, with the refinement mapping
  `phase <- Phase, deadline <- lease, read <- notified, clock <- now`.

`LeaseRespected` speaks of reports alone and is not inductive: a step that reports a
request needs to know why the timer it found is that request's timer and why the
notifications it counted came from that request's readers. `LeaseInv` adds exactly
that, for every place an entry or a notification can be: the scheduler's pending
set, metadata in flight and a rank's dict; the wire, and the counts. The refinement
then needs `FreedOK` (a freed request was acknowledged by every rank) and, for the
step that frees, `ReportsOK` of every rank.

`NixlProducerTimerProofs`:

- `TimersAreTracked`, `NoAbortOfTimer`, `NoTimerOverdue`: `TimersTracked`,
  `NoAbortAfterTimer` and the action property `NoOverdueTimer`, without any
  hypothesis, from `TimersInv`. All the entries there are, in whichever of the three
  places, are of finished requests, one for each, and their insertion order is the
  order of their expiry. That order is what the loop in `get_finished` relies on when
  it stops at the first timer that is not due: `NoTimerOverdue` is false without it.
  An aborted request never gets an entry, so no metadata can abort one that has a
  timer.
- `ReportsOnce`, `ReleasedStays`: `ReportedOnce` and `ReleasedForgotten`, if no two
  requests share a UUID, from `ReportsInv`: the metadata a rank has yet to load does
  not name a finished request as part of a batch, so that nothing tracks it again.
  Both use `LeaseInvariant` for whose notification a count is.

### Consumer

`NixlConsumerProofs` (types, then three invariants, each on top of the one before):

- `ReadsOnce`: `Spec => []ReadsInv`, whatever fails. A request is in at most one of
  the four places on the way to `_read_blocks`, has no read before it gets there, its
  running reads are tracked, and a producer rank is notified only of what has been
  read.
- `LoadsComplete`, `ReportsOnce`, `ReportsWhenDone`: `LoadedIsComplete`,
  `ReportedHasMetadata` and `ReportedOnlyWhenDone`, from `ReportInv`: a request with
  metadata is in exactly one place between the handshake and the engine, and every
  missing block is known to the engine or will be when the request is reported. Both
  fail when a read is posted to some ranks only, hence `ReadsFailTogether`.
- `WaitingPending`: `WaitingIsPending`, from `PendingInv`, which orders the callbacks
  of a handshake and the parts of a step. A failed handshake breaks it in the one
  step of finding 3, and no invariant can repair that.
- `ConsumerImplementsFetch`: `Spec => Fetch!Spec`, with the refinement mapping
  `read <- xfer, told <- notified`. Reading a request is one `Post` because it has not
  been read before (`ReadsInv`) and is still in the engine's hands (`ReportInv`);
  `Report` is one `Return` because what it names has no tracked read left and every
  missing block is among the errors. Failures before a read and the whole traffic
  between the threads are stuttering steps. A small invariant, `HandedOver`, says that
  the requests that wait are those with something to read. Finding 2 breaks the
  refinement in `Post` (some ranks only), hence `ReadsFailTogether`. `KVFetch` is about
  safety: finding 3, a request that is never returned, is allowed by it.

- `StopsTwoWays`: `WorkerStops`, if reads are posted together or not at all. `StopInv`
  relates the callbacks, the stored agents and `_block_size`; `ReportedHasMetadata`
  rules out the assertion.

`PDTransferProofs`: the composition behaves as the consumer alone
(`TransferIsConsumer`), so its theorems carry over, the refinement and
the ends of the worker too (`TransferImplementsFetch`, `TransferStops`). `LoadsFresh` proves
`LoadedIsFresh` whatever fails: `FreshInv` says that blocks were freed because all
ranks were notified, which by `ReadsInv` means that all have been read, or because
the lease was over. `LoadsSound` is this together with `LoadedIsComplete`.

### Block mapping

`BlockMapProofs`, for every pair of engines of `Config` and every pair of tables, with
the preconditions of `BlockMapAssumption`. `ReadsCorrect` alone uses
`TopologyAssumption` besides: one tensor-parallel size divides the other, which
`TpKVTopology` of vLLM asserts, and each divides the heads or is divided by them, which
vLLM's attention layers assert.

- `DescriptorsAlwaysFit`: `DescriptorsFit`. The checks of
  `_validate_remote_agent_handshake` (`AcceptInv`) give the block lengths of either
  side as multiples of one another; from these, descriptors stay in K or V of their
  block, and two that can be paired have one length.
- `WritesOwn`: `WritesOwnBlocks`. `OwnInv` follows the local ids through mapping,
  clipping, window and trimming: whatever is left was a kernel block of the request
  after the prefix hit. `TransferOwn` then computes, for a descriptor id, the list of
  descriptors and the memory it stands for, and shows that first and last cell are of
  that block. It covers the partly filled tails of finding 4 too: there the wrong blocks
  are read, but none outside the request is written.
- `ReadsCorrect`: `ReadsUncomputed`, the purpose of the whole module: the cells read
  are exactly those attention needs, each from the producer's same head and token, if
  `~PartialTails`.

The proof of `ReadsCorrect` has three parts. *Which blocks*: `PairInv` says that after
the mapping and clipping the local ids are the runs after the hit up to the last that
the producer has (`MappedRuns`), so that the trimmed remote ids are the same runs, one
to one; this is where partial tails have to be excluded, since the hit is counted in
consumer blocks from the front and the trimming in producer blocks from the end. A
window keeps both sides aligned and leaves what `RunsToRead` asks for (`WindowRuns`,
`TransferRuns`). *Which descriptor*: `PlaceOf` is the id that `_get_block_descs_ids`
gives to a block of a region, and `DescPlace` reads block, layer and K or V back from it,
for both memory layouts. *Which cells*: `SharesHeads` says from which head on, and of how
many heads, the worker reads of each rank, for larger, smaller and latent producers
alike (`HeadsMatch`); so the k-th cell of the i-th share is the same head and token on
both sides (`SharedCell`) and the shares together are the worker's whole part
(`EveryCellShared`). `LocalCellIs` and `RemoteCellIs` compute where a cell of a
descriptor is, the first through the rearrangement after a read.

The arithmetic is in lemmas of quotients and remainders (`Quotient`, `QuotientIs`,
`Within`), used for block within region, part within block and head within part.

### Handshake

`HandshakeProofs`:

- `TypeCorrect`, with `JobInv`: while a job runs it has a rank to ask and the answer
  on its socket, if it decodes, is of that rank.
- `KnownSettled`: `KnownIsSettled`, the purpose of the double-checked lock, for every
  order of main thread, executor and callback.
- `ReadyUsable`: `ReadyIsUsable`, if no local split fails half way. `HandshakeInv`
  adds the progress of the job: the ranks asked and those still to ask are those of
  the engine's start, each one asked is an agent of that very start with its handle,
  and the local side is ready after the first. Restarts between two answers are
  excluded by the comparison of engine ids, and what is prepared is never taken away.

### Host staging and chunk overlap

`HostSaveProofs`: `HeldStaged` and `HeldForgotten` prove `HeldIsStaged` and
`NoSaveLeft` for aligned behaviours, from `HostInv`: the chunks announced for the latest start of a request and those saved by
the steps in flight form one chain, of growing block ids and indices, that covers
what the request has computed; only the last of it is marked as such, and exactly
when the prefill is over. Chunks in flight of an earlier start, which a preemption
leaves behind, are not part of the chain, and the proof has to show that they neither
count as announced nor spoil what is staged. The lemma `LatestAnnounced` reads off the
chain that the latest start of a held request names every block once, in order.
`HeldSound` combines the three with `OneAtATime`.

`ChunkOverlapProofs`: `OverlapIsHostSave` (chunk overlap implements `HostSave`, by the
identity); then, without any hypothesis, `NothingWaits` for `NothingStuck` and
`ChunksInOrder` for `SentInOrder`, from `OverlapInv`: the messages sent and pending for
a request have the starts in order, and those of the latest start are the chunks
announced. `ChunksNumbered` is about all starts together: `NumbersInv` puts the
messages, the saves of the steps in flight and the scheduler's counter in one line, in
which each follows the one before it (`Follows`): one more, or 0 after a chunk marked
last and in a later start. `OverlapSound` combines it with `HeldSound`; it has
`AnnouncedInOrder` for every constant with one prefill at a time and a budget of whole
blocks. `RegisterConsumers` is a recursive function over the
registrations of a step; what holds after all its turns is proved by induction, in
the form of a least turn at which it would not hold, because the library's induction
theorems cannot be instantiated by the installed provers.

### Only model-checked

- Liveness, under the fairness above: `HeldEventuallyFreed`, `AbortedForgotten`,
  `WaitingResolved`, `CachedNotified`, `HandshakeEnds`, `RetriesSucceed`. `ENABLED` is
  out of the prover's reach.

## Findings

1. A late notification of an expired request releases its resubmission under the
   same UUID before it is read (`_resolve_free_notif_req_id`).
2. A read that cannot be posted to one of several ranks reports the request while
   the other reads are in progress; they then report it again (`_read_blocks`).
3. A failed handshake recorded between `update` and `clear` of `_failed_recv_reqs`
   is lost (`get_finished`).
4. With larger consumer blocks, a prefix hit and a partly filled last block, reads
   are shifted (`_read_blocks`).
5. A prefill chunk that starts inside a block leaves the host copy of that block
   incomplete (`build_connector_meta`).

Three more disagreements are stated by properties that pass, because the property
says what does hold:

- Notification before the agents (line 2777). `request_ready` can run on the main thread
  when the handshake has ended and `done_callback` has not stored the agents; a request
  with nothing to read then ends the worker, and the producer is not told, although lines
  977-980 send it "To avoid stranding the prefill blocks in the prefill instance". First
  case of `WorkerStops`, and what `CachedNotified` excuses. The producer's lease then
  frees the blocks.
- Report of a failed handshake (line 2422). A timeout, a hash or an engine id that does
  not match puts the request in `_failed_recv_reqs`, and its report looks up an engine
  that `_block_size` does not have: a `KeyError` instead of the "graceful failure with
  clear error message" of lines 197-200. Second case of `WorkerStops`.
- Chunk indices after a preemption (line 912). The counter is popped with the last chunk;
  a request that is preempted after that and before its output announces indices from 0
  again and a second chunk marked last, although lines 885-886 speak of a "monotonically
  increasing chunk index per request" and the consumer finalizes on `is_last`. Messages
  of the first start name blocks that may have been given away, and none says which start
  it is of. `NumberedInTurn` has this as its only restart.

## Not modelled

- The extra notifications of MLA reads from a larger producer (2719-2727; their lookup
  of the agents is outside any `try`); what they read is in `BlockMap`.
- Blocks that hold K and V together with a consumer block of several producer blocks:
  the connector accepts the pair, but `register_local_xfer_handler` cuts a consumer
  block as if K and V alternated in it. `BlockMapAssumption` leaves it out. Producers
  whose memory is NHD, likewise.
- A failure of `prep_xfer_dlist` in the middle of splitting the worker's own regions.
  The list under `src_xfer_handles_by_tp_ratio` stays short, and the next handshake
  takes it as complete. `Handshake` has the constant `SplitFails` for it: with TRUE
  `ReadyIsUsable` is violated.
- A `CHUNK_READY` that NIXL loses, and two live consumers: the code promises neither.
- Shutdown of the worker; handles leaked by a failed handshake.
- A finished request without blocks (the code's own TODO doubts it); an engine that
  stops stepping.
- Statistics: counters of one thread, concatenated and averaged for display.
- The launch and container scripts: they are sequences of calls to SLURM, the shell's
  job control, etcd and NATS, so that a model would consist of assumptions about
  those. The hazards met while reading them are listed in `PROJECT.json`.
- The bench tools and the torch shim: sequential scripts whose state does not outlive
  a run. Logging, telemetry and metrics.

## Plan

1. Done: producer with its abstract specification and proofs; consumer; the two
   composed; regions and block mapping; handshake; host staging and chunk overlap.
2. Done: theorems for every safety property the runs check.
3. Done: `KVLease` and `KVFetch`, the promises of the two sides, each implemented by
   the module of its side.
4. Open: the extra notifications of MLA reads; shutdown of the worker.
