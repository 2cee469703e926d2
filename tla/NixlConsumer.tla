---------------------------- MODULE NixlConsumer ----------------------------
(***************************************************************************)
(* The decode side of the NIXL connector: one worker reads the KV blocks   *)
(* of its requests from the ranks of one producer engine.                  *)
(*                                                                         *)
(* Actors: the worker's main thread, which in each engine step runs        *)
(* start_load_kv and get_finished; the one thread of the handshake         *)
(* executor, which runs the handshake and then the callbacks of its        *)
(* future; NIXL, which completes or fails the posted reads; and the engine *)
(* (external), which hands over requests and consumes what a step returns. *)
(*                                                                         *)
(* The main thread's step is cut where the other thread can come between:  *)
(* at every request of start_load_kv, between the two statements of        *)
(* get_finished that read and clear _failed_recv_reqs, and before the      *)
(* results are returned.  A request's blocks are named by the request.     *)
(***************************************************************************)
EXTENDS FiniteSets

CONSTANTS
  Reqs,            \* requests with do_remote_prefill
  Empty,           \* those with nothing to read: full prefix hit, or aborted
  Ranks,           \* producer ranks this worker reads from
  HandshakeFails,  \* whether a handshake may fail
  SetupFails,      \* whether posting a read or a notification may raise
  XferFails        \* whether a posted read may end in an error

ASSUME ConsumerAssumption ==
  /\ Empty \subseteq Reqs
  /\ Ranks # {} /\ IsFiniteSet(Ranks)
  /\ {HandshakeFails, SetupFails, XferFails} \subseteq BOOLEAN

VARIABLES
  \* engine
  status,             \* "new", "waiting", "cached", "loaded" or "recompute"
  flagged,            \* requests whose blocks were returned as load errors
  \* main thread
  pc,                 \* where the step is
  alive,              \* FALSE after an uncaught exception
  todo,               \* reqs_to_recv not yet looked at in this step
  done_recving,       \* local of get_finished
  recving_metadata,
  recving_transfers,  \* <<request, rank>> of the handles being tracked
  \* shared with the executor's thread
  ready_requests,
  failed_recv_reqs,
  invalid_block_ids,  \* requests whose blocks are invalid
  block_size,         \* TRUE once _block_size has the producer's engine
  remote_agents,      \* TRUE once its agents are stored
  future,             \* the future in _handshake_futures
  waiters,            \* requests whose request_ready hangs on that future
  \* executor's thread: callbacks left to run, by outcome of their future
  calls,
  outcome,
  marked,             \* failed requests between the two updates of a callback
  \* NIXL
  xfer,               \* state of each read
  notified            \* <<request, rank>>: producer ranks told of a request

engineVars == <<status, flagged>>
mainVars   == <<pc, alive, todo, done_recving, recving_metadata,
                recving_transfers>>
sharedVars == <<ready_requests, failed_recv_reqs, invalid_block_ids>>
futureVars == <<block_size, remote_agents, future, waiters>>
threadVars == <<calls, outcome, marked>>
nixlVars   == <<xfer, notified>>
vars == <<engineVars, mainVars, sharedVars, futureVars, threadVars, nixlVars>>

Handles == Reqs \X Ranks

Init ==
  /\ status = [r \in Reqs |-> "new"] /\ flagged = {}
  /\ pc = "idle" /\ alive = TRUE
  /\ todo = {} /\ done_recving = {}
  /\ recving_metadata = {} /\ recving_transfers = {}
  /\ ready_requests = {} /\ failed_recv_reqs = {} /\ invalid_block_ids = {}
  /\ block_size = FALSE /\ remote_agents = FALSE /\ future = "none" /\ waiters = {}
  /\ calls = {} /\ outcome = "ok" /\ marked = {}
  /\ xfer = [h \in Handles |-> "none"] /\ notified = {}

-----------------------------------------------------------------------------
(* Main thread: start_load_kv *)

\* The engine hands over the requests of S: those with blocks to read wait for
\* them, the others run (or were aborted) already.
BeginStep(S) ==
  /\ pc = "idle" /\ alive
  /\ \A r \in S : status[r] = "new"
  /\ status' = [r \in Reqs |-> IF r \notin S THEN status[r]
                               ELSE IF r \in Empty THEN "cached" ELSE "waiting"]
  /\ todo' = S
  /\ pc' = "load"
  /\ UNCHANGED <<flagged, alive, done_recving, recving_metadata,
                 recving_transfers, sharedVars, futureVars, threadVars, nixlVars>>

\* Mutant: only one producer rank is told.
NotifyOnlyOneRank(r, lost) ==
  /\ r \in Empty
  /\ lost # {} => SetupFails
  /\ IF remote_agents
     THEN /\ notified' = notified \union ({r} \X {CHOOSE p \in Ranks : TRUE})
          /\ UNCHANGED alive
     ELSE /\ alive' = FALSE
          /\ UNCHANGED notified
  /\ UNCHANGED <<xfer, recving_transfers, invalid_block_ids, failed_recv_reqs>>

\* _read_blocks for a request with nothing to read: tell every producer rank;
\* a notification that cannot be sent, to a rank of lost, is only logged.
\* The agents are looked up outside the try, so an unknown one is fatal.
NotifyOnly(r, lost) ==
  /\ r \in Empty
  /\ lost # {} => SetupFails
  /\ IF remote_agents
     THEN /\ notified' = notified \union ({r} \X (Ranks \ lost))
          /\ UNCHANGED alive
     ELSE /\ alive' = FALSE
          /\ UNCHANGED notified
  /\ UNCHANGED <<xfer, recving_transfers, invalid_block_ids, failed_recv_reqs>>

\* Mutant: the notification leaves when the read is posted.
PostReadsNotifyEarly(r, bad) ==
  /\ r \notin Empty
  /\ bad # {} => SetupFails
  /\ xfer' = [h \in Handles |-> IF h \in {r} \X (Ranks \ bad) THEN "PROC"
                                ELSE xfer[h]]
  /\ recving_transfers' = recving_transfers \union ({r} \X (Ranks \ bad))
  /\ IF bad = {} THEN UNCHANGED <<invalid_block_ids, failed_recv_reqs>>
     ELSE /\ invalid_block_ids' = invalid_block_ids \union {r}
          /\ failed_recv_reqs' = failed_recv_reqs \union {r}
  /\ notified' = notified \union ({r} \X (Ranks \ bad))
  /\ UNCHANGED alive

\* _read_blocks for every rank in turn; posting the reads from bad raises.
PostReads(r, bad) ==
  /\ r \notin Empty
  /\ bad # {} => SetupFails
  /\ xfer' = [h \in Handles |-> IF h \in {r} \X (Ranks \ bad) THEN "PROC"
                                ELSE xfer[h]]
  /\ recving_transfers' = recving_transfers \union ({r} \X (Ranks \ bad))
  /\ IF bad = {} THEN UNCHANGED <<invalid_block_ids, failed_recv_reqs>>
     ELSE /\ invalid_block_ids' = invalid_block_ids \union {r}
          /\ failed_recv_reqs' = failed_recv_reqs \union {r}
  /\ UNCHANGED <<notified, alive>>

\* _read_blocks_for_req.
ReadBlocks(r) == \E bad \in SUBSET Ranks : NotifyOnly(r, bad) \/ PostReads(r, bad)

\* Mutant: only the request that submits the handshake waits for it.
BackgroundHandshakeFirstOnly(r) ==
  /\ \/ /\ future = "none"
        /\ future' = "running"
        /\ waiters' = waiters \union {r}
        /\ UNCHANGED sharedVars
     \/ /\ future # "none"
        /\ UNCHANGED <<sharedVars, future, waiters>>
  /\ UNCHANGED <<alive, recving_transfers, nixlVars>>

\* Mutant: a request that comes when the future has ended is run at once, and
\* again with the callbacks of that future.
BackgroundHandshakeTwice(r) ==
  /\ \/ /\ future \in {"none", "running"}
        /\ future' = "running"
        /\ UNCHANGED ready_requests
     \/ /\ future \in {"ok", "failed"}
        /\ ready_requests' = ready_requests \union {r}
        /\ UNCHANGED future
  /\ waiters' = waiters \union {r}
  /\ UNCHANGED <<failed_recv_reqs, invalid_block_ids, alive, recving_transfers,
                 nixlVars>>

\* Mutant: a request that finds the handshake running is run at once.
BackgroundHandshakeEager(r) ==
  /\ \/ /\ future = "none"
        /\ future' = "running"
        /\ waiters' = waiters \union {r}
        /\ UNCHANGED sharedVars
     \/ /\ future # "none"
        /\ ready_requests' = ready_requests \union {r}
        /\ UNCHANGED <<failed_recv_reqs, invalid_block_ids, future, waiters>>
  /\ UNCHANGED <<alive, recving_transfers, nixlVars>>

\* _background_nixl_handshake, under the handshake lock.  A future that has
\* ended but is still registered runs request_ready at once, on this thread.
BackgroundHandshake(r) ==
  /\ \/ /\ future \in {"none", "running"}
        /\ future' = "running"
        /\ waiters' = waiters \union {r}
        /\ UNCHANGED sharedVars
     \/ /\ future = "ok"
        /\ ready_requests' = ready_requests \union {r}
        /\ UNCHANGED <<failed_recv_reqs, invalid_block_ids, future, waiters>>
     \/ /\ future = "failed"
        /\ invalid_block_ids' = invalid_block_ids \union ({r} \ Empty)
        /\ failed_recv_reqs' = failed_recv_reqs \union {r}
        /\ UNCHANGED <<ready_requests, future, waiters>>
  /\ UNCHANGED <<alive, recving_transfers, nixlVars>>

\* One request of the loop over reqs_to_recv.
LoadOne(r) ==
  /\ pc = "load" /\ alive
  /\ r \in todo
  /\ todo' = todo \ {r}
  /\ recving_metadata' = recving_metadata \union {r}
  /\ \/ /\ ~remote_agents
        /\ BackgroundHandshake(r)
     \/ /\ remote_agents
        /\ ReadBlocks(r)
        /\ UNCHANGED <<ready_requests, future, waiters>>
  /\ UNCHANGED <<engineVars, pc, done_recving, block_size, remote_agents, threadVars>>

EndLoad ==
  /\ pc = "load" /\ alive /\ todo = {}
  /\ pc' = "drain"
  /\ UNCHANGED <<engineVars, alive, todo, done_recving, recving_metadata,
                 recving_transfers, sharedVars, futureVars, threadVars, nixlVars>>

\* Mutant: a request whose reads fail to start is tried again.
DrainOneRetries(r) ==
  /\ pc = "drain" /\ alive
  /\ r \in ready_requests
  /\ ReadBlocks(r)
  /\ ready_requests' = IF r \in failed_recv_reqs' THEN ready_requests
                       ELSE ready_requests \ {r}
  /\ UNCHANGED <<engineVars, pc, todo, done_recving, recving_metadata,
                 futureVars, threadVars>>

\* One turn of the loop over _ready_requests.
DrainOne(r) ==
  /\ pc = "drain" /\ alive
  /\ r \in ready_requests
  /\ ready_requests' = ready_requests \ {r}
  /\ ReadBlocks(r)
  /\ UNCHANGED <<engineVars, pc, todo, done_recving, recving_metadata,
                 futureVars, threadVars>>

EndDrain ==
  /\ pc = "drain" /\ alive /\ ready_requests = {}
  /\ pc' = "pop"
  /\ UNCHANGED <<engineVars, alive, todo, done_recving, recving_metadata,
                 recving_transfers, sharedVars, futureVars, threadVars, nixlVars>>

-----------------------------------------------------------------------------
(* Main thread: get_finished *)

Ended == {h \in recving_transfers : xfer[h] # "PROC"}

\* Mutant: the handles that ended, in place of their requests.
AllEndedHandles == Ended

\* Mutant: the requests one of whose reads has ended.
AllEndedAny == {h[1] : h \in Ended}

\* The requests none of whose tracked reads is still in progress.
AllEnded == {h[1] : h \in Ended} \ {h[1] : h \in recving_transfers \ Ended}

\* Mutant: a read in error is kept like one in progress.
PopDoneTransfersKeepsErrors ==
  /\ pc = "pop" /\ alive
  /\ done_recving' = {h[1] : h \in {g \in Ended : xfer[g] = "DONE"}} \
                       {h[1] : h \in {g \in recving_transfers : xfer[g] # "DONE"}}
  /\ recving_transfers' = {g \in recving_transfers : xfer[g] # "DONE"}
  /\ pc' = "take"
  /\ UNCHANGED <<engineVars, alive, todo, recving_metadata, sharedVars,
                 futureVars, threadVars, nixlVars>>

\* Mutant: a read in error ends like a good one.
PopDoneTransfersUnmarked ==
  /\ pc = "pop" /\ alive
  /\ done_recving' = AllEnded
  /\ recving_transfers' = recving_transfers \ Ended
  /\ pc' = "take"
  /\ UNCHANGED <<engineVars, alive, todo, recving_metadata, sharedVars,
                 futureVars, threadVars, nixlVars>>

\* _pop_done_transfers, with _handle_failed_transfer for the reads in error.
PopDoneTransfers ==
  /\ pc = "pop" /\ alive
  /\ done_recving' = AllEnded
  /\ recving_transfers' = recving_transfers \ Ended
  /\ invalid_block_ids' = invalid_block_ids \union
       ({h[1] : h \in {g \in Ended : xfer[g] = "ERR"}} \intersect recving_metadata)
  /\ pc' = "take"
  /\ UNCHANGED <<engineVars, alive, todo, recving_metadata, ready_requests,
                 failed_recv_reqs, futureVars, threadVars, nixlVars>>

\* done_recving.update(self._failed_recv_reqs)
TakeFailed ==
  /\ pc = "take" /\ alive
  /\ done_recving' = done_recving \union failed_recv_reqs
  /\ pc' = "clear"
  /\ UNCHANGED <<engineVars, alive, todo, recving_metadata, recving_transfers,
                 sharedVars, futureVars, threadVars, nixlVars>>

\* Mutant: the failed requests are not cleared.
ClearFailedForgotten ==
  /\ pc = "clear" /\ alive
  /\ pc' = "report"
  /\ UNCHANGED <<engineVars, alive, todo, done_recving, recving_metadata,
                 recving_transfers, sharedVars, futureVars, threadVars, nixlVars>>

\* self._failed_recv_reqs.clear()
ClearFailed ==
  /\ pc = "clear" /\ alive
  /\ failed_recv_reqs' = {}
  /\ pc' = "report"
  /\ UNCHANGED <<engineVars, alive, todo, done_recving, recving_metadata,
                 recving_transfers, ready_requests, invalid_block_ids,
                 futureVars, threadVars, nixlVars>>

\* The rest of get_finished and get_block_ids_with_load_errors: the engine sees
\* both results together.  A request with a load error is recomputed, now or
\* when it is done; one that does not wait for its blocks is passed over.
Report ==
  LET errors == flagged \union invalid_block_ids
  IN /\ done_recving \subseteq recving_metadata
     /\ done_recving # {} => block_size
     /\ recving_metadata' = recving_metadata \ done_recving
     /\ flagged' = errors
     /\ invalid_block_ids' = {}
     /\ status' = [r \in Reqs |->
                     IF r \notin done_recving \/ status[r] # "waiting" THEN status[r]
                     ELSE IF r \in errors THEN "recompute" ELSE "loaded"]
     /\ done_recving' = {}
     /\ pc' = "idle"
     /\ UNCHANGED <<alive, todo, recving_transfers, ready_requests,
                    failed_recv_reqs, futureVars, threadVars, nixlVars>>

\* For every request it reports, get_finished asserts that it has its metadata
\* and looks up the block size of its producer's engine, which is not known if
\* no handshake came as far as add_remote_agent.  Both are fatal.
ReportRaises ==
  /\ \/ ~(done_recving \subseteq recving_metadata)
     \/ done_recving # {} /\ ~block_size
  /\ alive' = FALSE
  /\ UNCHANGED <<engineVars, pc, todo, done_recving, recving_metadata,
                 recving_transfers, sharedVars, futureVars, threadVars, nixlVars>>

\* get_finished comes to its end, or not.
EndFinished ==
  /\ pc = "report" /\ alive
  /\ Report \/ ReportRaises

-----------------------------------------------------------------------------
(* Executor's thread *)

\* _nixl_handshake runs.  The executor has one thread, so the callbacks of the
\* previous handshake have all run.
Handshaking == future = "running" /\ calls = {} /\ marked = {}

\* The producer's first answer is accepted and add_remote_agent begins: it adds
\* the engine to _block_size, which get_finished reads, before it can fail.
LearnBlockSize ==
  /\ Handshaking /\ ~block_size
  /\ block_size' = TRUE
  /\ UNCHANGED <<engineVars, mainVars, sharedVars, remote_agents, future, waiters,
                 threadVars, nixlVars>>

\* _nixl_handshake ends; it may fail before or after that.
EndHandshake ==
  /\ Handshaking
  /\ \/ block_size /\ future' = "ok"
     \/ HandshakeFails /\ future' = "failed"
  /\ UNCHANGED <<engineVars, mainVars, sharedVars, block_size, remote_agents,
                 waiters, threadVars, nixlVars>>

\* done_callback, added first and so run first.
DoneCallback ==
  /\ future \in {"ok", "failed"}
  /\ remote_agents' = (remote_agents \/ future = "ok")
  /\ outcome' = future
  /\ calls' = waiters
  /\ waiters' = {}
  /\ future' = "none"
  /\ UNCHANGED <<engineVars, mainVars, sharedVars, block_size, marked, nixlVars>>

\* request_ready after a handshake that succeeded.
RequestReady(r) ==
  /\ r \in calls /\ outcome = "ok"
  /\ calls' = calls \ {r}
  /\ ready_requests' = ready_requests \union {r}
  /\ UNCHANGED <<engineVars, mainVars, failed_recv_reqs, invalid_block_ids,
                 futureVars, outcome, marked, nixlVars>>

\* request_ready after one that failed: first the blocks, then the request.
RequestFailed(r) ==
  /\ r \in calls /\ outcome = "failed"
  /\ calls' = calls \ {r}
  /\ marked' = marked \union {r}
  /\ invalid_block_ids' =
       invalid_block_ids \union (({r} \ Empty) \intersect recving_metadata)
  /\ UNCHANGED <<engineVars, mainVars, ready_requests, failed_recv_reqs,
                 futureVars, outcome, nixlVars>>

AddFailed(r) ==
  /\ r \in marked
  /\ marked' = marked \ {r}
  /\ failed_recv_reqs' = failed_recv_reqs \union {r}
  /\ UNCHANGED <<engineVars, mainVars, ready_requests, invalid_block_ids,
                 futureVars, calls, outcome, nixlVars>>

-----------------------------------------------------------------------------
(* NIXL *)

\* A read completes; its notification goes to the producer with it.
XferDone(h) ==
  /\ xfer[h] = "PROC"
  /\ xfer' = [xfer EXCEPT ![h] = "DONE"]
  /\ notified' = notified \union {h}
  /\ UNCHANGED <<engineVars, mainVars, sharedVars, futureVars, threadVars>>

XferError(h) ==
  /\ XferFails
  /\ xfer[h] = "PROC"
  /\ xfer' = [xfer EXCEPT ![h] = "ERR"]
  /\ UNCHANGED <<engineVars, mainVars, sharedVars, futureVars, threadVars, notified>>

-----------------------------------------------------------------------------
Load == \E r \in Reqs : LoadOne(r)
Drain == \E r \in Reqs : DrainOne(r)
Begin == \E S \in SUBSET Reqs : BeginStep(S)

Main ==
  \/ Begin \/ Load \/ EndLoad \/ Drain \/ EndDrain
  \/ PopDoneTransfers \/ TakeFailed \/ ClearFailed \/ EndFinished

\* The thread takes its next step in the callbacks of a future.
Callback ==
  /\ calls \union marked # {}
  /\ \E r \in Reqs : RequestReady(r) \/ RequestFailed(r) \/ AddFailed(r)

Next ==
  \/ Main
  \/ LearnBlockSize \/ EndHandshake \/ DoneCallback \/ Callback
  \/ \E h \in Handles : XferDone(h) \/ XferError(h)

Spec == Init /\ [][Next]_vars

\* The engine keeps stepping, the executor's thread keeps running, a handshake
\* ends (each receive has a timeout) and NIXL ends every read it accepted.
Fairness ==
  /\ WF_vars(Main)
  /\ WF_vars(LearnBlockSize \/ EndHandshake)
  /\ WF_vars(DoneCallback) /\ WF_vars(Callback)
  /\ \A h \in Handles : WF_vars(XferDone(h) \/ XferError(h))

FairSpec == Spec /\ Fairness

-----------------------------------------------------------------------------
(* Properties *)

TypeOK ==
  /\ status \in [Reqs -> {"new", "waiting", "cached", "loaded", "recompute"}]
  /\ pc \in {"idle", "load", "drain", "pop", "take", "clear", "report"}
  /\ {alive, block_size, remote_agents} \subseteq BOOLEAN
  /\ \A s \in {flagged, todo, done_recving, recving_metadata, ready_requests,
               failed_recv_reqs, invalid_block_ids, waiters, calls, marked} :
        s \subseteq Reqs
  /\ recving_transfers \subseteq Handles /\ notified \subseteq Handles
  /\ future \in {"none", "running", "ok", "failed"}
  /\ outcome \in {"ok", "failed"}
  /\ xfer \in [Handles -> {"none", "PROC", "DONE", "ERR"}]

\* The assertion of get_finished, "not found in recving_metadata list", holds:
\* no request is reported a second time after its metadata is gone.
ReportedHasMetadata == pc = "report" => done_recving \subseteq recving_metadata

\* "Only report request as completed when all transfers are done": the engine
\* may reuse a reported request's blocks, so no read may still write to them.
ReportedOnlyWhenDone ==
  \A r \in Reqs : status[r] \in {"loaded", "recompute"} =>
     \A p \in Ranks : xfer[<<r, p>>] # "PROC"

\* A request the engine takes as loaded has its blocks from every rank: each
\* failure, on whichever thread, reaches the engine no later than the report.
LoadedIsComplete ==
  \A r \in Reqs : status[r] = "loaded" => \A p \in Ranks : xfer[<<r, p>>] = "DONE"

\* What KVFetch sees of the worker: the engine's view of the requests, the
\* state of the reads and what the producer was told.
Fetch == INSTANCE KVFetch WITH read <- xfer, told <- notified

\* The worker keeps the abstract promise of KVFetch: two threads, a cut-up
\* engine step and every failure path together look like requests that are
\* handed over, read once from all ranks, and returned when that is over.
ImplementsFetch == Fetch!Spec

\* A waiting request is on its way to the engine: some queue, future, callback
\* or read still leads it to done_recving ("add requests that skipped transfer
\* to done_recving").
WaitingIsPending ==
  \A r \in Reqs : status[r] = "waiting" =>
     \/ r \in todo \union waiters \union calls \union marked
     \/ r \in ready_requests \union failed_recv_reqs \union done_recving
     \/ \E p \in Ranks : <<r, p>> \in recving_transfers

\* Every request handed over is resolved, unless the worker is gone.
WaitingResolved ==
  \A r \in Reqs : status[r] = "waiting" ~> status[r] \in {"loaded", "recompute"} \/ ~alive

\* The worker stops in two ways only.  A notification-only request that joined
\* a handshake between its good end and done_callback may be drained before the
\* agents are stored (the KeyError of _read_blocks); and a request whose
\* handshake failed before anything of the producer was learnt is reported (the
\* KeyError of get_finished), so that nothing was ever read.  The other
\* interleavings of the two threads are harmless, and no assertion fails.
WorkerStops ==
  [][alive /\ ~alive' =>
       \/ /\ pc = "drain" /\ future = "ok" /\ ~remote_agents
          /\ ready_requests \intersect Empty # {}
       \/ /\ pc = "report" /\ ~block_size
          /\ \A h \in Handles : xfer[h] = "none"]_vars

\* A request with nothing to read is there "to avoid stranding the prefill
\* blocks": where no handshake, set-up or notification fails every producer rank
\* is told of it, unless the worker ends in the drain before it can: the code
\* does not keep that promise when _read_blocks looks the agents up before
\* done_callback has stored them (WorkerStops, first case).
CachedNotified ==
  \A r \in Reqs : status[r] = "cached" ~>
     ({r} \X Ranks \subseteq notified) \/ (~alive /\ pc = "drain")
=============================================================================
