----------------------------- MODULE Handshake -----------------------------
(***************************************************************************)
(* How a decode worker comes to know a producer: the listener thread of    *)
(* the producer's scheduler (_nixl_handshake_listener), the one thread of  *)
(* the consumer's executor (_nixl_handshake, add_remote_agent) and the     *)
(* consumer's main thread, which starts a handshake for every engine id it *)
(* does not know (start_load_kv, _background_nixl_handshake).              *)
(*                                                                         *)
(* One address serves one producer after another: every start of the       *)
(* producer has a new engine id, perhaps another tensor-parallel size, and *)
(* requests prefilled by an earlier start keep naming that one.  A         *)
(* producer's agent and its memory are named <<start, rank>>.  Requests    *)
(* here have blocks to read.                                               *)
(***************************************************************************)
EXTENDS Regions

CONSTANTS
  Engines,     \* Engines[e]: the worker against the e-th start of the producer
  Compatible,  \* starts whose compatibility hash is the consumer's
  SplitFails,  \* whether preparing one of the split local regions may raise
  MaxFaults    \* bound: NIXL calls that raise, answers that come too late

Starts == DOMAIN Engines

ASSUME HandshakeAssumption ==
  /\ Engines \in Seq(Config)
  /\ Compatible \subseteq Starts
  /\ SplitFails \in BOOLEAN /\ MaxFaults \in Nat

VARIABLES
  enforce_compat_hash, \* of the consumer; never changes
  \* producer
  started,       \* starts so far
  serving,       \* the start whose listener answers, or 0
  \* consumer, main thread
  alive,         \* FALSE after an uncaught exception of get_finished
  asking,        \* an engine found unknown, before the lock is taken; or 0
  \* shared
  remote_agents, \* remote_agents[e]: the agent of each rank, or none
  futures,       \* _handshake_futures: engines with a handshake under way
  failed,        \* engines with a request in _failed_recv_reqs
  learnt,        \* engines in _block_size
  \* executor's thread
  queue,         \* handshakes submitted, first come first served
  job,           \* the one that runs
  sock,          \* its REQ socket: "none", "ready", "sent" or "answered"
  answer,        \* the agent in the last answer
  split,         \* split[r]: handles under r in src_xfer_handles_by_tp_ratio
  block_sizes,   \* ratios with a handle in src_xfer_handles_by_block_size
  dst_handles,   \* ranks with a handle in dst_xfer_side_handles
  faults

producerVars == <<enforce_compat_hash, started, serving>>
jobVars  == <<job, sock, answer>>
mainVars == <<alive, asking, remote_agents, futures, failed, queue>>
handles  == <<learnt, split, block_sizes, dst_handles>>
vars == <<producerVars, mainVars, jobVars, handles, faults>>

Agents == Starts \X Nat
Ratios == {TpRatio(Engines[e]) : e \in Starts}

\* An empty message, which does not decode.
Malformed == <<0, 0>>

\* No list of split regions is kept for a ratio.
Absent == -1

Idle == [engine |-> 0, todo |-> <<>>, agents |-> <<>>, result |-> "idle"]

Init ==
  /\ enforce_compat_hash \in BOOLEAN
  /\ started = 0 /\ serving = 0
  /\ alive = TRUE /\ asking = 0
  /\ remote_agents = [e \in Starts |-> <<>>]
  /\ futures = {} /\ failed = {} /\ learnt = {} /\ queue = <<>>
  /\ job = Idle /\ sock = "none" /\ answer = Malformed
  /\ split = [r \in Ratios |-> Absent]
  /\ block_sizes = {1} /\ dst_handles = {}
  /\ faults = 0

-----------------------------------------------------------------------------
(* Producer *)

\* The producer starts: set_xfer_handshake_metadata starts the listener.
Start ==
  /\ serving = 0 /\ started < Len(Engines)
  /\ started' = started + 1
  /\ serving' = started + 1
  /\ UNCHANGED <<enforce_compat_hash, mainVars, jobVars, handles, faults>>

\* It crashes, or shuts down and its listener sees the stop event.
Stop ==
  /\ serving # 0
  /\ serving' = 0
  /\ UNCHANGED <<enforce_compat_hash, started, mainVars, jobVars, handles, faults>>

\* _nixl_handshake_listener: the metadata of the rank asked for, or an empty
\* message when this start has no such rank.
Answer ==
  LET p == Head(job.todo)
  IN /\ serving # 0 /\ sock = "sent"
     /\ sock' = "answered"
     /\ answer' = IF p < Engines[serving].remote_tp THEN <<serving, p>>
                  ELSE Malformed
     /\ UNCHANGED <<producerVars, mainVars, job, handles, faults>>

-----------------------------------------------------------------------------
(* Consumer, main thread *)

Unknown(e) == remote_agents[e] = <<>>

\* start_load_kv has a request of engine e and looks without the lock.
Ask(e) ==
  /\ alive /\ asking = 0 /\ e <= started
  /\ Unknown(e)
  /\ asking' = e
  /\ UNCHANGED <<producerVars, alive, remote_agents, futures, failed, queue,
                 jobVars, handles, faults>>

\* The request hangs on the registered future of its engine; if that has
\* already failed, request_ready runs at once, on this thread.
HangOnFuture == failed' = IF job.engine = asking /\ job.result = "failed"
                          THEN failed \union {asking} ELSE failed

\* Mutant: the second look is left out.
SubmitUnchecked ==
  /\ alive /\ asking # 0
  /\ IF asking \notin futures
     THEN /\ futures' = futures \union {asking}
          /\ queue' = Append(queue, asking)
          /\ UNCHANGED failed
     ELSE /\ HangOnFuture
          /\ UNCHANGED <<futures, queue>>
  /\ asking' = 0
  /\ UNCHANGED <<producerVars, alive, remote_agents, jobVars, handles, faults>>

\* It looks again under the lock; _background_nixl_handshake submits one
\* handshake for an engine and hangs later requests on the same future.
Submit ==
  /\ alive /\ asking # 0
  /\ \/ /\ Unknown(asking) /\ asking \notin futures
        /\ futures' = futures \union {asking}
        /\ queue' = Append(queue, asking)
        /\ UNCHANGED failed
     \/ /\ Unknown(asking) /\ asking \in futures
        /\ HangOnFuture
        /\ UNCHANGED <<futures, queue>>
     \/ /\ ~Unknown(asking)
        /\ UNCHANGED <<futures, failed, queue>>
  /\ asking' = 0
  /\ UNCHANGED <<producerVars, alive, remote_agents, jobVars, handles, faults>>

\* get_finished reports the failed requests, and looks up the block size of the
\* engine of each: an engine that is not in _block_size is fatal.
Report ==
  /\ alive /\ asking = 0 /\ failed # {}
  /\ alive' = (failed \subseteq learnt)
  /\ failed' = {}
  /\ UNCHANGED <<producerVars, asking, remote_agents, futures, queue, jobVars,
                 handles, faults>>

-----------------------------------------------------------------------------
(* Consumer, executor's thread *)

Running == job.result = "running"

\* The executor takes the oldest handshake.
Begin ==
  /\ job = Idle /\ queue # <<>>
  /\ job' = [engine |-> Head(queue), agents |-> <<>>, result |-> "running",
             todo |-> TargetRemoteRanks(Engines[Head(queue)])]
  /\ queue' = Tail(queue)
  /\ sock' = "ready"
  /\ UNCHANGED <<producerVars, alive, asking, remote_agents, futures, failed,
                 answer, handles, faults>>

Send ==
  /\ Running /\ sock = "ready"
  /\ sock' = "sent"
  /\ UNCHANGED <<producerVars, mainVars, job, answer, handles, faults>>

\* The job ends with an exception, whatever it has added so far.
Fails == /\ job' = [job EXCEPT !.result = "failed"]
         /\ sock' = "none"

\* Mutant: the socket waits for ever.
ReceiveTimeoutNever == FALSE /\ UNCHANGED vars

\* "Set receive timeout to 5 seconds to avoid hanging on dead server"; a live
\* one may be late.
ReceiveTimeout ==
  /\ Running /\ sock = "sent"
  /\ \/ serving = 0 /\ UNCHANGED faults
     \/ serving # 0 /\ faults < MaxFaults /\ faults' = faults + 1
  /\ Fails
  /\ UNCHANGED <<producerVars, mainVars, answer, handles>>

\* Mutant: any engine will do.
AcceptedAnyEngine ==
  answer # Malformed /\ (enforce_compat_hash => answer[1] \in Compatible)

\* The answer decodes, the hash matches and the engine is the one expected.
Accepted ==
  /\ answer # Malformed
  /\ enforce_compat_hash => answer[1] \in Compatible
  /\ answer[1] = job.engine

Received == Running /\ sock = "answered"

Reject ==
  /\ Received /\ ~Accepted
  /\ Fails
  /\ UNCHANGED <<producerVars, mainVars, answer, handles, faults>>

\* Mutant: the ratio's sign is not turned.
SplitForSigned(c) ==
  IF TpRatio(c) < 0 /\ ~c.mla /\ split[TpRatio(c)] = Absent
  THEN [split EXCEPT ![TpRatio(c)] = TpRatio(c)] ELSE split

\* The list that add_remote_agent leaves under the ratio of configuration c.
SplitFor(c) ==
  IF TpRatio(c) < 0 /\ ~c.mla /\ split[TpRatio(c)] = Absent
  THEN [split EXCEPT ![TpRatio(c)] = -TpRatio(c)] ELSE split

\* add_remote_agent to its end.
AddRemoteAgent ==
  LET c == Engines[answer[1]]
      todo == Tail(job.todo)
  IN /\ Received /\ Accepted
     /\ ValidHandshake(c)
     /\ learnt' = learnt \union {answer[1]}
     /\ split' = SplitFor(c)
     /\ dst_handles' = dst_handles \union {<<answer[1], Head(job.todo)>>}
     /\ block_sizes' = block_sizes \union {c.ratio}
     /\ job' = [job EXCEPT !.todo = todo, !.agents = Append(@, answer),
                           !.result = IF todo = <<>> THEN "ok" ELSE "running"]
     /\ sock' = IF todo = <<>> THEN "none" ELSE "ready"
     /\ UNCHANGED <<producerVars, mainVars, answer, faults>>

\* It raises: the metadata is not valid, or NIXL fails to add the agent, to
\* prepare one of the split regions or the producer's, or, after those, the
\* regions of the producer's smaller blocks.
AddRemoteAgentRaises ==
  LET c == Engines[answer[1]]
      r == TpRatio(c)
  IN /\ Received /\ Accepted
     /\ learnt' = learnt \union {answer[1]}
     /\ \/ ~ValidHandshake(c) /\ UNCHANGED <<split, dst_handles, faults>>
        \/ /\ ValidHandshake(c) /\ faults < MaxFaults
           /\ faults' = faults + 1
           /\ \/ UNCHANGED <<split, dst_handles>>
              \/ split' = SplitFor(c) /\ UNCHANGED dst_handles
              \/ /\ SplitFails /\ SplitFor(c) # split
                 /\ \E n \in 0..(-r - 1) : split' = [split EXCEPT ![r] = n]
                 /\ UNCHANGED dst_handles
              \/ /\ c.ratio > 1
                 /\ split' = SplitFor(c)
                 /\ dst_handles' = dst_handles \union {<<answer[1], Head(job.todo)>>}
     /\ Fails
     /\ UNCHANGED <<producerVars, mainVars, answer, block_sizes>>

\* The requests that hang on a future that has failed.
FailWaiting == failed' = IF job.result = "failed" THEN failed \union {job.engine}
                         ELSE failed

\* Mutant: only a handshake that succeeded is forgotten.
DoneCallbackKeepsFailed ==
  /\ job.result \in {"ok", "failed"}
  /\ IF job.result = "ok"
     THEN /\ futures' = futures \ {job.engine}
          /\ remote_agents' = [remote_agents EXCEPT ![job.engine] = job.agents]
     ELSE UNCHANGED <<remote_agents, futures>>
  /\ FailWaiting
  /\ job' = Idle
  /\ UNCHANGED <<producerVars, alive, asking, queue, sock, answer, handles, faults>>

\* done_callback, under the lock, and the request_ready callbacks after it.
DoneCallback ==
  /\ job.result \in {"ok", "failed"}
  /\ futures' = futures \ {job.engine}
  /\ remote_agents' = IF job.result = "ok"
                      THEN [remote_agents EXCEPT ![job.engine] = job.agents]
                      ELSE remote_agents
  /\ FailWaiting
  /\ job' = Idle
  /\ UNCHANGED <<producerVars, alive, asking, queue, sock, answer, handles, faults>>

Executor ==
  Begin \/ Send \/ Reject \/ AddRemoteAgent \/ AddRemoteAgentRaises \/ DoneCallback

Next ==
  \/ Start \/ Stop \/ Answer
  \/ \E e \in Starts : Ask(e)
  \/ Submit \/ Report
  \/ Executor \/ ReceiveTimeout

Spec == Init /\ [][Next]_vars

\* A start_load_kv that has begun goes on, the executor's thread runs, a
\* listener that is up answers and a receive times out.  Nothing is assumed of
\* the requests that come, nor that the worker survives a failure.
FairSpec ==
  /\ Spec
  /\ WF_vars(Submit) /\ WF_vars(Executor) /\ WF_vars(ReceiveTimeout)
  /\ WF_vars(Answer)

-----------------------------------------------------------------------------
(* Properties *)

TypeOK ==
  /\ enforce_compat_hash \in BOOLEAN
  /\ started \in 0..Len(Engines) /\ serving \in {0, started}
  /\ alive \in BOOLEAN /\ asking \in {0} \union Starts
  /\ remote_agents \in [Starts -> Seq(Agents)]
  /\ \A S \in {futures, failed, learnt} : S \subseteq Starts
  /\ queue \in Seq(Starts)
  /\ job \in [engine : {0} \union Starts, todo : Seq(Nat), agents : Seq(Agents),
             result : {"idle", "running", "ok", "failed"}]
  /\ sock \in {"none", "ready", "sent", "answered"}
  /\ answer \in Agents \union {Malformed}
  /\ split \in [Ratios -> {Absent} \union Nat]
  /\ block_sizes \subseteq Nat /\ dst_handles \subseteq Agents
  /\ faults \in 0..MaxFaults

\* What _read_blocks_for_req takes from the dictionaries once an engine is
\* known: an agent and a prepared region of that very start for each rank it
\* reads, and a local handle for each of them.
Usable(e) ==
  LET c == Engines[e]
      ranks == TargetRemoteRanks(c)
  IN /\ remote_agents[e] = [i \in DOMAIN ranks |-> <<e, ranks[i]>>]
     /\ \A i \in DOMAIN ranks : <<e, ranks[i]>> \in dst_handles
     /\ TpRatio(c) < 0 /\ ~c.mla => split[TpRatio(c)] = Len(ranks)
     /\ c.ratio \in block_sizes

\* "Ensure engine id matches": however often the producer restarts between the
\* queries of a handshake, and whatever fails on the way and is tried again, an
\* engine the main thread takes as known can be read from, and is one start.
ReadyIsUsable == \A e \in Starts : Unknown(e) \/ Usable(e)

\* The lock "protects _handshake_futures and _remote_agents": an engine that
\* is known is never handshaken again, which would replace the handles that
\* its reads are using.
KnownIsSettled == \A e \in Starts : Unknown(e) \/ e \notin futures

\* Every handshake ends, whether the server is dead, stale or failing: the
\* executor's one thread is not lost to it, whatever becomes of the main thread.
HandshakeEnds == \A e \in Starts : e \in futures ~> e \notin futures

\* A producer that stays up, is fit for this worker, and is named by request
\* after request while it is not known, is known in the end, though handshakes
\* with it and others fail in add_remote_agent and leave half of their handles
\* behind.  A handshake that fails before add_remote_agent is another matter:
\* the report of its requests ends the worker, and there is no next attempt.
RetriesSucceed ==
  \A e \in Compatible : ValidHandshake(Engines[e]) =>
     (/\ <>[](serving = e)
      /\ []<>(asking = e \/ ~Unknown(e))
      /\ [](failed \subseteq learnt)
      => <>~Unknown(e))
=============================================================================
