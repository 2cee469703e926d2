------------------------------ MODULE HostSave ------------------------------
(***************************************************************************)
(* The producer with a host buffer (kv_buffer_device=cpu): how the blocks  *)
(* of a chunked prefill are copied to the host memory NIXL reads from, and *)
(* how the chunks are announced to the consumer (chunk overlap).           *)
(*                                                                         *)
(* Actors: the engine's scheduler (external), which shares a token budget  *)
(* among the prefills; the connector's scheduler side, which labels what   *)
(* the worker must save; the worker, which copies and announces it after   *)
(* the forward pass.  A request's blocks are named by their position in    *)
(* its block table; a preempted request starts over with other blocks, and *)
(* run counts its starts.                                                  *)
(***************************************************************************)
EXTENDS Integers, Sequences, FiniteSets

CONSTANTS
  Reqs,       \* requests with do_remote_decode
  Prompt,     \* num_prompt_tokens of each
  BlockSize,
  Budget,     \* max_num_batched_tokens of one step
  MaxRunning, \* requests that prefill at the same time
  Depth,      \* bound: steps in flight
  MaxRuns     \* bound: starts of one request

ASSUME HostSaveAssumption ==
  /\ IsFiniteSet(Reqs)
  /\ Prompt \in [Reqs -> Nat \ {0}]
  /\ {BlockSize, Budget, MaxRunning, Depth, MaxRuns} \subseteq Nat \ {0}

VARIABLES
  status,             \* "waiting", "running", "held" or "aborted"
  run,                \* times the request was started
  computed,           \* num_computed_tokens, as the scheduler counts them
  reqs_need_save,
  save_chunk_counter,
  inflight,           \* steps whose outputs are not consumed, oldest first
  executed,           \* how many of them the worker has executed
  staged,             \* staged[r][b]: tokens of block b in the host buffer
  announced           \* the CHUNK_READY notifications of r's latest start

vars == <<status, run, computed, reqs_need_save, save_chunk_counter, inflight,
          executed, staged, announced>>

NumBlocks(tokens) == (tokens + BlockSize - 1) \div BlockSize
Blocks(r) == 1..NumBlocks(Prompt[r])

\* Tokens of block b once a prefill has computed n tokens.
Filled(b, n) ==
  IF n >= b * BlockSize THEN BlockSize
  ELSE IF n > (b - 1) * BlockSize THEN n - (b - 1) * BlockSize ELSE 0

NoneStaged(r) == [b \in Blocks(r) |-> 0]

Init ==
  /\ status = [r \in Reqs |-> "waiting"]
  /\ run = [r \in Reqs |-> 0]
  /\ computed = [r \in Reqs |-> 0]
  /\ reqs_need_save = {}
  /\ save_chunk_counter = [r \in Reqs |-> 0]
  /\ inflight = <<>> /\ executed = 0
  /\ staged = [r \in Reqs |-> NoneStaged(r)]
  /\ announced = [r \in Reqs |-> <<>>]

-----------------------------------------------------------------------------
(* Scheduler *)

Remaining(r) == Prompt[r] - computed[r]

\* The tokens a step may give each request: the budget is handed out request
\* after request, before[r] tokens of it before r's turn, and a request gets
\* less than it needs only because the budget ends.
Shares ==
  {n \in [Reqs -> 0..Budget] :
     /\ \A r \in Reqs : n[r] <= Remaining(r)
     /\ \A r \in Reqs : n[r] > 0 => status[r] \in {"waiting", "running"}
     /\ Cardinality({r \in Reqs : status[r] = "running" \/ n[r] > 0}) <= MaxRunning
     /\ \E before \in [Reqs -> 0..Budget] :
          \A r \in {q \in Reqs : n[q] > 0} :
             /\ before[r] + n[r] <= Budget
             /\ before[r] # 0 => \E q \in Reqs : n[q] > 0 /\ before[q] + n[q] = before[r]
             /\ \A q \in Reqs \ {r} : n[q] > 0 => \/ before[q] + n[q] <= before[r]
                                                \/ before[r] + n[r] <= before[q]
             /\ n[r] < Remaining(r) => before[r] + n[r] = Budget}

\* The block positions a step adds to r's table.
NewBlocks(r, n) == (NumBlocks(computed[r]) + 1)..NumBlocks(computed[r] + n)

IsPartial(r, n) == computed[r] + n < Prompt[r]

\* Mutant: every chunk is labelled 0.
SavesUnlabelled(n, need) ==
  {[req |-> r, blocks |-> NewBlocks(r, n[r]), idx |-> 0,
    is_last |-> ~IsPartial(r, n[r])] :
      r \in {q \in need : n[q] > 0 /\ NewBlocks(q, n[q]) # {}}}

\* build_connector_meta: what the worker has to save in this step.  A request
\* that gets no new block (new_block_id_groups is None) is passed over.
Saves(n, need) ==
  {[req |-> r, blocks |-> NewBlocks(r, n[r]), idx |-> save_chunk_counter[r],
    is_last |-> ~IsPartial(r, n[r])] :
      r \in {q \in need : n[q] > 0 /\ NewBlocks(q, n[q]) # {}}}

\* Mutant: a request is dropped from _reqs_need_save with its first chunk.
DoneSavingFirstChunk(saves) == {s.req : s \in saves}

\* Mutant: and never.
DoneSavingNone(saves) == {}

\* The requests popped from _reqs_need_save, with their chunk counters.
DoneSaving(saves) == {s.req : s \in {t \in saves : t.is_last}}

\* One schedule() of the engine: update_state_after_alloc for the requests
\* that start, then build_connector_meta.
Schedule(n) ==
  LET started == {r \in Reqs : status[r] = "waiting" /\ n[r] > 0}
      need    == reqs_need_save \union started
      saves   == Saves(n, need)
  IN /\ Len(inflight) < Depth
     /\ n \in Shares
     /\ \A r \in started : run[r] < MaxRuns
     /\ status' = [r \in Reqs |-> IF r \in started THEN "running" ELSE status[r]]
     /\ run' = [r \in Reqs |-> IF r \in started THEN run[r] + 1 ELSE run[r]]
     /\ computed' = [r \in Reqs |-> computed[r] + n[r]]
     /\ reqs_need_save' = need \ DoneSaving(saves)
     /\ save_chunk_counter' =
          [r \in Reqs |-> IF r \in DoneSaving(saves) THEN 0
                          ELSE IF \E s \in saves : s.req = r
                          THEN save_chunk_counter[r] + 1
                          ELSE save_chunk_counter[r]]
     /\ inflight' = Append(inflight, [saves |-> saves, upto |-> computed', run |-> run'])
     /\ UNCHANGED <<executed, staged, announced>>

\* The engine takes r's blocks for another request; r will start over.
Preempt(r) ==
  /\ status[r] = "running" /\ run[r] < MaxRuns
  /\ Len(inflight) < Depth
  /\ status' = [status EXCEPT ![r] = "waiting"]
  /\ computed' = [computed EXCEPT ![r] = 0]
  /\ staged' = [staged EXCEPT ![r] = NoneStaged(r)]
  /\ announced' = [announced EXCEPT ![r] = <<>>]
  /\ UNCHANGED <<run, reqs_need_save, save_chunk_counter, inflight, executed>>

\* request_finished with a status other than FINISHED_LENGTH_CAPPED.
Abort(r) ==
  /\ status[r] \in {"waiting", "running"}
  /\ status' = [status EXCEPT ![r] = "aborted"]
  /\ reqs_need_save' = reqs_need_save \ {r}
  /\ UNCHANGED <<run, computed, save_chunk_counter, inflight, executed, staged,
                 announced>>

\* The outputs of the oldest step: a request whose last prompt token it
\* computed has its one output token, and request_finished holds its blocks.
UpdateFromOutput ==
  LET step == Head(inflight)
  IN /\ executed > 0
     /\ status' = [r \in Reqs |->
                     IF status[r] = "running" /\ step.run[r] = run[r]
                        /\ step.upto[r] = Prompt[r]
                     THEN "held" ELSE status[r]]
     /\ inflight' = Tail(inflight)
     /\ executed' = executed - 1
     /\ UNCHANGED <<run, computed, reqs_need_save, save_chunk_counter, staged,
                    announced>>

-----------------------------------------------------------------------------
(* Worker *)

\* The saves of a step that go to blocks their request still has.
Current(step) == {s \in step.saves : step.run[s.req] = run[s.req]
                                     /\ status[s.req] # "waiting"}

\* save_kv_to_host, after the forward pass of the oldest step not executed:
\* copy the blocks of each request and announce them.
SaveKvToHost ==
  LET step     == inflight[executed + 1]
      saveOf(r) == CHOOSE s \in Current(step) : s.req = r
      saved    == {s.req : s \in Current(step)}
  IN /\ executed < Len(inflight)
     /\ staged' = [r \in Reqs |->
                     [b \in Blocks(r) |->
                        IF r \in saved /\ b \in saveOf(r).blocks
                        THEN Filled(b, step.upto[r]) ELSE staged[r][b]]]
     /\ announced' = [r \in Reqs |-> IF r \in saved
                                     THEN Append(announced[r], saveOf(r))
                                     ELSE announced[r]]
     /\ executed' = executed + 1
     /\ UNCHANGED <<status, run, computed, reqs_need_save, save_chunk_counter,
                    inflight>>

Next ==
  \/ \E n \in [Reqs -> 0..Budget] : Schedule(n)
  \/ \E r \in Reqs : Preempt(r) \/ Abort(r)
  \/ UpdateFromOutput
  \/ SaveKvToHost

Spec == Init /\ [][Next]_vars

-----------------------------------------------------------------------------
(* Properties *)

\* "prefilled blocks need to be saved to host memory before transfer": the
\* blocks of a request that decode may read are complete in the host buffer.
HeldIsStaged ==
  \A r \in Reqs : status[r] = "held" =>
     \A b \in Blocks(r) : staged[r][b] = Filled(b, Prompt[r])

\* Once a request is held nothing waits to be saved for it: the scheduler has
\* seen its last chunk and keeps no record of it.
NoSaveLeft ==
  \A r \in Reqs : status[r] = "held" =>
     r \notin reqs_need_save /\ save_chunk_counter[r] = 0
=============================================================================
