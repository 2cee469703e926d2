---------------------------- MODULE ChunkOverlap ----------------------------
(***************************************************************************)
(* Chunk overlap on the producer of HostSave: consumers register with the  *)
(* listener thread of its scheduler, registrations travel to the worker    *)
(* with the metadata of a step, and the worker sends a CHUNK_READY for     *)
(* every chunk it has copied, or buffers it until it knows a consumer.     *)
(*                                                                         *)
(* The consumer (external) is one engine that may restart: a start is      *)
(* named by its number, and only the latest one registers.  A CHUNK_READY  *)
(* in sent has been handed to NIXL, which may still lose it.               *)
(***************************************************************************)
EXTENDS HostSave, SequencesExt

CONSTANTS
  MaxStarts,   \* bound: starts of the consumer
  MaxMessages  \* bound: registrations

ASSUME OverlapAssumption ==
  MaxStarts \in Nat /\ MaxMessages \in Nat

VARIABLES
  newest,        \* the latest start of the consumer that has registered, or 0
  messages,      \* registrations so far
  registrations, \* _pending_consumer_registrations
  metadata,      \* consumer_registrations of each step of inflight
  agents,        \* _consumer_agent_by_engine, in insertion order
  engine_by_req, \* _consumer_engine_by_req; 0 for none
  pending,       \* _pending_chunk_notifs
  sent           \* the CHUNK_READY notifications of r, oldest first

listenerVars == <<newest, messages, registrations>>
notifVars    == <<agents, engine_by_req, pending, sent>>
overlapVars  == <<vars, listenerVars, metadata, notifVars>>

\* A consumer registers when it starts, for no request, or for one request.
Registration == [engine : 1..MaxStarts, req_ids : {{}} \union {{r} : r \in Reqs}]

OverlapInit ==
  /\ Init
  /\ newest = 0 /\ messages = 0
  /\ registrations = <<>> /\ metadata = <<>>
  /\ agents = <<>> /\ engine_by_req = [r \in Reqs |-> 0]
  /\ pending = [r \in Reqs |-> <<>>] /\ sent = [r \in Reqs |-> <<>>]

-----------------------------------------------------------------------------
(* Scheduler's process *)

\* _handle_consumer_registration, on the listener's thread.
Register(reg) ==
  /\ messages < MaxMessages
  /\ reg.engine \in {newest, newest + 1}
  /\ newest' = reg.engine
  /\ messages' = messages + 1
  /\ registrations' = Append(registrations, reg)
  /\ UNCHANGED <<vars, metadata, notifVars>>

\* build_connector_meta drains the registrations into the step's metadata.
ScheduleDrain(n) ==
  /\ Schedule(n)
  /\ metadata' = Append(metadata,
                        [registrations |-> registrations,
                         empty |-> \A r \in Reqs : n[r] = 0])
  /\ registrations' = <<>>
  /\ UNCHANGED <<newest, messages, notifVars>>

\* The worker is not told of a preemption: what is pending stays.
PreemptOverlap(r) ==
  /\ Preempt(r)
  /\ UNCHANGED <<listenerVars, metadata, notifVars>>

AbortOverlap(r) == Abort(r) /\ UNCHANGED <<listenerVars, metadata, notifVars>>

EndStep ==
  /\ UpdateFromOutput
  /\ metadata' = Tail(metadata)
  /\ UNCHANGED <<listenerVars, notifVars>>

-----------------------------------------------------------------------------
(* Worker: what save_kv_to_host makes of its four dictionaries *)

State == [agents |-> agents, engine_by_req |-> engine_by_req,
          pending |-> pending, sent |-> sent]

\* Mutant: the requests are mapped before the agent is added.
RegisteredMappedFirst(st, reg, raises) ==
  LET known == reg.engine \in ToSet(st.agents)
  IN  [st EXCEPT !.agents = IF known \/ raises THEN @ ELSE Append(@, reg.engine),
                 !.engine_by_req = [r \in Reqs |-> IF r \in reg.req_ids
                                                   THEN reg.engine ELSE @[r]]]

\* One turn of _register_consumers; add_remote_agent may raise for an engine
\* that is not known, and then the registration has no effect.
Registered(st, reg, raises) ==
  LET known == reg.engine \in ToSet(st.agents)
  IN  IF ~known /\ raises THEN st
      ELSE [st EXCEPT !.agents = IF known THEN @ ELSE Append(@, reg.engine),
                      !.engine_by_req = [r \in Reqs |-> IF r \in reg.req_ids
                                                        THEN reg.engine ELSE @[r]]]

\* _register_consumers: after[i] is what its first i turns make of st.
RegisterConsumers(st, regs, raising) ==
  LET after[i \in 0..Len(regs)] ==
        IF i = 0 THEN st ELSE Registered(after[i - 1], regs[i], i \in raising)
  IN  after[Len(regs)]

\* _resolve_consumer_agent: the engine r is mapped to, or the last to register;
\* 0 for None.
Resolve(st, r) ==
  IF st.engine_by_req[r] # 0
  THEN IF st.engine_by_req[r] \in ToSet(st.agents) THEN st.engine_by_req[r] ELSE 0
  ELSE IF st.agents = <<>> THEN 0 ELSE Last(st.agents)

\* "Flush notifs that were buffered before any consumer was known."
Flush(st) ==
  LET ready == {r \in Reqs : st.agents # <<>> /\ Resolve(st, r) # 0}
  IN  [st EXCEPT !.sent = [r \in Reqs |-> IF r \in ready THEN @[r] \o st.pending[r]
                                          ELSE @[r]],
                 !.pending = [r \in Reqs |-> IF r \in ready THEN <<>> ELSE @[r]]]

\* _notify_chunk_ready for the chunk of each request that has one.
Notify(st, chunks) ==
  LET with(r) == SetToSeq({c \in chunks : c.req = r})
  IN  [st EXCEPT !.sent = [r \in Reqs |-> IF Resolve(st, r) # 0 THEN @[r] \o with(r)
                                          ELSE @[r]],
                 !.pending = [r \in Reqs |-> IF Resolve(st, r) # 0 THEN @[r]
                                             ELSE @[r] \o with(r)]]

\* Mutant: the new chunks go before the buffered ones.
AnnounceBeforeFlush(regs, raising, chunks) ==
  Flush(Notify(RegisterConsumers(State, regs, raising), chunks))

\* save_kv_to_host.
Announce(regs, raising, chunks) ==
  Notify(Flush(RegisterConsumers(State, regs, raising)), chunks)

\* The CHUNK_READYs of a step, those of an earlier start of a request included;
\* run is not in the message.
Chunks(step) ==
  {[req |-> s.req, idx |-> s.idx, is_last |-> s.is_last, blocks |-> s.blocks,
    run |-> step.run[s.req]] : s \in step.saves}

\* A step without tokens has no forward pass, and its metadata ends with it.
SaveAndAnnounce(raising) ==
  LET meta == metadata[executed + 1]
      st   == Announce(meta.registrations, raising, Chunks(inflight[executed + 1]))
  IN /\ SaveKvToHost
     /\ raising \subseteq DOMAIN meta.registrations
     /\ IF meta.empty THEN UNCHANGED notifVars
        ELSE /\ agents' = st.agents /\ engine_by_req' = st.engine_by_req
             /\ pending' = st.pending /\ sent' = st.sent
     /\ UNCHANGED <<listenerVars, metadata>>

OverlapNext ==
  \/ \E reg \in Registration : Register(reg)
  \/ \E n \in [Reqs -> 0..Budget] : ScheduleDrain(n)
  \/ \E r \in Reqs : PreemptOverlap(r) \/ AbortOverlap(r)
  \/ EndStep
  \/ \E raising \in SUBSET (1..MaxMessages) : SaveAndAnnounce(raising)

OverlapSpec == OverlapInit /\ [][OverlapNext]_overlapVars

-----------------------------------------------------------------------------
(* Properties *)

\* Everything announced of r, in order, whether it has left or waits for a
\* consumer.
Announcements(r) == sent[r] \o pending[r]

\* However registrations, failures to add an agent, preemptions and steps in
\* flight interleave, the chunks of a live request's latest start have been
\* sent, or wait to be, in the order in which they were copied, each once, and
\* after all chunks of its earlier starts.
SentInOrder ==
  \A r \in Reqs :
     LET all == Announcements(r)
         old == Len(all) - Len(announced[r])
     IN  status[r] \in {"running", "held"} =>
           /\ old >= 0
           /\ \A i \in DOMAIN all : all[i].run = run[r] <=> i > old
           /\ \A i \in DOMAIN announced[r] :
                /\ all[old + i].idx = announced[r][i].idx
                /\ all[old + i].is_last = announced[r][i].is_last
                /\ all[old + i].blocks = announced[r][i].blocks

\* The indices of all the announcements of a request, over all its starts: one
\* more than the last, also across a preemption, but from 0 again after a chunk
\* marked last.  There is such a chunk before the end only if the request was
\* preempted between its last chunk and its output: its counter is then gone.
NumberedInTurn ==
  \A r \in Reqs :
     LET all == Announcements(r)
     IN \A i \in DOMAIN all :
          IF i > 1 /\ ~all[i - 1].is_last THEN all[i].idx = all[i - 1].idx + 1
          ELSE /\ all[i].idx = 0
               /\ i > 1 => all[i - 1].run < all[i].run

\* Those of a held request that are of its latest start name all its blocks,
\* in order, and the very last alone is marked last.
HeldNamed ==
  \A r \in Reqs : status[r] = "held" =>
     LET all == Announcements(r)
         latest == {i \in DOMAIN all : all[i].run = run[r]}
     IN /\ UNION {all[i].blocks : i \in latest} = Blocks(r)
        /\ \A i, j \in latest : i < j =>
             \A b \in all[i].blocks, c \in all[j].blocks : b < c
        /\ \A i \in latest : all[i].is_last <=> i = Len(all)

\* What is left of "monotonically increasing chunk index per request", and of
\* is_last "so the consumer can finalize", when requests are preempted: both
\* hold of each start that is not preempted past its last chunk.  After one
\* that is, a consumer sees the indices start again, blocks that were given
\* away, and a second chunk marked last; nothing in a message tells the starts
\* apart.
AnnouncedInOrder == NumberedInTurn /\ HeldNamed

\* "Flushes any chunk notifs that were buffered before the registration
\* arrived": once a consumer is known nothing waits for one, whatever consumer
\* a request is mapped to and whatever failed.
NothingStuck == agents # <<>> => \A r \in Reqs : pending[r] = <<>>
=============================================================================
