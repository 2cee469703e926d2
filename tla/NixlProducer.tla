---------------------------- MODULE NixlProducer ----------------------------
(***************************************************************************)
(* The prefill side of the NIXL connector: how the blocks of a finished    *)
(* prefill are kept for the decode instance and when they are released.    *)
(*                                                                         *)
(* Actors: the scheduler (NixlConnectorScheduler, driven by the engine),   *)
(* one worker per rank (NixlConnectorWorker), the readers of the decode    *)
(* instance and the clock.  The scheduler hands each worker the same       *)
(* connector metadata, one per engine step; with async scheduling up to    *)
(* Depth steps are in flight.  A worker's step is start_load_kv followed   *)
(* by get_finished, whose loop over the notifications is one action per    *)
(* notification; a notification that has been sent and not handled is      *)
(* still on the wire, so delay, reordering and loss need no action.        *)
(***************************************************************************)
EXTENDS Integers, Sequences, FiniteSets

CONSTANTS
  Reqs,       \* prefill requests (do_remote_decode)
  Ranks,      \* worker ranks (tensor parallel)
  Readers,    \* decode ranks that read from one producer rank
  UuidOf,     \* the proxy UUID inside a request id
  Bare,       \* readers that tag their notification with the bare UUID
  Timeout,    \* VLLM_NIXL_ABORT_REQUEST_TIMEOUT
  Horizon,    \* bound: the last instant of the clock
  Depth       \* bound: engine steps in flight

ASSUME ProducerAssumption ==
  /\ IsFiniteSet(Readers) /\ Readers # {}
  /\ Ranks # {}
  /\ DOMAIN UuidOf = Reqs
  /\ Bare \subseteq Readers
  /\ Timeout \in Nat /\ Horizon \in Nat /\ Depth \in Nat \ {0}

VARIABLES
  \* engine and scheduler
  status,              \* what the engine knows of each request
  reqs_need_send,      \* expiry entries waiting for the next metadata
  reqs_not_processed,  \* aborted requests waiting for the next metadata
  acked,               \* acked[r]: ranks whose done_sending named r
  inflight,            \* metadata of the steps whose outputs are not consumed
  \* workers
  pc,                  \* "load": between steps; "notifs": inside get_finished
  reqs_to_process,
  reqs_to_send,        \* the expiry dict, as entries with their dict position
  counted,             \* notifications in consumer_notification_counts_by_req
  done_sending,        \* local of get_finished
  outputs,             \* outputs[w]: done_sending of w's executed steps
  \* decode side and clock
  notified,            \* notified[w]: <<request, reader>> that have read rank w
  inbox,               \* the notifications on the wire to rank w
  now,
  \* history
  lease,               \* the expiry time given to each finished request
  finishes             \* how many finish events there were: dict order

schedVars  == <<status, reqs_need_send, reqs_not_processed, acked, inflight>>
workerVars == <<pc, reqs_to_process, reqs_to_send, counted, done_sending,
                outputs>>
envVars    == <<notified, inbox, now>>
histVars   == <<lease, finishes>>
vars       == <<schedVars, workerVars, envVars, histVars>>

Status == {"waiting", "running", "aborted", "held", "freed"}
Entry  == [req : Reqs, expires : Nat, pos : Nat]
Meta   == [in_batch : SUBSET Reqs, not_processed : SUBSET Reqs,
           to_send : SUBSET Entry]
Notif  == Reqs \X Readers

Ids(entries) == {e.req : e \in entries}

Init ==
  /\ status = [r \in Reqs |-> "waiting"]
  /\ reqs_need_send = {} /\ reqs_not_processed = {}
  /\ acked = [r \in Reqs |-> {}]
  /\ inflight = <<>>
  /\ pc = [w \in Ranks |-> "load"]
  /\ reqs_to_process = [w \in Ranks |-> {}]
  /\ reqs_to_send = [w \in Ranks |-> {}]
  /\ counted = [w \in Ranks |-> [r \in Reqs |-> {}]]
  /\ done_sending = [w \in Ranks |-> {}]
  /\ outputs = [w \in Ranks |-> <<>>]
  /\ notified = [w \in Ranks |-> {}]
  /\ inbox = [w \in Ranks |-> {}]
  /\ now = 0
  /\ lease = [r \in Reqs |-> 0]
  /\ finishes = 0

-----------------------------------------------------------------------------
(* Scheduler *)

\* Mutant: the pending expiry entries are cleared but never handed over.
ScheduleTimersLost(S) ==
  /\ Len(inflight) < Depth
  /\ \A r \in S : status[r] \in {"waiting", "running"}
  /\ status' = [r \in Reqs |-> IF r \in S THEN "running" ELSE status[r]]
  /\ inflight' = Append(inflight, [in_batch |-> S, to_send |-> {},
                                   not_processed |-> reqs_not_processed])
  /\ reqs_need_send' = {} /\ reqs_not_processed' = {}
  /\ UNCHANGED <<acked, workerVars, envVars, histVars>>

\* Mutant: so are the aborted requests.
ScheduleAbortsLost(S) ==
  /\ Len(inflight) < Depth
  /\ \A r \in S : status[r] \in {"waiting", "running"}
  /\ status' = [r \in Reqs |-> IF r \in S THEN "running" ELSE status[r]]
  /\ inflight' = Append(inflight, [in_batch |-> S, not_processed |-> {},
                                   to_send |-> reqs_need_send])
  /\ reqs_need_send' = {} /\ reqs_not_processed' = {}
  /\ UNCHANGED <<acked, workerVars, envVars, histVars>>

\* One schedule() call of the engine: update_state_after_alloc for every
\* request of S (new, or resumed after a preemption) and build_connector_meta,
\* which hands over the pending sets and clears them.
Schedule(S) ==
  /\ Len(inflight) < Depth
  /\ \A r \in S : status[r] \in {"waiting", "running"}
  /\ status' = [r \in Reqs |-> IF r \in S THEN "running" ELSE status[r]]
  /\ inflight' = Append(inflight, [in_batch |-> S,
                                   not_processed |-> reqs_not_processed,
                                   to_send |-> reqs_need_send])
  /\ reqs_need_send' = {}
  /\ reqs_not_processed' = {}
  /\ UNCHANGED <<acked, workerVars, envVars, histVars>>

\* Mutant: a request that has finished and is held can still be aborted.
AbortHeld(r) ==
  /\ status[r] \in {"waiting", "running", "held"}
  /\ status' = [status EXCEPT ![r] = "aborted"]
  /\ reqs_not_processed' = reqs_not_processed \union {r}
  /\ UNCHANGED <<reqs_need_send, acked, inflight, workerVars, envVars, histVars>>

\* request_finished with a status other than FINISHED_LENGTH_CAPPED.
Abort(r) ==
  /\ status[r] \in {"waiting", "running"}
  /\ status' = [status EXCEPT ![r] = "aborted"]
  /\ reqs_not_processed' = reqs_not_processed \union {r}
  /\ UNCHANGED <<reqs_need_send, acked, inflight, workerVars, envVars, histVars>>

\* The requests that may have produced their last token in the oldest step.
Finishable ==
  {r \in Reqs : /\ status[r] = "running"
                /\ \A i \in 2..Len(inflight) : r \notin inflight[i].in_batch}

\* Mutant: the timeout is taken off the clock instead of added to it.
LeasedBackwards(F) ==
  {[req |-> r, expires |-> now - Timeout, pos |-> finishes] : r \in F}

\* request_finished of every request of F, length capped and with blocks: the
\* blocks are held and an expiry time is set.
Leased(F) ==
  {[req |-> r, expires |-> now + Timeout, pos |-> finishes] : r \in F}

\* Mutant: the blocks are freed as soon as one rank is done with them.
UpdateFromOutputAnyRank(F) ==
  LET acks  == [r \in Reqs |-> acked[r] \union
                               {w \in Ranks : r \in Head(outputs[w])}]
      freed == {r \in Reqs : acks[r] # {} /\ acked[r] = {}}
  IN /\ inflight # <<>>
     /\ \A w \in Ranks : outputs[w] # <<>>
     /\ F \subseteq Finishable
     /\ F # {} => now + Timeout <= Horizon
     /\ status' = [r \in Reqs |-> IF r \in F THEN "held"
                                  ELSE IF r \in freed THEN "freed"
                                  ELSE status[r]]
     /\ reqs_need_send' = reqs_need_send \union Leased(F)
     /\ acked' = acks
     /\ inflight' = Tail(inflight)
     /\ outputs' = [w \in Ranks |-> Tail(outputs[w])]
     /\ lease' = [r \in Reqs |-> IF r \in F THEN now + Timeout ELSE lease[r]]
     /\ finishes' = IF F = {} THEN finishes ELSE finishes + 1
     /\ UNCHANGED <<reqs_not_processed, pc, reqs_to_process, reqs_to_send,
                    counted, done_sending, envVars>>

\* The engine consumes the outputs of the oldest step: the requests of F end,
\* and a request whose done_sending has now come from every rank is freed.
UpdateFromOutput(F) ==
  LET acks  == [r \in Reqs |-> acked[r] \union
                               {w \in Ranks : r \in Head(outputs[w])}]
      freed == {r \in Reqs : acks[r] = Ranks /\ acked[r] # Ranks}
  IN /\ inflight # <<>>
     /\ \A w \in Ranks : outputs[w] # <<>>
     /\ F \subseteq Finishable
     /\ F # {} => now + Timeout <= Horizon
     /\ status' = [r \in Reqs |-> IF r \in F THEN "held"
                                  ELSE IF r \in freed THEN "freed"
                                  ELSE status[r]]
     /\ reqs_need_send' = reqs_need_send \union Leased(F)
     /\ acked' = acks
     /\ inflight' = Tail(inflight)
     /\ outputs' = [w \in Ranks |-> Tail(outputs[w])]
     /\ lease' = [r \in Reqs |-> IF r \in F THEN now + Timeout ELSE lease[r]]
     /\ finishes' = IF F = {} THEN finishes ELSE finishes + 1
     /\ UNCHANGED <<reqs_not_processed, pc, reqs_to_process, reqs_to_send,
                    counted, done_sending, envVars>>

-----------------------------------------------------------------------------
(* Worker of rank w *)

NextMeta(w) == inflight[Len(outputs[w]) + 1]

\* Mutant: an expiry entry is kept whether or not the request is tracked.
StartLoadKVUntracked(w) ==
  LET m == NextMeta(w)
  IN /\ pc[w] = "load"
     /\ Len(outputs[w]) < Len(inflight)
     /\ reqs_to_process' = [reqs_to_process EXCEPT
                              ![w] = (@ \union m.in_batch) \ m.not_processed]
     /\ reqs_to_send' = [reqs_to_send EXCEPT ![w] = @ \union m.to_send]
     /\ pc' = [pc EXCEPT ![w] = "notifs"]
     /\ UNCHANGED <<schedVars, counted, done_sending, outputs, envVars, histVars>>

\* start_load_kv, from the requests of the batch to the expiry entries.
StartLoadKV(w) ==
  LET m       == NextMeta(w)
      process == (reqs_to_process[w] \union m.in_batch) \ m.not_processed
  IN /\ pc[w] = "load"
     /\ Len(outputs[w]) < Len(inflight)
     /\ reqs_to_process' = [reqs_to_process EXCEPT ![w] = process]
     /\ reqs_to_send' = [reqs_to_send EXCEPT
                           ![w] = @ \union {e \in m.to_send : e.req \in process}]
     /\ pc' = [pc EXCEPT ![w] = "notifs"]
     /\ UNCHANGED <<schedVars, counted, done_sending, outputs, envVars, histVars>>

Tracked(w) == Ids(reqs_to_send[w]) \union reqs_to_process[w]

\* q sorts before or with p: by expiry, requests without a timer last.
NoYounger(w, q, p) ==
  \/ p \notin Ids(reqs_to_send[w])
  \/ \E e, f \in reqs_to_send[w] :
        e.req = q /\ f.req = p /\ e.expires <= f.expires

\* Mutant: the UUID is not compared.
ResolveFreeNotifAnyUuid(w, r) ==
  {q \in Tracked(w) : \A p \in Tracked(w) : NoYounger(w, q, p)}

\* _resolve_free_notif_req_id: the oldest tracked request with the same UUID.
ResolveFreeNotif(w, r) ==
  LET matches == {q \in Tracked(w) : UuidOf[q] = UuidOf[r]}
  IN  {q \in matches : \A p \in matches : NoYounger(w, q, p)}

\* The request a notification counts for, or none.
Target(w, n) ==
  IF n[1] \in Tracked(w) /\ n[2] \notin Bare THEN {n[1]}
  ELSE ResolveFreeNotif(w, n[1])

\* Mutant: the first reader's notification releases the request.
CountNotifFirstReader(w, r, n) ==
  /\ counted' = [counted EXCEPT ![w][r] = {}]
  /\ reqs_to_process' = [reqs_to_process EXCEPT ![w] = @ \ {r}]
  /\ reqs_to_send' = [reqs_to_send EXCEPT ![w] = {e \in @ : e.req # r}]
  /\ done_sending' = [done_sending EXCEPT ![w] = @ \union {r}]

\* Mutant: the expiry timer of a released request is left in place.
CountNotifKeepsTimer(w, r, n) ==
  LET seen == counted[w][r] \union {n}
      last == Cardinality(seen) = Cardinality(Readers)
  IN /\ counted' = [counted EXCEPT ![w][r] = IF last THEN {} ELSE seen]
     /\ reqs_to_process' = [reqs_to_process EXCEPT
                              ![w] = IF last THEN @ \ {r} ELSE @]
     /\ done_sending' = [done_sending EXCEPT
                           ![w] = IF last THEN @ \union {r} ELSE @]
     /\ UNCHANGED reqs_to_send

\* _get_new_notifs: one notification counted for r; the last one releases it.
CountNotif(w, r, n) ==
  LET seen == counted[w][r] \union {n}
  IN IF Cardinality(seen) = Cardinality(Readers)
     THEN /\ counted' = [counted EXCEPT ![w][r] = {}]
          /\ reqs_to_process' = [reqs_to_process EXCEPT ![w] = @ \ {r}]
          /\ reqs_to_send' = [reqs_to_send EXCEPT
                                ![w] = {e \in @ : e.req # r}]
          /\ done_sending' = [done_sending EXCEPT ![w] = @ \union {r}]
     ELSE /\ counted' = [counted EXCEPT ![w][r] = seen]
          /\ UNCHANGED <<reqs_to_process, reqs_to_send, done_sending>>

HandleNotif(w, n) ==
  /\ pc[w] = "notifs"
  /\ n \in inbox[w]
  /\ inbox' = [inbox EXCEPT ![w] = @ \ {n}]
  /\ \/ \E r \in Target(w, n) : CountNotif(w, r, n)
     \/ /\ Target(w, n) = {}
        /\ UNCHANGED <<counted, reqs_to_process, reqs_to_send, done_sending>>
  /\ UNCHANGED <<schedVars, pc, outputs, notified, now, histVars>>

\* Mutant: one entry per call ("if" in place of "while").
ExpiredPrefixOnlyFirst(w) ==
  {e \in reqs_to_send[w] :
     e.expires <= now /\ \A f \in reqs_to_send[w] : e.pos <= f.pos}

\* The entries that the expiry loop removes: from the front of the dict, up to
\* the first that has not expired.
ExpiredPrefix(w) ==
  {e \in reqs_to_send[w] :
     \A f \in reqs_to_send[w] : f.pos <= e.pos => f.expires <= now}

\* Mutant: an expired request is reported but its timer stays in the dict.
ExpireAndReturnKeepsTimer(w) ==
  LET expired == Ids(ExpiredPrefix(w))
  IN /\ pc[w] = "notifs"
     /\ counted' = [counted EXCEPT
                      ![w] = [r \in Reqs |-> IF r \in expired THEN {} ELSE @[r]]]
     /\ reqs_to_process' = [reqs_to_process EXCEPT ![w] = @ \ expired]
     /\ outputs' = [outputs EXCEPT
                      ![w] = Append(@, done_sending[w] \union expired)]
     /\ done_sending' = [done_sending EXCEPT ![w] = {}]
     /\ pc' = [pc EXCEPT ![w] = "load"]
     /\ UNCHANGED <<schedVars, reqs_to_send, envVars, histVars>>

\* The end of get_finished: expire leases and return done_sending.
ExpireAndReturn(w) ==
  LET expired == Ids(ExpiredPrefix(w))
  IN /\ pc[w] = "notifs"
     /\ counted' = [counted EXCEPT
                      ![w] = [r \in Reqs |-> IF r \in expired THEN {} ELSE @[r]]]
     /\ reqs_to_process' = [reqs_to_process EXCEPT ![w] = @ \ expired]
     /\ reqs_to_send' = [reqs_to_send EXCEPT ![w] = @ \ ExpiredPrefix(w)]
     /\ outputs' = [outputs EXCEPT
                      ![w] = Append(@, done_sending[w] \union expired)]
     /\ done_sending' = [done_sending EXCEPT ![w] = {}]
     /\ pc' = [pc EXCEPT ![w] = "load"]
     /\ UNCHANGED <<schedVars, envVars, histVars>>

-----------------------------------------------------------------------------
(* Decode side and clock *)

\* Reader d has read r's blocks of rank w; the completed transfer carries the
\* notification.  A decode instance knows r only once r has finished.
ReadDone(w, r, d) ==
  /\ status[r] \in {"held", "freed"}
  /\ <<r, d>> \notin notified[w]
  /\ notified' = [notified EXCEPT ![w] = @ \union {<<r, d>>}]
  /\ inbox' = [inbox EXCEPT ![w] = @ \union {<<r, d>>}]
  /\ UNCHANGED <<schedVars, workerVars, now, histVars>>

Tick ==
  /\ now < Horizon
  /\ now' = now + 1
  /\ UNCHANGED <<schedVars, workerVars, notified, inbox, histVars>>

Next ==
  \/ \E S \in SUBSET Reqs : Schedule(S)
  \/ \E r \in Reqs : Abort(r)
  \/ \E F \in SUBSET Reqs : UpdateFromOutput(F)
  \/ \E w \in Ranks : StartLoadKV(w)
  \/ \E w \in Ranks, n \in Notif : HandleNotif(w, n)
  \/ \E w \in Ranks : ExpireAndReturn(w)
  \/ \E w \in Ranks, r \in Reqs, d \in Readers : ReadDone(w, r, d)
  \/ Tick

Spec == Init /\ [][Next]_vars

\* The engine keeps stepping and the clock keeps running; nothing is assumed
\* of the decode side, nor of which requests finish or abort.
Fairness ==
  /\ WF_vars(\E S \in SUBSET Reqs : Schedule(S))
  /\ WF_vars(\E F \in SUBSET Reqs : UpdateFromOutput(F))
  /\ \A w \in Ranks : WF_vars(StartLoadKV(w)) /\ WF_vars(ExpireAndReturn(w))
  /\ WF_vars(Tick)

FairSpec == Spec /\ Fairness
-----------------------------------------------------------------------------
(* Properties *)

TypeOK ==
  /\ status \in [Reqs -> Status]
  /\ reqs_need_send \in SUBSET Entry
  /\ reqs_not_processed \in SUBSET Reqs
  /\ acked \in [Reqs -> SUBSET Ranks]
  /\ inflight \in Seq(Meta)
  /\ pc \in [Ranks -> {"load", "notifs"}]
  /\ reqs_to_process \in [Ranks -> SUBSET Reqs]
  /\ reqs_to_send \in [Ranks -> SUBSET Entry]
  /\ counted \in [Ranks -> [Reqs -> SUBSET Notif]]
  /\ done_sending \in [Ranks -> SUBSET Reqs]
  /\ outputs \in [Ranks -> Seq(SUBSET Reqs)]
  /\ notified \in [Ranks -> SUBSET Notif]
  /\ inbox \in [Ranks -> SUBSET Notif]
  /\ now \in Nat
  /\ lease \in [Reqs -> Nat]
  /\ finishes \in Nat

AllRead(w, r) == {r} \X Readers \subseteq notified[w]

\* Rank w has told the engine, or is about to, that it is done with r.
Reported(w, r) ==
  \/ r \in done_sending[w]
  \/ \E i \in 1..Len(outputs[w]) : r \in outputs[w][i]
  \/ w \in acked[r]

\* "Wait all consumers (D) to be done reading before freeing": a rank lets go
\* of a request only when all of its readers have read it there or the
\* request's own expiry time has passed.  A notification counted for another
\* request, a count carried over or a timer set twice would break it.
LeaseRespected ==
  \A w \in Ranks, r \in Reqs :
     Reported(w, r) => AllRead(w, r) \/ (status[r] \in {"held", "freed"}
                                          /\ now >= lease[r])

\* The strengthening of LeaseRespected that every step preserves.
Finished(r) == status[r] \in {"held", "freed"}

EntryOK(e) == Finished(e.req) /\ e.expires = lease[e.req]

EntriesOK ==
  /\ \A e \in reqs_need_send : EntryOK(e)
  /\ \A i \in 1..Len(inflight) : \A e \in inflight[i].to_send : EntryOK(e)
  /\ \A w \in Ranks : \A e \in reqs_to_send[w] : EntryOK(e)

NotifsOK ==
  \A w \in Ranks :
     /\ inbox[w] \subseteq notified[w]
     /\ \A n \in notified[w] : Finished(n[1])
     /\ \A r \in Reqs : counted[w][r] \subseteq ({r} \X Readers) \intersect notified[w]

MayRelease(w, r) == AllRead(w, r) \/ now >= lease[r]

ReportsOK ==
  \A w \in Ranks, r \in Reqs : Reported(w, r) => Finished(r) /\ MayRelease(w, r)

FreedOK == \A r \in Reqs : status[r] = "freed" => acked[r] = Ranks

\* Everything on the way to a release is justified: entries carry the lease of
\* a finished request, counted notifications come from that request's own
\* readers, and a report has one of the two as its reason.
LeaseInv == EntriesOK /\ NotifsOK /\ ReportsOK /\ FreedOK

\* get_finished names a request only after the engine has finished it with its
\* blocks held, so the engine never frees the blocks of a request that is
\* still prefilling, or that it has forgotten.
OnlyHeldReported ==
  \A w \in Ranks, r \in Reqs : Reported(w, r) => status[r] \in {"held", "freed"}

\* A rank names a request once: the engine counts one report per rank, so a
\* second one would stand in for a rank that is still being read.
ReportedOnce ==
  \A w \in Ranks, r \in Reqs :
     /\ w \in acked[r] => /\ r \notin done_sending[w]
                          /\ \A i \in 1..Len(outputs[w]) : r \notin outputs[w][i]
     /\ r \in done_sending[w] => \A i \in 1..Len(outputs[w]) : r \notin outputs[w][i]
     /\ \A i, j \in 1..Len(outputs[w]) :
           i # j => r \notin outputs[w][i] \intersect outputs[w][j]

\* _reqs_to_process.remove in both release paths finds its request: every
\* request with an expiry timer is tracked.
TimersTracked == \A w \in Ranks : Ids(reqs_to_send[w]) \subseteq reqs_to_process[w]

\* "We should never get an abort after setting an expiry timer": the assertion
\* of start_load_kv holds of the metadata the worker handles next.
NoAbortAfterTimer ==
  \A w \in Ranks :
     pc[w] = "load" /\ Len(outputs[w]) < Len(inflight) =>
        NextMeta(w).not_processed \intersect Ids(reqs_to_send[w]) = {}

\* What a rank has released stays released: no late metadata starts a timer, no
\* late notification starts a count, for a request it has already reported.
ReleasedForgotten ==
  \A w \in Ranks, r \in Reqs :
     Reported(w, r) => r \notin Tracked(w) /\ counted[w][r] = {}

\* The early exit of the expiry loop ("Sorted dict, oldest requests are put
\* first") skips nothing: when get_finished returns no timer is overdue.
NoOverdueTimer ==
  [][\A w \in Ranks : pc[w] = "notifs" /\ pc'[w] = "load" =>
        \A e \in reqs_to_send'[w] : e.expires > now]_vars

\* What KVLease sees of a request's status.
PhaseOf(st) ==
  IF st \in {"waiting", "running"} THEN "prefill"
  ELSE IF st = "aborted" THEN "dropped"
  ELSE IF st = "held" THEN "leased" ELSE "freed"

Phase == [r \in Reqs |-> PhaseOf(status[r])]

Lease ==
  INSTANCE KVLease WITH
    phase <- Phase, deadline <- lease, read <- notified, clock <- now

\* The producer keeps the abstract promise of KVLease.
ImplementsLease == Lease!Spec

\* Whatever the decode side does, held blocks return to the pool.
HeldEventuallyFreed ==
  \A r \in Reqs : status[r] = "held" ~> status[r] = "freed"

\* No rank tracks an aborted request for ever.
AbortedForgotten ==
  \A w \in Ranks, r \in Reqs :
     status[r] = "aborted" ~> r \notin Tracked(w)
=============================================================================
