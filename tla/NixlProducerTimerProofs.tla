---------------------- MODULE NixlProducerTimerProofs ----------------------
(***************************************************************************)
(* Theorems about the expiry timers of NixlProducer and about the reports  *)
(* of its workers, for every instance.  What concerns the timers alone     *)
(* holds whatever the UUIDs are; what a rank has reported stays reported   *)
(* only if no two requests share one.                                      *)
(***************************************************************************)
EXTENDS NixlProducerProofs

-----------------------------------------------------------------------------
(* The inductive invariant of the timers *)

\* Every expiry entry there is: waiting for the next metadata, in the metadata
\* of a step, or in the dict of a rank.
Entries ==
  reqs_need_send
  \union (UNION {inflight[i].to_send : i \in 1..Len(inflight)})
  \union (UNION {reqs_to_send[w] : w \in Ranks})

\* The aborted requests that some rank may yet have to be told of.
AbortsAhead ==
  reqs_not_processed
  \union (UNION {inflight[i].not_processed : i \in 1..Len(inflight)})

\* An entry is of a finished request, its only one, and as old as its place.
EntriesInv ==
  /\ \A e \in Entries : /\ Finished(e.req)
                        /\ e.pos < finishes /\ e.expires <= now + Timeout
  /\ \A e, f \in Entries : e.req = f.req => e = f
  /\ \A e, f \in Entries : e.pos <= f.pos => e.expires <= f.expires

\* An aborted request never gets an entry.
AbortsInv ==
  \A r \in AbortsAhead : /\ status[r] \notin {"waiting", "running"}
                         /\ r \notin Ids(Entries)

TimersInv == EntriesInv /\ AbortsInv /\ TimersTracked

LEMMA EntriesType ==
  ASSUME TypeOK
  PROVE  Entries \subseteq Entry /\ AbortsAhead \subseteq Reqs
<1>1. \A i \in 1..Len(inflight) : inflight[i] \in Meta
  BY ElementOfSeq DEF TypeOK
<1>2. \A i \in 1..Len(inflight) : /\ inflight[i].to_send \subseteq Entry
                                  /\ inflight[i].not_processed \subseteq Reqs
  BY <1>1 DEF Meta
<1>3. /\ reqs_need_send \subseteq Entry /\ reqs_not_processed \subseteq Reqs
      /\ \A w \in Ranks : reqs_to_send[w] \subseteq Entry
  BY DEF TypeOK
<1> QED
  BY <1>2, <1>3 DEF Entries, AbortsAhead

\* A step that creates no entry and no abort, and neither forgets a finish nor
\* turns back the clock, leaves the entries in order.
LEMMA EntriesKept ==
  ASSUME TypeOK, TypeOK', EntriesInv, AbortsInv,
         Entries' \subseteq Entries, AbortsAhead' \subseteq AbortsAhead,
         \A r \in Reqs : Finished(r) => Finished(r)',
         \A r \in Reqs : status[r] \notin {"waiting", "running"}
                           => status'[r] \notin {"waiting", "running"},
         finishes <= finishes', now <= now'
  PROVE  EntriesInv' /\ AbortsInv'
<1>1. ASSUME NEW e \in Entries'
      PROVE  Finished(e.req)' /\ e.pos < finishes' /\ e.expires <= now' + Timeout
  <2>1. e \in Entries /\ e \in Entry
    BY EntriesType
  <2>2. Finished(e.req) /\ e.pos < finishes /\ e.expires <= now + Timeout
    BY <2>1 DEF EntriesInv
  <2>3. /\ e.req \in Reqs /\ e.pos \in Nat /\ e.expires \in Nat
        /\ finishes \in Nat /\ finishes' \in Nat /\ now \in Nat /\ now' \in Nat
        /\ Timeout \in Nat
    BY <2>1, ProducerAssumption DEF Entry, TypeOK
  <2> QED
    BY <2>2, <2>3
<1>2. EntriesInv'
  BY <1>1 DEF EntriesInv
<1>3. AbortsInv'
  BY EntriesType DEF AbortsInv, Ids
<1> QED
  BY <1>2, <1>3

-----------------------------------------------------------------------------
(* Its steps *)

LEMMA ScheduleTimers ==
  ASSUME TypeOK, TypeOK', TimersInv, NEW S \in SUBSET Reqs, Schedule(S)
  PROVE  TimersInv'
<1> USE DEF workerVars, envVars, histVars
<1> DEFINE m == [in_batch |-> S, not_processed |-> reqs_not_processed,
                 to_send |-> reqs_need_send]
<1>1. /\ inflight \in Seq(Meta) /\ Len(inflight) \in Nat
      /\ inflight' = Append(inflight, m) /\ Len(inflight') = Len(inflight) + 1
  BY DEF TypeOK, Schedule
<1>2. ASSUME NEW i \in 1..Len(inflight')
      PROVE  \/ i \in 1..Len(inflight) /\ inflight'[i] = inflight[i]
             \/ /\ inflight'[i].to_send = reqs_need_send
                /\ inflight'[i].not_processed = reqs_not_processed
  <2>1. CASE i \in 1..Len(inflight)
    BY <1>1, <2>1
  <2>2. CASE i = Len(inflight) + 1
    BY <1>1, <2>2
  <2> QED
    BY <1>1, <2>1, <2>2
<1>3. Entries' \subseteq Entries /\ AbortsAhead' \subseteq AbortsAhead
  BY <1>2 DEF Schedule, Entries, AbortsAhead
<1>4. /\ \A r \in Reqs : Finished(r) => Finished(r)'
      /\ \A r \in Reqs : status[r] \notin {"waiting", "running"}
                           => status'[r] \notin {"waiting", "running"}
  BY DEF Schedule, Finished, TypeOK
<1>5. finishes <= finishes' /\ now <= now'
  BY DEF Schedule, TypeOK
<1>6. TimersTracked'
  BY DEF TimersInv, TimersTracked, Ids, Schedule
<1> QED
  BY <1>3, <1>4, <1>5, <1>6, EntriesKept DEF TimersInv

LEMMA AbortTimers ==
  ASSUME TypeOK, TypeOK', TimersInv, NEW a \in Reqs, Abort(a)
  PROVE  TimersInv'
<1> USE DEF workerVars, envVars, histVars
<1>1. /\ UNCHANGED <<reqs_need_send, inflight, reqs_to_send, reqs_to_process>>
      /\ UNCHANGED <<finishes, now>>
      /\ reqs_not_processed' = reqs_not_processed \union {a}
  BY DEF Abort
<1>2. Entries' = Entries /\ AbortsAhead' \subseteq AbortsAhead \union {a}
  BY <1>1 DEF Entries, AbortsAhead
<1>3. /\ \A r \in Reqs : Finished(r) => Finished(r)'
      /\ \A r \in Reqs : status[r] \notin {"waiting", "running"}
                           => status'[r] \notin {"waiting", "running"}
      /\ status'[a] = "aborted" /\ ~Finished(a)
  BY DEF Abort, Finished, TypeOK
<1>4. EntriesInv'
  BY <1>1, <1>2, <1>3, EntriesType DEF TimersInv, EntriesInv, Entry
<1>5. a \notin Ids(Entries)
  BY <1>3 DEF TimersInv, EntriesInv, Ids
<1>6. AbortsInv'
  BY <1>2, <1>3, <1>5, EntriesType DEF TimersInv, AbortsInv, Ids
<1>7. TimersTracked'
  BY <1>1 DEF TimersInv, TimersTracked, Ids
<1> QED
  BY <1>4, <1>6, <1>7 DEF TimersInv

LEMMA UpdateTimers ==
  ASSUME TypeOK, TypeOK', TimersInv, NEW F \in SUBSET Reqs, UpdateFromOutput(F)
  PROVE  TimersInv'
<1> USE DEF envVars
<1>1. /\ UNCHANGED <<reqs_not_processed, now, reqs_to_send, reqs_to_process>>
      /\ inflight' = Tail(inflight) /\ inflight # <<>>
      /\ reqs_need_send' = reqs_need_send \union Leased(F)
      /\ finishes' = IF F = {} THEN finishes ELSE finishes + 1
  BY DEF UpdateFromOutput
<1>2. ASSUME NEW i \in 1..Len(inflight')
      PROVE  i + 1 \in 1..Len(inflight) /\ inflight'[i] = inflight[i + 1]
  <2>1. inflight \in Seq(Meta) /\ Len(inflight) \in Nat
    BY LenProperties DEF TypeOK
  <2>2. Len(inflight') = Len(inflight) - 1 /\ inflight'[i] = inflight[i + 1]
    BY <1>1, <2>1, HeadTailProperties
  <2> QED
    BY <2>1, <2>2
<1>3. Entries' \subseteq Entries \union Leased(F) /\ AbortsAhead' \subseteq AbortsAhead
  BY <1>1, <1>2 DEF Entries, AbortsAhead
<1>4. /\ \A r \in F : Finished(r)' /\ status[r] = "running"
      /\ \A r \in Reqs : Finished(r) => Finished(r)'
      /\ \A r \in Reqs : status[r] \notin {"waiting", "running"}
                           => status'[r] \notin {"waiting", "running"}
  BY DEF UpdateFromOutput, Finishable, Finished, TypeOK
<1>5. /\ finishes \in Nat /\ finishes' \in Nat /\ finishes <= finishes'
      /\ now \in Nat /\ Timeout \in Nat
      /\ F # {} => finishes' = finishes + 1
  BY <1>1, ProducerAssumption DEF TypeOK
<1>6. \A e \in Leased(F) : /\ e.req \in F /\ e.expires = now + Timeout
                           /\ e.pos = finishes /\ F # {}
  BY DEF Leased
<1>7. \A e \in Entries : /\ e.req \in Reqs /\ e.pos \in Nat /\ e.expires \in Nat
                         /\ Finished(e.req) /\ e.pos < finishes
                         /\ e.expires <= now + Timeout
  BY EntriesType DEF TimersInv, EntriesInv, Entry
<1>8. \A e \in Entries' : Finished(e.req)' /\ e.pos < finishes'
                          /\ e.expires <= now' + Timeout
  <2> SUFFICES ASSUME NEW e \in Entries'
               PROVE  Finished(e.req)' /\ e.pos < finishes'
                      /\ e.expires <= now' + Timeout
    OBVIOUS
  <2>1. CASE e \in Entries
    BY <1>1, <1>4, <1>5, <1>7, <2>1
  <2>2. CASE e \in Leased(F)
    BY <1>1, <1>4, <1>5, <1>6, <2>2
  <2> QED
    BY <1>3, <2>1, <2>2
<1>9. \A e, f \in Entries' : e.req = f.req => e = f
  <2> SUFFICES ASSUME NEW e \in Entries', NEW f \in Entries', e.req = f.req
               PROVE  e = f
    OBVIOUS
  <2>1. CASE e \in Entries /\ f \in Entries
    BY <2>1 DEF TimersInv, EntriesInv
  <2>2. CASE e \in Leased(F) /\ f \in Leased(F)
    BY <2>2 DEF Leased
  <2>3. \A x \in Entries, y \in Leased(F) : x.req # y.req
    BY <1>4, <1>6, <1>7 DEF Finished
  <2> QED
    BY <1>3, <2>1, <2>2, <2>3
<1>10. \A e, f \in Entries' : e.pos <= f.pos => e.expires <= f.expires
  <2> SUFFICES ASSUME NEW e \in Entries', NEW f \in Entries', e.pos <= f.pos
               PROVE  e.expires <= f.expires
    OBVIOUS
  <2>1. CASE e \in Entries /\ f \in Entries
    BY <2>1 DEF TimersInv, EntriesInv
  <2>2. CASE f \in Leased(F)
    BY <1>3, <1>5, <1>6, <1>7, <2>2
  <2>3. CASE e \in Leased(F) /\ f \in Entries
    BY <1>5, <1>6, <1>7, <2>3
  <2> QED
    BY <1>3, <2>1, <2>2, <2>3
<1>11. AbortsInv'
  <2>1. \A r \in AbortsAhead : r \notin F
    BY <1>4 DEF TimersInv, AbortsInv
  <2> QED
    BY <1>3, <1>4, <1>6, <2>1, EntriesType DEF TimersInv, AbortsInv, Ids
<1>12. TimersTracked'
  BY <1>1 DEF TimersInv, TimersTracked, Ids
<1> QED
  BY <1>8, <1>9, <1>10, <1>11, <1>12 DEF TimersInv, EntriesInv

LEMMA StartLoadKVTimers ==
  ASSUME TypeOK, TypeOK', TimersInv, NEW w \in Ranks, StartLoadKV(w)
  PROVE  TimersInv'
<1> USE DEF schedVars, envVars, histVars
<1> DEFINE m == NextMeta(w)
           process == (reqs_to_process[w] \union m.in_batch) \ m.not_processed
<1>1. /\ UNCHANGED <<status, reqs_need_send, reqs_not_processed, inflight>>
      /\ UNCHANGED <<finishes, now>>
  BY DEF StartLoadKV
<1>2. \E i \in 1..Len(inflight) : m = inflight[i]
  BY NextMetaType DEF StartLoadKV, NextMeta
<1>3. /\ reqs_to_process'[w] = process
      /\ reqs_to_send'[w] = reqs_to_send[w] \union {e \in m.to_send : e.req \in process}
      /\ \A v \in Ranks \ {w} : /\ reqs_to_process'[v] = reqs_to_process[v]
                                /\ reqs_to_send'[v] = reqs_to_send[v]
  BY DEF StartLoadKV, TypeOK
<1>4. m.to_send \subseteq Entries /\ m.not_processed \subseteq AbortsAhead
  BY <1>2 DEF Entries, AbortsAhead
<1> HIDE DEF m
<1>5. Entries' \subseteq Entries /\ AbortsAhead' \subseteq AbortsAhead
  <2>1. \A v \in Ranks : reqs_to_send'[v] \subseteq Entries
    BY <1>3, <1>4 DEF Entries
  <2> QED
    BY <1>1, <2>1 DEF Entries, AbortsAhead
<1>6. TimersTracked'
  <2>1. reqs_to_send[w] \subseteq Entries
    BY DEF Entries
  <2>2. \A e \in reqs_to_send[w] : e.req \notin m.not_processed
    BY <1>4, <2>1 DEF TimersInv, AbortsInv, Ids
  <2>3. \A e \in reqs_to_send[w] : e.req \in reqs_to_process[w]
    BY DEF TimersInv, TimersTracked, Ids
  <2>4. \A e \in reqs_to_send'[w] : e.req \in reqs_to_process'[w]
    BY <1>3, <2>2, <2>3
  <2>5. \A v \in Ranks \ {w} : \A e \in reqs_to_send'[v] : e.req \in reqs_to_process'[v]
    BY <1>3 DEF TimersInv, TimersTracked, Ids
  <2> QED
    BY <2>4, <2>5 DEF TimersTracked, Ids
<1>7. finishes <= finishes' /\ now <= now'
  BY <1>1 DEF TypeOK
<1> QED
  BY <1>1, <1>5, <1>6, <1>7, EntriesKept DEF TimersInv, Finished

\* A worker that only removes entries, each with its request's tracking.
LEMMA RemovedTimers ==
  ASSUME TypeOK, TypeOK', TimersInv,
         UNCHANGED <<status, reqs_need_send, reqs_not_processed, inflight>>,
         UNCHANGED <<finishes, now>>,
         \A v \in Ranks : reqs_to_send'[v] \subseteq reqs_to_send[v],
         \A v \in Ranks : \A e \in reqs_to_send'[v] :
            e.req \in reqs_to_process[v] => e.req \in reqs_to_process'[v]
  PROVE  TimersInv'
<1>1. Entries' \subseteq Entries /\ AbortsAhead' \subseteq AbortsAhead
  BY DEF Entries, AbortsAhead
<1>2. TimersTracked'
  BY DEF TimersInv, TimersTracked, Ids
<1>3. finishes <= finishes' /\ now <= now'
  BY DEF TypeOK
<1> QED
  BY <1>1, <1>2, <1>3, EntriesKept DEF TimersInv, Finished

LEMMA HandleNotifTimers ==
  ASSUME TypeOK, TypeOK', TimersInv, NEW w \in Ranks, NEW n \in Notif,
         HandleNotif(w, n)
  PROVE  TimersInv'
<1> USE DEF schedVars, envVars, histVars
<1>1. /\ UNCHANGED <<status, reqs_need_send, reqs_not_processed, inflight>>
      /\ UNCHANGED <<finishes, now>>
  BY DEF HandleNotif
<1>2. CASE UNCHANGED <<reqs_to_send, reqs_to_process>>
  BY <1>1, <1>2, RemovedTimers
<1>3. ASSUME NEW r,
             reqs_to_process' = [reqs_to_process EXCEPT ![w] = @ \ {r}],
             reqs_to_send' = [reqs_to_send EXCEPT ![w] = {e \in @ : e.req # r}]
      PROVE  TimersInv'
  <2>1. /\ \A v \in Ranks : reqs_to_send'[v] \subseteq reqs_to_send[v]
        /\ \A v \in Ranks : \A e \in reqs_to_send'[v] :
              e.req \in reqs_to_process[v] => e.req \in reqs_to_process'[v]
    BY <1>3 DEF TypeOK
  <2> QED
    BY <1>1, <2>1, RemovedTimers
<1> QED
  BY <1>2, <1>3 DEF HandleNotif, CountNotif

LEMMA ExpireTimers ==
  ASSUME TypeOK, TypeOK', TimersInv, NEW w \in Ranks, ExpireAndReturn(w)
  PROVE  TimersInv'
<1> USE DEF schedVars, envVars, histVars
<1>1. /\ UNCHANGED <<status, reqs_need_send, reqs_not_processed, inflight>>
      /\ UNCHANGED <<finishes, now>>
  BY DEF ExpireAndReturn
<1>2. /\ reqs_to_process' = [reqs_to_process EXCEPT ![w] = @ \ Ids(ExpiredPrefix(w))]
      /\ reqs_to_send' = [reqs_to_send EXCEPT ![w] = @ \ ExpiredPrefix(w)]
  BY DEF ExpireAndReturn
<1>3. \A e \in reqs_to_send[w] : e.req \in Ids(ExpiredPrefix(w)) => e \in ExpiredPrefix(w)
  <2>1. ExpiredPrefix(w) \subseteq reqs_to_send[w] /\ reqs_to_send[w] \subseteq Entries
    BY DEF ExpiredPrefix, Entries
  <2>2. \A e, f \in reqs_to_send[w] : e.req = f.req => e = f
    BY <2>1 DEF TimersInv, EntriesInv
  <2> QED
    BY <2>1, <2>2 DEF Ids
<1>4. /\ \A v \in Ranks : reqs_to_send'[v] \subseteq reqs_to_send[v]
      /\ \A v \in Ranks : \A e \in reqs_to_send'[v] :
            e.req \in reqs_to_process[v] => e.req \in reqs_to_process'[v]
  BY <1>2, <1>3 DEF TypeOK
<1> QED
  BY <1>1, <1>4, RemovedTimers

LEMMA TimersNext ==
  ASSUME TypeOK, TypeOK', TimersInv, [Next]_vars
  PROVE  TimersInv'
<1> USE DEF schedVars, workerVars, envVars, histVars
<1>1. ASSUME NEW w \in Ranks, NEW r \in Reqs, NEW d \in Readers, ReadDone(w, r, d)
      PROVE  TimersInv'
  BY <1>1, RemovedTimers DEF ReadDone
<1>2. CASE Tick
  <2>1. Entries' = Entries /\ AbortsAhead' = AbortsAhead /\ TimersTracked'
    BY <1>2 DEF Tick, Entries, AbortsAhead, TimersInv, TimersTracked, Ids
  <2>2. now <= now' /\ finishes <= finishes' /\ status' = status
    BY <1>2 DEF Tick, TypeOK
  <2> QED
    BY <2>1, <2>2, EntriesKept DEF TimersInv, Finished
<1>3. CASE UNCHANGED vars
  BY <1>3, RemovedTimers DEF vars
<1> QED
  BY <1>1, <1>2, <1>3, ScheduleTimers, AbortTimers, UpdateTimers, StartLoadKVTimers,
     HandleNotifTimers, ExpireTimers
  DEF Next

\* A request has at most one expiry entry, wherever it is on its way; entries
\* expire in the order of the dict, and an aborted request never has one.
THEOREM TimersInvariant == Spec => []TimersInv
<1>1. Init => TimersInv
  BY DEF Init, TimersInv, EntriesInv, AbortsInv, TimersTracked, Entries, AbortsAhead,
         Ids
<1>2. TypeOK /\ TypeOK' /\ TimersInv /\ [Next]_vars => TimersInv'
  BY TimersNext
<1> QED
  BY <1>1, <1>2, TypeCorrect, PTL DEF Spec

-----------------------------------------------------------------------------
(* What the timers' invariant shows *)

\* _reqs_to_process.remove finds its request in both release paths: a request
\* with an expiry timer is tracked, whether or not requests share a UUID.
THEOREM TimersAreTracked == Spec => []TimersTracked
<1>1. TimersInv => TimersTracked
  BY DEF TimersInv
<1> QED
  BY <1>1, TimersInvariant, PTL

\* "We should never get an abort after setting an expiry timer": the assertion
\* of start_load_kv never fails.
THEOREM NoAbortOfTimer == Spec => []NoAbortAfterTimer
<1>1. TypeOK /\ TimersInv => NoAbortAfterTimer
  <2> SUFFICES ASSUME TypeOK, TimersInv, NEW w \in Ranks,
                      Len(outputs[w]) < Len(inflight)
               PROVE  NextMeta(w).not_processed \intersect Ids(reqs_to_send[w]) = {}
    BY DEF NoAbortAfterTimer
  <2>1. NextMeta(w).not_processed \subseteq AbortsAhead
    BY NextMetaType DEF NextMeta, AbortsAhead
  <2>2. reqs_to_send[w] \subseteq Entries
    BY DEF Entries
  <2> QED
    BY <2>1, <2>2 DEF TimersInv, AbortsInv, Ids
<1> QED
  BY <1>1, TypeCorrect, TimersInvariant, PTL

\* The loop of get_finished that stops at the first entry that has not expired
\* skips nothing: it leaves no entry whose time has come.
LEMMA PrefixIsAll ==
  ASSUME TypeOK, TimersInv, NEW w \in Ranks,
         NEW e \in reqs_to_send[w] \ ExpiredPrefix(w)
  PROVE  e.expires > now
<1>1. PICK f \in reqs_to_send[w] : f.pos <= e.pos /\ ~(f.expires <= now)
  BY DEF ExpiredPrefix
<1>2. e \in Entries /\ f \in Entries
  BY DEF Entries
<1>3. f.expires <= e.expires
  BY <1>1, <1>2 DEF TimersInv, EntriesInv
<1>4. e.expires \in Nat /\ f.expires \in Nat /\ now \in Nat
  BY <1>2, EntriesType DEF Entry, TypeOK
<1> QED
  BY <1>1, <1>3, <1>4

\* When get_finished returns, no timer of the rank is overdue, however many
\* requests ended in one step and however many steps were in flight.
THEOREM NoTimerOverdue == Spec => NoOverdueTimer
<1> DEFINE Settled == \A w \in Ranks : pc[w] = "notifs" /\ pc'[w] = "load" =>
                         \A e \in reqs_to_send'[w] : e.expires > now
<1>1. TypeOK /\ TimersInv /\ [Next]_vars => Settled \/ UNCHANGED vars
  <2> SUFFICES ASSUME TypeOK, TimersInv, [Next]_vars,
                      NEW w \in Ranks, pc[w] = "notifs", pc'[w] = "load",
                      NEW e \in reqs_to_send'[w]
               PROVE  e.expires > now
    OBVIOUS
  <2>1. ASSUME NEW v \in Ranks, ExpireAndReturn(v) PROVE v = w
    BY <2>1 DEF ExpireAndReturn, TypeOK
  <2>2. ASSUME NEW v \in Ranks, StartLoadKV(v) PROVE FALSE
    BY <2>2 DEF StartLoadKV, TypeOK
  <2>3. pc' # pc
    OBVIOUS
  <2>4. ExpireAndReturn(w)
    BY <2>1, <2>2, <2>3
    DEF Next, Schedule, Abort, UpdateFromOutput, HandleNotif, ReadDone, Tick,
        workerVars, vars
  <2>5. reqs_to_send'[w] = reqs_to_send[w] \ ExpiredPrefix(w)
    BY <2>4 DEF ExpireAndReturn, TypeOK
  <2> QED
    BY <2>5, PrefixIsAll
<1> QED
  BY <1>1, TypeCorrect, TimersInvariant, PTL DEF Spec, NoOverdueTimer

-----------------------------------------------------------------------------
(* A rank reports a request once *)

\* Once a request has finished, no metadata that a rank has yet to load names
\* it as part of a batch: nothing would track it again.
NoLateBatch ==
  \A w \in Ranks, r \in Reqs :
     Finished(r) => \A i \in 1..Len(inflight) :
                       i > Len(outputs[w]) => r \notin inflight[i].in_batch

ReportsInv == NoLateBatch /\ ReleasedForgotten /\ ReportedOnce

\* Reports stay the same, and no rank starts to track or count again.
LEMMA ReportsSame ==
  ASSUME ReleasedForgotten, ReportedOnce,
         UNCHANGED <<acked, done_sending, outputs>>,
         \A w \in Ranks, r \in Reqs :
            Reported(w, r) /\ r \notin Tracked(w) => r \notin Tracked(w)',
         \A w \in Ranks, r \in Reqs :
            Reported(w, r) /\ r \notin Tracked(w) => counted'[w][r] = counted[w][r]
  PROVE  ReleasedForgotten' /\ ReportedOnce'
<1>1. \A w \in Ranks, r \in Reqs : Reported(w, r)' <=> Reported(w, r)
  BY DEF Reported
<1>2. ReleasedForgotten'
  BY <1>1 DEF ReleasedForgotten
<1>3. ReportedOnce'
  BY DEF ReportedOnce
<1> QED
  BY <1>2, <1>3

\* A worker lets go of the requests of X, which it tracked, and reports them.
LEMMA ReportsNew ==
  ASSUME TypeOK, TypeOK', ReleasedForgotten, ReportedOnce, NEW w \in Ranks,
         NEW X \in SUBSET Tracked(w),
         UNCHANGED acked,
         \A v \in Ranks \ {w} :
            /\ done_sending'[v] = done_sending[v] /\ outputs'[v] = outputs[v]
            /\ Tracked(v)' = Tracked(v) /\ counted'[v] = counted[v],
         \/ outputs'[w] = outputs[w] /\ done_sending'[w] = done_sending[w] \union X
         \/ /\ outputs'[w] = Append(outputs[w], done_sending[w] \union X)
            /\ done_sending'[w] = {},
         Tracked(w)' \subseteq Tracked(w) \ X,
         \A r \in Reqs : counted'[w][r] = IF r \in X THEN {} ELSE counted[w][r]
  PROVE  ReleasedForgotten' /\ ReportedOnce'
<1>1. \A r \in X : r \in Reqs /\ ~Reported(w, r)
  BY DEF ReleasedForgotten, Tracked, Ids, Entry, TypeOK
<1>2. outputs[w] \in Seq(SUBSET Reqs) /\ Len(outputs[w]) \in Nat
  BY LenProperties DEF TypeOK
<1> DEFINE last == done_sending[w] \union X
<1>3. CASE outputs'[w] = outputs[w] /\ done_sending'[w] = last
  <2>1. \A r \in Reqs : Reported(w, r)' => Reported(w, r) \/ r \in X
    BY <1>3 DEF Reported
  <2>2. \A v \in Ranks \ {w}, r \in Reqs : Reported(v, r)' => Reported(v, r)
    BY DEF Reported
  <2>3. ReleasedForgotten'
    BY <2>1, <2>2 DEF ReleasedForgotten
  <2>4. ReportedOnce'
    BY <1>1, <1>3 DEF ReportedOnce, Reported
  <2> QED
    BY <2>3, <2>4
<1>4. CASE outputs'[w] = Append(outputs[w], last) /\ done_sending'[w] = {}
  <2>1. /\ Len(outputs'[w]) = Len(outputs[w]) + 1
        /\ outputs'[w][Len(outputs[w]) + 1] = last
        /\ \A i \in 1..Len(outputs[w]) : outputs'[w][i] = outputs[w][i]
    BY <1>2, <1>4
  <2> HIDE DEF last
  <2>2. \A i \in 1..Len(outputs'[w]) :
           i \in 1..Len(outputs[w]) \/ i = Len(outputs[w]) + 1
    BY <1>2, <2>1
  <2>3. \A r \in Reqs : Reported(w, r)' => Reported(w, r) \/ r \in X
    BY <1>4, <2>1, <2>2 DEF Reported, last
  <2>4. \A v \in Ranks \ {w}, r \in Reqs : Reported(v, r)' => Reported(v, r)
    BY DEF Reported
  <2>5. ReleasedForgotten'
    BY <2>3, <2>4 DEF ReleasedForgotten
  <2>6. ASSUME NEW r \in Reqs, r \in last
        PROVE  /\ \A i \in 1..Len(outputs[w]) : r \notin outputs[w][i]
               /\ w \notin acked[r]
    BY <1>1, <2>6 DEF ReportedOnce, Reported, last
  <2>7. ReportedOnce'
    <3> SUFFICES ASSUME NEW v \in Ranks, NEW r \in Reqs
                 PROVE  ReportedOnce!(v, r)'
      BY DEF ReportedOnce
    <3>1. CASE v # w
      BY <3>1 DEF ReportedOnce
    <3>2. CASE v = w
      <4>1. w \in acked'[r] => /\ r \notin done_sending'[w]
                               /\ \A i \in 1..Len(outputs'[w]) : r \notin outputs'[w][i]
        BY <1>4, <2>1, <2>2, <2>6 DEF ReportedOnce
      <4>2. \A i, j \in 1..Len(outputs'[w]) :
               i # j => r \notin outputs'[w][i] \intersect outputs'[w][j]
        BY <2>1, <2>2, <2>6 DEF ReportedOnce
      <4> QED
        BY <1>4, <3>2, <4>1, <4>2
    <3> QED
      BY <3>1, <3>2
  <2> QED
    BY <2>5, <2>7
<1> QED
  BY <1>3, <1>4

LEMMA ScheduleReports ==
  ASSUME TypeOK, TypeOK', ReportsInv, NEW S \in SUBSET Reqs, Schedule(S)
  PROVE  ReportsInv'
<1> USE DEF workerVars, envVars, histVars
<1> DEFINE m == [in_batch |-> S, not_processed |-> reqs_not_processed,
                 to_send |-> reqs_need_send]
<1>1. /\ inflight \in Seq(Meta) /\ Len(inflight) \in Nat
      /\ inflight' = Append(inflight, m) /\ Len(inflight') = Len(inflight) + 1
  BY DEF TypeOK, Schedule
<1>2. \A r \in Reqs : Finished(r)' => Finished(r) /\ r \notin S
  BY DEF Schedule, Finished, TypeOK
<1>3. NoLateBatch'
  <2> SUFFICES ASSUME NEW w \in Ranks, NEW r \in Reqs, Finished(r)',
                      NEW i \in 1..Len(inflight'), i > Len(outputs'[w])
               PROVE  r \notin inflight'[i].in_batch
    BY DEF NoLateBatch
  <2>1. CASE i \in 1..Len(inflight)
    <3>1. inflight'[i] = inflight[i] /\ outputs'[w] = outputs[w]
      BY <1>1, <2>1 DEF Schedule
    <3> QED
      BY <1>2, <2>1, <3>1 DEF ReportsInv, NoLateBatch
  <2>2. CASE i = Len(inflight) + 1
    <3>1. inflight'[i].in_batch = S
      BY <1>1, <2>2
    <3> QED
      BY <1>2, <3>1
  <2> QED
    BY <1>1, <2>1, <2>2
<1>4. ReleasedForgotten' /\ ReportedOnce'
  <2>1. UNCHANGED <<acked, done_sending, outputs, counted, reqs_to_send>>
        /\ UNCHANGED reqs_to_process
    BY DEF Schedule
  <2> QED
    BY <2>1, ReportsSame DEF ReportsInv, Tracked, Ids
<1> QED
  BY <1>3, <1>4 DEF ReportsInv

LEMMA UpdateOnce ==
  ASSUME TypeOK, TypeOK', LeaseInv, ReportsInv, NEW F \in SUBSET Reqs,
         UpdateFromOutput(F)
  PROVE  ReportsInv'
<1> USE DEF envVars
<1>1. /\ UNCHANGED <<reqs_to_process, reqs_to_send, counted, done_sending>>
      /\ inflight' = Tail(inflight) /\ inflight # <<>>
      /\ \A w \in Ranks : outputs'[w] = Tail(outputs[w]) /\ outputs[w] # <<>>
      /\ \A r \in Reqs : acked'[r] = acked[r] \union {w \in Ranks : r \in Head(outputs[w])}
  BY DEF UpdateFromOutput
<1>2. ASSUME NEW w \in Ranks
      PROVE  /\ Len(outputs[w]) \in Nat \ {0} /\ Len(outputs'[w]) = Len(outputs[w]) - 1
             /\ Head(outputs[w]) = outputs[w][1]
             /\ \A i \in 1..Len(outputs'[w]) : /\ i + 1 \in 1..Len(outputs[w])
                                               /\ outputs'[w][i] = outputs[w][i + 1]
  <2>1. outputs[w] \in Seq(SUBSET Reqs)
    BY DEF TypeOK
  <2>2. Len(outputs[w]) \in Nat \ {0} /\ Len(outputs'[w]) = Len(outputs[w]) - 1
    BY <1>1, <2>1, HeadTailProperties, LenProperties, EmptySeq
  <2>3. \A i \in 1..Len(outputs'[w]) : outputs'[w][i] = outputs[w][i + 1]
    BY <1>1, <2>1, HeadTailProperties
  <2>4. \A i \in 1..Len(outputs'[w]) : i + 1 \in 1..Len(outputs[w])
    BY <2>2
  <2> QED
    BY <1>1, <2>1, <2>2, <2>3, <2>4
<1>3. /\ Len(inflight) \in Nat /\ Len(inflight') = Len(inflight) - 1
      /\ \A i \in 1..Len(inflight') : inflight'[i] = inflight[i + 1]
  <2>1. inflight \in Seq(Meta)
    BY DEF TypeOK
  <2> QED
    BY <1>1, <2>1, HeadTailProperties, LenProperties
<1>4. \A w \in Ranks, r \in Reqs : Reported(w, r)' => Reported(w, r)
  BY UpdateReports
<1>5. \A r \in Reqs : Finished(r)' => Finished(r) \/ r \in F
  <2> SUFFICES ASSUME NEW r \in Reqs, Finished(r)', r \notin F PROVE Finished(r)
    OBVIOUS
  <2>1. status'[r] = status[r] \/ acked'[r] = Ranks
    BY DEF UpdateFromOutput
  <2>2. CASE acked'[r] = Ranks
    <3>1. PICK w \in Ranks : w \in acked'[r]
      BY <2>2, ProducerAssumption
    <3>2. Reported(w, r)
      BY <1>4, <3>1 DEF Reported
    <3> QED
      BY <3>2 DEF LeaseInv, ReportsOK
  <2> QED
    BY <2>1, <2>2 DEF Finished
<1>6. NoLateBatch'
  <2> SUFFICES ASSUME NEW w \in Ranks, NEW r \in Reqs, Finished(r)',
                      NEW i \in 1..Len(inflight'), i > Len(outputs'[w])
               PROVE  r \notin inflight'[i].in_batch
    BY DEF NoLateBatch
  <2>1. /\ i + 1 \in 1..Len(inflight) /\ i + 1 \in 2..Len(inflight)
        /\ i + 1 > Len(outputs[w])
    BY <1>2, <1>3
  <2>2. CASE Finished(r)
    BY <1>3, <2>1, <2>2 DEF ReportsInv, NoLateBatch
  <2>3. CASE r \in F
    BY <1>3, <2>1, <2>3 DEF UpdateFromOutput, Finishable
  <2> QED
    BY <1>5, <2>2, <2>3
<1>7. ReleasedForgotten'
  BY <1>1, <1>4 DEF ReportsInv, ReleasedForgotten, Tracked, Ids
<1>8. ReportedOnce'
  <2> SUFFICES ASSUME NEW w \in Ranks, NEW r \in Reqs
               PROVE  ReportedOnce!(w, r)'
    BY DEF ReportedOnce
  <2>1. /\ w \in acked[r] => /\ r \notin done_sending[w]
                             /\ \A i \in 1..Len(outputs[w]) : r \notin outputs[w][i]
        /\ r \in done_sending[w] => \A i \in 1..Len(outputs[w]) : r \notin outputs[w][i]
        /\ \A i, j \in 1..Len(outputs[w]) :
              i # j => ~(r \in outputs[w][i] /\ r \in outputs[w][j])
    BY DEF ReportsInv, ReportedOnce
  <2>2. w \in acked'[r] => w \in acked[r] \/ r \in outputs[w][1]
    BY <1>1, <1>2
  <2>3. 1 \in 1..Len(outputs[w])
    BY <1>2
  <2>4. ASSUME w \in acked'[r]
        PROVE  /\ r \notin done_sending'[w]
               /\ \A i \in 1..Len(outputs'[w]) : r \notin outputs'[w][i]
    <3>1. ASSUME NEW i \in 1..Len(outputs'[w])
          PROVE  /\ i + 1 \in 1..Len(outputs[w]) /\ i + 1 # 1
                 /\ outputs'[w][i] = outputs[w][i + 1]
      BY <1>2
    <3>2. r \notin done_sending[w]
      BY <2>1, <2>2, <2>3, <2>4
    <3> QED
      BY <1>1, <2>1, <2>2, <2>3, <2>4, <3>1, <3>2
  <2>5. ASSUME r \in done_sending'[w], NEW i \in 1..Len(outputs'[w])
        PROVE  r \notin outputs'[w][i]
    <3>1. i + 1 \in 1..Len(outputs[w]) /\ outputs'[w][i] = outputs[w][i + 1]
      BY <1>2
    <3> QED
      BY <1>1, <2>1, <2>5, <3>1
  <2>6. ASSUME NEW i \in 1..Len(outputs'[w]), NEW j \in 1..Len(outputs'[w]), i # j
        PROVE  r \notin outputs'[w][i] \intersect outputs'[w][j]
    <3>1. i + 1 # j + 1
      BY <2>6
    <3>2. /\ i + 1 \in 1..Len(outputs[w]) /\ outputs'[w][i] = outputs[w][i + 1]
          /\ j + 1 \in 1..Len(outputs[w]) /\ outputs'[w][j] = outputs[w][j + 1]
      BY <1>2
    <3> QED
      BY <2>1, <3>1, <3>2
  <2> QED
    BY <2>4, <2>5, <2>6
<1> QED
  BY <1>6, <1>7, <1>8 DEF ReportsInv

LEMMA StartLoadKVReports ==
  ASSUME TypeOK, TypeOK', LeaseInv, ReportsInv, NEW w \in Ranks, StartLoadKV(w)
  PROVE  ReportsInv'
<1> USE DEF schedVars, envVars, histVars
<1> DEFINE m == NextMeta(w)
           process == (reqs_to_process[w] \union m.in_batch) \ m.not_processed
<1>1. UNCHANGED <<status, acked, done_sending, outputs, inflight, counted>>
  BY DEF StartLoadKV
<1>2. ASSUME NEW r \in Reqs, Reported(w, r) PROVE r \notin m.in_batch
  <2>1. Finished(r)
    BY <1>2 DEF LeaseInv, ReportsOK
  <2>2. /\ Len(outputs[w]) + 1 \in 1..Len(inflight)
        /\ Len(outputs[w]) + 1 > Len(outputs[w])
    BY NextMetaType DEF StartLoadKV, TypeOK
  <2> QED
    BY <2>1, <2>2 DEF NextMeta, ReportsInv, NoLateBatch
<1>3. /\ reqs_to_process'[w] = process
      /\ reqs_to_send'[w] = reqs_to_send[w] \union {e \in m.to_send : e.req \in process}
      /\ \A v \in Ranks \ {w} : /\ reqs_to_process'[v] = reqs_to_process[v]
                                /\ reqs_to_send'[v] = reqs_to_send[v]
  BY DEF StartLoadKV, TypeOK
<1> HIDE DEF m
<1>4. \A v \in Ranks, r \in Reqs :
         Reported(v, r) /\ r \notin Tracked(v) => r \notin Tracked(v)'
  BY <1>2, <1>3 DEF Tracked, Ids
<1>5. ReleasedForgotten' /\ ReportedOnce'
  BY <1>1, <1>4, ReportsSame DEF ReportsInv
<1>6. NoLateBatch'
  BY <1>1 DEF ReportsInv, NoLateBatch, Finished
<1> QED
  BY <1>5, <1>6 DEF ReportsInv

LEMMA HandleNotifReports ==
  ASSUME TypeOK, TypeOK', ReportsInv, NEW w \in Ranks, NEW n \in Notif,
         HandleNotif(w, n)
  PROVE  ReportsInv'
<1> USE DEF schedVars, envVars, histVars
<1>1. UNCHANGED <<status, acked, outputs, inflight>>
  BY DEF HandleNotif
<1>2. NoLateBatch'
  BY <1>1 DEF ReportsInv, NoLateBatch, Finished
<1>3. CASE UNCHANGED <<counted, reqs_to_process, reqs_to_send, done_sending>>
  <2>1. ReleasedForgotten' /\ ReportedOnce'
    BY <1>1, <1>3, ReportsSame DEF ReportsInv, Tracked, Ids
  <2> QED
    BY <1>2, <2>1 DEF ReportsInv
<1>4. ASSUME NEW r \in Target(w, n), CountNotif(w, r, n)
      PROVE  ReportsInv'
  <2>1. r \in Tracked(w) /\ r \in Reqs
    BY DEF Target, ResolveFreeNotif, Tracked, Ids, TypeOK, Entry
  <2>2. ASSUME UNCHANGED <<reqs_to_process, reqs_to_send, done_sending>>,
               NEW seen, counted' = [counted EXCEPT ![w][r] = seen]
        PROVE  ReportsInv'
    <3>1. \A v \in Ranks, q \in Reqs :
             q \notin Tracked(v) => counted'[v][q] = counted[v][q]
      BY <2>1, <2>2 DEF TypeOK
    <3>2. ReleasedForgotten' /\ ReportedOnce'
      BY <1>1, <2>2, <3>1, ReportsSame DEF ReportsInv, Tracked, Ids
    <3> QED
      BY <1>2, <3>2 DEF ReportsInv
  <2>3. ASSUME counted' = [counted EXCEPT ![w][r] = {}],
               reqs_to_process' = [reqs_to_process EXCEPT ![w] = @ \ {r}],
               reqs_to_send' = [reqs_to_send EXCEPT ![w] = {e \in @ : e.req # r}],
               done_sending' = [done_sending EXCEPT ![w] = @ \union {r}]
        PROVE  ReportsInv'
    <3>1. /\ \A v \in Ranks \ {w} :
                /\ done_sending'[v] = done_sending[v] /\ outputs'[v] = outputs[v]
                /\ Tracked(v)' = Tracked(v) /\ counted'[v] = counted[v]
          /\ outputs'[w] = outputs[w] /\ done_sending'[w] = done_sending[w] \union {r}
      BY <1>1, <2>3 DEF TypeOK, Tracked, Ids
    <3>2. Tracked(w)' \subseteq Tracked(w) \ {r}
      BY <2>3 DEF TypeOK, Tracked, Ids
    <3>3. \A q \in Reqs : counted'[w][q] = IF q \in {r} THEN {} ELSE counted[w][q]
      BY <2>1, <2>3 DEF TypeOK
    <3>4. ReleasedForgotten' /\ ReportedOnce'
      <4> DEFINE X == {r}
      <4>1. X \in SUBSET Tracked(w)
        BY <2>1
      <4>2. /\ done_sending'[w] = done_sending[w] \union X
            /\ Tracked(w)' \subseteq Tracked(w) \ X
            /\ \A q \in Reqs : counted'[w][q] = IF q \in X THEN {} ELSE counted[w][q]
        BY <3>1, <3>2, <3>3
      <4> HIDE DEF X
      <4> QED
        BY <1>1, <3>1, <4>1, <4>2, ReportsNew DEF ReportsInv
    <3> QED
      BY <1>2, <3>4 DEF ReportsInv
  <2> QED
    BY <1>4, <2>2, <2>3 DEF CountNotif
<1> QED
  BY <1>3, <1>4 DEF HandleNotif

LEMMA ExpireReports ==
  ASSUME TypeOK, TypeOK', TimersInv, ReportsInv, NEW w \in Ranks, ExpireAndReturn(w)
  PROVE  ReportsInv'
<1> USE DEF schedVars, envVars, histVars
<1> DEFINE X == Ids(ExpiredPrefix(w))
<1>1. /\ UNCHANGED <<status, acked, inflight>>
      /\ outputs' = [outputs EXCEPT ![w] = Append(@, done_sending[w] \union X)]
      /\ done_sending' = [done_sending EXCEPT ![w] = {}]
      /\ counted' = [counted EXCEPT ![w] = [r \in Reqs |-> IF r \in X THEN {} ELSE @[r]]]
      /\ reqs_to_process' = [reqs_to_process EXCEPT ![w] = @ \ X]
      /\ reqs_to_send' = [reqs_to_send EXCEPT ![w] = @ \ ExpiredPrefix(w)]
  BY DEF ExpireAndReturn
<1>2. X \subseteq Tracked(w)
  BY DEF ExpiredPrefix, Tracked, Ids
<1>3. \A e \in reqs_to_send'[w] : e.req \notin X
  <2>1. /\ ExpiredPrefix(w) \subseteq reqs_to_send[w] /\ reqs_to_send[w] \subseteq Entries
        /\ reqs_to_send'[w] = reqs_to_send[w] \ ExpiredPrefix(w)
    BY <1>1 DEF ExpiredPrefix, Entries, TypeOK
  <2>2. \A e, f \in reqs_to_send[w] : e.req = f.req => e = f
    BY <2>1 DEF TimersInv, EntriesInv
  <2> QED
    BY <2>1, <2>2 DEF Ids
<1> HIDE DEF X
<1>4. Tracked(w)' \subseteq Tracked(w) \ X
  BY <1>1, <1>3 DEF Tracked, Ids, TypeOK
<1>5. /\ \A v \in Ranks \ {w} :
            /\ done_sending'[v] = done_sending[v] /\ outputs'[v] = outputs[v]
            /\ Tracked(v)' = Tracked(v) /\ counted'[v] = counted[v]
      /\ outputs'[w] = Append(outputs[w], done_sending[w] \union X)
      /\ done_sending'[w] = {}
      /\ \A r \in Reqs : counted'[w][r] = IF r \in X THEN {} ELSE counted[w][r]
  BY <1>1 DEF TypeOK, Tracked, Ids
<1>6. ReleasedForgotten' /\ ReportedOnce'
  BY <1>1, <1>2, <1>4, <1>5, ReportsNew DEF ReportsInv
<1>7. \A v \in Ranks : /\ Len(outputs[v]) \in Nat /\ Len(outputs'[v]) \in Nat
                       /\ Len(outputs[v]) <= Len(outputs'[v])
  <2>1. \A v \in Ranks : outputs[v] \in Seq(SUBSET Reqs)
    BY DEF TypeOK
  <2>2. Len(outputs'[w]) = Len(outputs[w]) + 1
    BY <1>5, <2>1
  <2> QED
    BY <1>5, <2>1, <2>2, LenProperties
<1>8. NoLateBatch'
  <2> SUFFICES ASSUME NEW v \in Ranks, NEW r \in Reqs, Finished(r),
                      NEW i \in 1..Len(inflight), i > Len(outputs'[v])
               PROVE  r \notin inflight[i].in_batch
    BY <1>1 DEF NoLateBatch, Finished
  <2>1. i > Len(outputs[v])
    BY <1>7
  <2> QED
    BY <2>1 DEF ReportsInv, NoLateBatch
<1> QED
  BY <1>6, <1>8 DEF ReportsInv

LEMMA ReportsNext ==
  ASSUME TypeOK, TypeOK', LeaseInv, TimersInv, ReportsInv, [Next]_vars
  PROVE  ReportsInv'
<1> USE DEF schedVars, workerVars, envVars, histVars
<1>1. ASSUME NEW a \in Reqs, Abort(a) PROVE ReportsInv'
  <2>1. UNCHANGED <<acked, inflight, outputs, done_sending, counted, reqs_to_send>>
        /\ UNCHANGED reqs_to_process
    BY <1>1 DEF Abort
  <2>2. \A r \in Reqs : Finished(r)' => Finished(r)
    BY <1>1 DEF Abort, Finished, TypeOK
  <2>3. NoLateBatch'
    BY <2>1, <2>2 DEF ReportsInv, NoLateBatch
  <2>4. ReleasedForgotten' /\ ReportedOnce'
    BY <2>1, ReportsSame DEF ReportsInv, Tracked, Ids
  <2> QED
    BY <2>3, <2>4 DEF ReportsInv
<1>2. CASE /\ UNCHANGED <<status, acked, inflight, outputs, done_sending, counted>>
           /\ UNCHANGED <<reqs_to_send, reqs_to_process>>
  <2>1. NoLateBatch'
    BY <1>2 DEF ReportsInv, NoLateBatch, Finished
  <2>2. ReleasedForgotten' /\ ReportedOnce'
    BY <1>2, ReportsSame DEF ReportsInv, Tracked, Ids
  <2> QED
    BY <2>1, <2>2 DEF ReportsInv
<1>3. ASSUME NEW w \in Ranks, NEW r \in Reqs, NEW d \in Readers, ReadDone(w, r, d)
      PROVE  ReportsInv'
  BY <1>2, <1>3 DEF ReadDone
<1>4. CASE Tick \/ UNCHANGED vars
  BY <1>2, <1>4 DEF Tick, vars
<1> QED
  BY <1>1, <1>3, <1>4, ScheduleReports, UpdateOnce, StartLoadKVReports,
     HandleNotifReports, ExpireReports
  DEF Next

\* If no two requests share a UUID, a rank never takes up again what it has
\* reported: the invariant that every step preserves.
THEOREM ReportsInvariant == UuidsUnique => (Spec => []ReportsInv)
<1> SUFFICES ASSUME UuidsUnique PROVE Spec => []ReportsInv
  OBVIOUS
<1>1. Init => ReportsInv
  BY DEF Init, ReportsInv, NoLateBatch, ReleasedForgotten, ReportedOnce, Reported
<1>2. TypeOK /\ TypeOK' /\ LeaseInv /\ TimersInv /\ ReportsInv /\ [Next]_vars
      => ReportsInv'
  BY ReportsNext
<1> QED
  BY <1>1, <1>2, TypeCorrect, LeaseInvariant, TimersInvariant, PTL DEF Spec

\* If no two requests share a UUID, a rank names a request once in all its
\* outputs: the engine, which counts reports, never takes a second one of one
\* rank for the first of another.
THEOREM ReportsOnce == UuidsUnique => (Spec => []ReportedOnce)
<1>1. ReportsInv => ReportedOnce
  BY DEF ReportsInv
<1> QED
  BY <1>1, ReportsInvariant, PTL

\* If no two requests share a UUID, no late metadata starts a timer and no late
\* notification starts a count for a request that a rank has reported.
THEOREM ReleasedStays == UuidsUnique => (Spec => []ReleasedForgotten)
<1>1. ReportsInv => ReleasedForgotten
  BY DEF ReportsInv
<1> QED
  BY <1>1, ReportsInvariant, PTL
=============================================================================
