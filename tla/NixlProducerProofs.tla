------------------------- MODULE NixlProducerProofs -------------------------
(***************************************************************************)
(* Theorems about NixlProducer, for every set of requests, ranks and       *)
(* readers, every timeout and every number of steps in flight.             *)
(***************************************************************************)
EXTENDS NixlProducer, FiniteSetTheorems, SequenceTheorems, TLAPS

-----------------------------------------------------------------------------
(* Type correctness *)

\* The metadata a worker is about to load is one of those in flight.
LEMMA NextMetaType ==
  ASSUME TypeOK, NEW w \in Ranks, Len(outputs[w]) < Len(inflight)
  PROVE  /\ Len(outputs[w]) + 1 \in 1..Len(inflight)
         /\ NextMeta(w) \in Meta
<1>1. inflight \in Seq(Meta) /\ outputs[w] \in Seq(SUBSET Reqs)
  BY DEF TypeOK
<1>2. Len(outputs[w]) \in Nat /\ Len(inflight) \in Nat
  BY <1>1, LenProperties
<1>3. Len(outputs[w]) + 1 \in 1..Len(inflight)
  BY <1>2
<1> QED
  BY <1>1, <1>3, ElementOfSeq DEF NextMeta

\* The entries that a finish creates are entries.
LEMMA LeasedType ==
  ASSUME TypeOK, NEW F \in SUBSET Reqs
  PROVE  Leased(F) \in SUBSET Entry
BY ProducerAssumption DEF TypeOK, Leased, Entry

\* The state of every component keeps its type through every step.
THEOREM TypeCorrect == Spec => []TypeOK
<1>1. Init => TypeOK
  BY DEF Init, TypeOK, Status
<1>2. TypeOK /\ [Next]_vars => TypeOK'
  <2> SUFFICES ASSUME TypeOK, [Next]_vars PROVE TypeOK'
    OBVIOUS
  <2> USE DEF schedVars, workerVars, envVars, histVars
  <2>1. ASSUME NEW S \in SUBSET Reqs, Schedule(S) PROVE TypeOK'
    <3>1. [in_batch |-> S, not_processed |-> reqs_not_processed,
           to_send |-> reqs_need_send] \in Meta
      BY DEF TypeOK, Meta
    <3>2. inflight' \in Seq(Meta)
      BY <2>1, <3>1 DEF TypeOK, Schedule
    <3> QED
      BY <2>1, <3>2 DEF TypeOK, Schedule, Status
  <2>2. ASSUME NEW r \in Reqs, Abort(r) PROVE TypeOK'
    BY <2>2 DEF TypeOK, Abort, Status
  <2>3. ASSUME NEW F \in SUBSET Reqs, UpdateFromOutput(F) PROVE TypeOK'
    <3>1. inflight' \in Seq(Meta)
      BY <2>3, HeadTailProperties DEF TypeOK, UpdateFromOutput
    <3>2. outputs' \in [Ranks -> Seq(SUBSET Reqs)]
      BY <2>3, HeadTailProperties DEF TypeOK, UpdateFromOutput
    <3>3. reqs_need_send' \in SUBSET Entry
      BY <2>3, LeasedType DEF TypeOK, UpdateFromOutput
    <3>4. status' \in [Reqs -> Status]
      BY <2>3 DEF TypeOK, UpdateFromOutput, Status
    <3>5. acked' \in [Reqs -> SUBSET Ranks]
      BY <2>3 DEF TypeOK, UpdateFromOutput
    <3>6. lease' \in [Reqs -> Nat] /\ finishes' \in Nat
      BY <2>3, ProducerAssumption DEF TypeOK, UpdateFromOutput
    <3> QED
      BY <2>3, <3>1, <3>2, <3>3, <3>4, <3>5, <3>6 DEF TypeOK, UpdateFromOutput
  <2>4. ASSUME NEW w \in Ranks, StartLoadKV(w) PROVE TypeOK'
    <3>1. NextMeta(w) \in Meta
      BY <2>4, NextMetaType DEF StartLoadKV
    <3> QED
      BY <2>4, <3>1 DEF TypeOK, StartLoadKV, Meta
  <2>5. ASSUME NEW w \in Ranks, NEW n \in Notif, HandleNotif(w, n) PROVE TypeOK'
    <3>1. CASE Target(w, n) = {}
      BY <2>5, <3>1 DEF TypeOK, HandleNotif
    <3>2. ASSUME NEW r \in Target(w, n), CountNotif(w, r, n) PROVE TypeOK'
      <4>1. r \in Reqs
        BY DEF Target, ResolveFreeNotif, Tracked, Ids, TypeOK, Entry
      <4> DEFINE seen == counted[w][r] \union {n}
      <4>2. seen \in SUBSET Notif /\ counted[w] \in [Reqs -> SUBSET Notif]
        BY <4>1 DEF TypeOK
      <4>3. CASE Cardinality(seen) = Cardinality(Readers)
        <5>1. /\ counted' = [counted EXCEPT ![w][r] = {}]
              /\ reqs_to_process' = [reqs_to_process EXCEPT ![w] = @ \ {r}]
              /\ reqs_to_send' = [reqs_to_send EXCEPT
                                    ![w] = {e \in @ : e.req # r}]
              /\ done_sending' = [done_sending EXCEPT ![w] = @ \union {r}]
          BY <3>2, <4>3 DEF CountNotif
        <5> QED
          BY <2>5, <4>1, <4>2, <5>1 DEF TypeOK, HandleNotif
      <4>4. CASE Cardinality(seen) # Cardinality(Readers)
        <5>1. /\ counted' = [counted EXCEPT ![w][r] = seen]
              /\ UNCHANGED <<reqs_to_process, reqs_to_send, done_sending>>
          BY <3>2, <4>4 DEF CountNotif
        <5> QED
          BY <2>5, <4>1, <4>2, <5>1 DEF TypeOK, HandleNotif
      <4> QED
        BY <4>3, <4>4
    <3> QED
      BY <2>5, <3>1, <3>2 DEF HandleNotif
  <2>6. ASSUME NEW w \in Ranks, ExpireAndReturn(w) PROVE TypeOK'
    <3>1. Ids(ExpiredPrefix(w)) \subseteq Reqs
      BY DEF TypeOK, ExpiredPrefix, Ids, Entry
    <3>2. outputs' \in [Ranks -> Seq(SUBSET Reqs)]
      BY <2>6, <3>1 DEF TypeOK, ExpireAndReturn
    <3> QED
      BY <2>6, <3>1, <3>2 DEF TypeOK, ExpireAndReturn
  <2>7. ASSUME NEW w \in Ranks, NEW r \in Reqs, NEW d \in Readers,
               ReadDone(w, r, d)
        PROVE  TypeOK'
    BY <2>7 DEF TypeOK, ReadDone, Notif
  <2>8. CASE Tick
    BY <2>8 DEF TypeOK, Tick
  <2>9. CASE UNCHANGED vars
    BY <2>9 DEF TypeOK, vars
  <2> QED
    BY <2>1, <2>2, <2>3, <2>4, <2>5, <2>6, <2>7, <2>8, <2>9 DEF Next
<1> QED
  BY <1>1, <1>2, PTL DEF Spec

-----------------------------------------------------------------------------
(* A rank lets go of a request only with a reason *)

\* No two requests carry the same proxy UUID.
UuidsUnique == \A p, q \in Reqs : UuidOf[p] = UuidOf[q] => p = q

\* With unique UUIDs a notification counts for the request it was sent for.
LEMMA TargetIsOwn ==
  ASSUME TypeOK, UuidsUnique, NEW w \in Ranks, NEW n \in Notif,
         NEW r \in Target(w, n)
  PROVE  r \in Reqs /\ r = n[1]
<1>1. Tracked(w) \subseteq Reqs
  BY DEF TypeOK, Tracked, Ids, Entry
<1>2. n[1] \in Reqs
  BY DEF Notif
<1>3. CASE n[1] \in Tracked(w) /\ n[2] \notin Bare
  BY <1>1, <1>3 DEF Target
<1>4. CASE ~(n[1] \in Tracked(w) /\ n[2] \notin Bare)
  <2>1. r \in Tracked(w) /\ UuidOf[r] = UuidOf[n[1]]
    BY <1>4 DEF Target, ResolveFreeNotif
  <2> QED
    BY <1>1, <1>2, <2>1 DEF UuidsUnique
<1> QED
  BY <1>3, <1>4

\* As many notifications as there are readers, all of them for r, are the
\* notifications of all the readers.
LEMMA FullCount ==
  ASSUME NEW r, NEW seen \in SUBSET ({r} \X Readers),
         Cardinality(seen) = Cardinality(Readers)
  PROVE  seen = {r} \X Readers
<1>1. IsFiniteSet({r}) /\ Cardinality({r}) = 1
  BY FS_Singleton
<1>2. IsFiniteSet(Readers) /\ Cardinality(Readers) \in Nat
  BY ProducerAssumption, FS_CardinalityType
<1>3. /\ IsFiniteSet({r} \X Readers)
      /\ Cardinality({r} \X Readers) = 1 * Cardinality(Readers)
  BY <1>1, <1>2, FS_Product
<1>4. Cardinality({r} \X Readers) = Cardinality(seen)
  BY <1>2, <1>3
<1> QED
  BY <1>3, <1>4, FS_Subset

\* What a request's reports justify does not change while the request, its
\* lease and its readers' notifications stay, whatever the clock does.
LEMMA ReportsKept ==
  ASSUME TypeOK, TypeOK', ReportsOK,
         \A r \in Reqs : Finished(r) => Finished(r)' /\ lease'[r] = lease[r],
         \A w \in Ranks : notified[w] \subseteq notified'[w],
         now <= now',
         \A w \in Ranks, r \in Reqs : Reported(w, r)' => Reported(w, r)
  PROVE  ReportsOK'
<1> SUFFICES ASSUME NEW w \in Ranks, NEW r \in Reqs, Reported(w, r)'
             PROVE  Finished(r)' /\ MayRelease(w, r)'
  BY DEF ReportsOK
<1>1. Finished(r) /\ MayRelease(w, r)
  BY DEF ReportsOK
<1>2. Finished(r)' /\ lease'[r] = lease[r]
  BY <1>1
<1>3. CASE AllRead(w, r)
  BY <1>2, <1>3 DEF MayRelease, AllRead
<1>4. CASE now >= lease[r]
  BY <1>2, <1>4 DEF MayRelease, TypeOK
<1> QED
  BY <1>1, <1>3, <1>4 DEF MayRelease

LEMMA ScheduleInv ==
  ASSUME TypeOK, TypeOK', LeaseInv, NEW S \in SUBSET Reqs, Schedule(S)
  PROVE  LeaseInv'
<1> USE DEF workerVars, envVars, histVars
<1>1. \A r \in Reqs : (Finished(r) <=> Finished(r)')
                     /\ (status'[r] = "freed" <=> status[r] = "freed")
  BY DEF Schedule, Finished, TypeOK
<1>2. /\ UNCHANGED <<acked, lease, notified, inbox, now, counted, reqs_to_send>>
      /\ UNCHANGED <<done_sending, outputs>>
  BY DEF Schedule
<1>3. EntriesOK'
  <2> DEFINE m == [in_batch |-> S, not_processed |-> reqs_not_processed,
                   to_send |-> reqs_need_send]
  <2>1. \A e \in Entry : EntryOK(e) => EntryOK(e)'
    BY <1>1, <1>2 DEF EntryOK, Entry
  <2>2. \A i \in 1..Len(inflight') : \A e \in inflight'[i].to_send : EntryOK(e)'
    <3> SUFFICES ASSUME NEW i \in 1..Len(inflight'), NEW e \in inflight'[i].to_send
                 PROVE  EntryOK(e)'
      OBVIOUS
    <3>1. /\ inflight \in Seq(Meta) /\ Len(inflight) \in Nat
          /\ inflight' = Append(inflight, m) /\ Len(inflight') = Len(inflight) + 1
      BY DEF TypeOK, Schedule
    <3>2. CASE i \in 1..Len(inflight)
      <4>1. inflight'[i] = inflight[i] /\ inflight[i] \in Meta
        BY <3>1, <3>2
      <4> QED
        BY <2>1, <3>2, <4>1 DEF LeaseInv, EntriesOK, Meta
    <3>3. CASE i = Len(inflight) + 1
      <4>1. inflight'[i].to_send = reqs_need_send
        BY <3>1, <3>3
      <4> QED
        BY <2>1, <4>1 DEF LeaseInv, EntriesOK, TypeOK
    <3> QED
      BY <3>1, <3>2, <3>3
  <2>3. reqs_need_send' = {}
    BY DEF Schedule
  <2> QED
    BY <1>2, <2>1, <2>2, <2>3 DEF LeaseInv, EntriesOK, TypeOK
<1>4. NotifsOK'
  BY <1>1, <1>2 DEF LeaseInv, NotifsOK, TypeOK, Notif
<1>5. ReportsOK'
  <2>1. \A w \in Ranks, r \in Reqs : Reported(w, r)' => Reported(w, r)
    BY <1>2 DEF Reported
  <2> QED
    BY <1>1, <1>2, <2>1, ReportsKept DEF LeaseInv, TypeOK
<1>6. FreedOK'
  BY <1>1, <1>2 DEF LeaseInv, FreedOK
<1> QED
  BY <1>3, <1>4, <1>5, <1>6 DEF LeaseInv

LEMMA AbortInv ==
  ASSUME TypeOK, TypeOK', LeaseInv, NEW a \in Reqs, Abort(a)
  PROVE  LeaseInv'
<1> USE DEF workerVars, envVars, histVars
<1>1. \A r \in Reqs : (Finished(r) => Finished(r)')
                   /\ (status'[r] = "freed" => status[r] = "freed")
  BY DEF Abort, Finished, TypeOK
<1>2. /\ UNCHANGED <<acked, lease, notified, inbox, now, counted, reqs_to_send>>
      /\ UNCHANGED <<done_sending, outputs, reqs_need_send, inflight>>
  BY DEF Abort
<1>3. EntriesOK'
  <2>1. \A e \in Entry : EntryOK(e) => EntryOK(e)'
    BY <1>1, <1>2 DEF EntryOK, Entry
  <2>2. \A i \in 1..Len(inflight) : inflight[i].to_send \subseteq Entry
    <3>1. \A i \in 1..Len(inflight) : inflight[i] \in Meta
      BY ElementOfSeq DEF TypeOK
    <3> QED
      BY <3>1 DEF Meta
  <2> QED
    BY <1>2, <2>1, <2>2 DEF LeaseInv, EntriesOK, TypeOK
<1>4. NotifsOK'
  BY <1>1, <1>2 DEF LeaseInv, NotifsOK, TypeOK, Notif
<1>5. ReportsOK'
  <2>1. \A w \in Ranks, r \in Reqs : Reported(w, r)' => Reported(w, r)
    BY <1>2 DEF Reported
  <2>2. /\ \A r \in Reqs : Finished(r) => Finished(r)' /\ lease'[r] = lease[r]
        /\ \A w \in Ranks : notified[w] \subseteq notified'[w]
        /\ now <= now'
    BY <1>1, <1>2 DEF TypeOK
  <2> QED
    BY <2>1, <2>2, ReportsKept DEF LeaseInv
<1>6. FreedOK'
  BY <1>1, <1>2 DEF LeaseInv, FreedOK
<1> QED
  BY <1>3, <1>4, <1>5, <1>6 DEF LeaseInv

\* Consuming an output moves reports from the outputs to acked and makes none.
LEMMA UpdateReports ==
  ASSUME TypeOK, NEW F \in SUBSET Reqs, UpdateFromOutput(F),
         NEW w \in Ranks, NEW r \in Reqs, Reported(w, r)'
  PROVE  Reported(w, r)
<1>1. /\ outputs[w] \in Seq(SUBSET Reqs) /\ outputs[w] # <<>>
      /\ outputs'[w] = Tail(outputs[w]) /\ done_sending' = done_sending
      /\ acked'[r] = acked[r] \union {v \in Ranks : r \in Head(outputs[v])}
  BY DEF TypeOK, UpdateFromOutput
<1>2. CASE r \in done_sending'[w]
  BY <1>1, <1>2 DEF Reported
<1>3. ASSUME NEW i \in 1..Len(outputs'[w]), r \in outputs'[w][i]
      PROVE  Reported(w, r)
  <2>1. /\ Len(outputs[w]) \in Nat /\ Len(Tail(outputs[w])) = Len(outputs[w]) - 1
        /\ Tail(outputs[w])[i] = outputs[w][i + 1]
    BY <1>1, <1>3, HeadTailProperties, LenProperties
  <2>2. i + 1 \in 1..Len(outputs[w]) /\ r \in outputs[w][i + 1]
    BY <1>1, <1>3, <2>1
  <2> QED
    BY <2>2 DEF Reported
<1>4. CASE w \in acked'[r]
  <2>1. CASE w \in acked[r]
    BY <2>1 DEF Reported
  <2>2. CASE r \in Head(outputs[w])
    <3>1. 1 \in 1..Len(outputs[w]) /\ Head(outputs[w]) = outputs[w][1]
      BY <1>1
    <3> QED
      BY <2>2, <3>1 DEF Reported
  <2> QED
    BY <1>1, <1>4, <2>1, <2>2
<1> QED
  BY <1>2, <1>3, <1>4 DEF Reported

LEMMA UpdateInv ==
  ASSUME TypeOK, TypeOK', LeaseInv, NEW F \in SUBSET Reqs, UpdateFromOutput(F)
  PROVE  LeaseInv'
<1> USE DEF envVars
<1>1. /\ UNCHANGED <<notified, inbox, now, counted, reqs_to_send>>
      /\ inflight' = Tail(inflight) /\ inflight # <<>>
      /\ reqs_need_send' = reqs_need_send \union Leased(F)
  BY DEF UpdateFromOutput
<1>2. \A r \in F : /\ Finished(r)' /\ ~Finished(r) /\ status'[r] = "held"
                   /\ lease'[r] = now + Timeout
  BY DEF UpdateFromOutput, Finishable, Finished, TypeOK
<1>3. \A r \in Reqs \ F : (Finished(r) => Finished(r)') /\ lease'[r] = lease[r]
  BY DEF UpdateFromOutput, Finished, TypeOK
<1>4. \A r \in Reqs : Finished(r) => Finished(r)' /\ lease'[r] = lease[r]
  BY <1>2, <1>3
<1>5. EntriesOK'
  <2>1. \A e \in Entry : EntryOK(e) => EntryOK(e)'
    BY <1>4 DEF EntryOK, Entry
  <2>2. \A e \in Leased(F) : EntryOK(e)'
    BY <1>2 DEF Leased, EntryOK
  <2>3. \A i \in 1..Len(inflight') : \A e \in inflight'[i].to_send : EntryOK(e)'
    <3> SUFFICES ASSUME NEW i \in 1..Len(inflight'), NEW e \in inflight'[i].to_send
                 PROVE  EntryOK(e)'
      OBVIOUS
    <3>1. inflight \in Seq(Meta) /\ Len(inflight) \in Nat
      BY LenProperties DEF TypeOK
    <3>2. Len(inflight') = Len(inflight) - 1 /\ inflight'[i] = inflight[i + 1]
      BY <1>1, <3>1, HeadTailProperties
    <3>3. i + 1 \in 1..Len(inflight) /\ inflight[i + 1] \in Meta
      BY <3>1, <3>2, ElementOfSeq
    <3> QED
      BY <2>1, <3>2, <3>3 DEF LeaseInv, EntriesOK, Meta
  <2> QED
    BY <1>1, <2>1, <2>2, <2>3 DEF LeaseInv, EntriesOK, TypeOK
<1>6. NotifsOK'
  BY <1>1, <1>4 DEF LeaseInv, NotifsOK, TypeOK, Notif
<1>7. ReportsOK'
  <2>1. \A w \in Ranks, r \in Reqs : Reported(w, r)' => Reported(w, r)
    BY UpdateReports
  <2>2. /\ \A w \in Ranks : notified[w] \subseteq notified'[w]
        /\ now <= now'
    BY <1>1 DEF TypeOK
  <2> QED
    BY <1>4, <2>1, <2>2, ReportsKept DEF LeaseInv
<1>8. FreedOK'
  <2> SUFFICES ASSUME NEW r \in Reqs, status'[r] = "freed" PROVE acked'[r] = Ranks
    BY DEF FreedOK
  <2>1. r \notin F
    BY <1>2
  <2>2. acked'[r] = acked[r] \union {v \in Ranks : r \in Head(outputs[v])}
    BY DEF UpdateFromOutput
  <2>3. CASE status[r] = "freed"
    BY <2>2, <2>3 DEF LeaseInv, FreedOK
  <2>4. CASE status[r] # "freed"
    BY <2>1, <2>2, <2>4 DEF UpdateFromOutput
  <2> QED
    BY <2>3, <2>4
<1> QED
  BY <1>5, <1>6, <1>7, <1>8 DEF LeaseInv

LEMMA StartLoadKVInv ==
  ASSUME TypeOK, TypeOK', LeaseInv, NEW w \in Ranks, StartLoadKV(w)
  PROVE  LeaseInv'
<1> USE DEF schedVars, envVars, histVars
<1>1. /\ UNCHANGED <<status, acked, lease, notified, inbox, now, counted>>
      /\ UNCHANGED <<done_sending, outputs, reqs_need_send, inflight>>
  BY DEF StartLoadKV
<1>2. EntriesOK'
  <2>1. reqs_to_send'[w] \subseteq reqs_to_send[w] \union NextMeta(w).to_send
    BY DEF StartLoadKV, TypeOK
  <2>2. \A v \in Ranks \ {w} : reqs_to_send'[v] = reqs_to_send[v]
    BY DEF StartLoadKV, TypeOK
  <2>3. \A e \in NextMeta(w).to_send : EntryOK(e)
    BY NextMetaType DEF StartLoadKV, NextMeta, LeaseInv, EntriesOK
  <2>4. \A v \in Ranks : \A e \in reqs_to_send'[v] : EntryOK(e)
    BY <2>1, <2>2, <2>3 DEF LeaseInv, EntriesOK
  <2> QED
    BY <1>1, <2>4 DEF LeaseInv, EntriesOK, EntryOK, Finished
<1>3. NotifsOK'
  BY <1>1 DEF LeaseInv, NotifsOK, Finished
<1>4. ReportsOK'
  BY <1>1 DEF LeaseInv, ReportsOK, Reported, Finished, MayRelease, AllRead
<1>5. FreedOK'
  BY <1>1 DEF LeaseInv, FreedOK
<1> QED
  BY <1>2, <1>3, <1>4, <1>5 DEF LeaseInv

\* A notification without a target changes nothing but the wire.
LEMMA DroppedNotifInv ==
  ASSUME TypeOK, TypeOK', LeaseInv, NEW w \in Ranks, NEW n \in Notif,
         HandleNotif(w, n),
         UNCHANGED <<counted, reqs_to_process, reqs_to_send, done_sending>>
  PROVE  LeaseInv'
<1> USE DEF schedVars, histVars
<1>1. /\ UNCHANGED <<status, acked, lease, notified, now, counted>>
      /\ UNCHANGED <<done_sending, outputs, reqs_need_send, inflight, reqs_to_send>>
      /\ \A v \in Ranks : inbox'[v] \subseteq inbox[v]
  BY DEF HandleNotif, TypeOK
<1>2. EntriesOK'
  BY <1>1 DEF LeaseInv, EntriesOK, EntryOK, Finished
<1>3. NotifsOK'
  BY <1>1 DEF LeaseInv, NotifsOK, Finished
<1>4. ReportsOK'
  BY <1>1 DEF LeaseInv, ReportsOK, Reported, Finished, MayRelease, AllRead
<1>5. FreedOK'
  BY <1>1 DEF LeaseInv, FreedOK
<1> QED
  BY <1>2, <1>3, <1>4, <1>5 DEF LeaseInv

\* A counted notification either stays counted for its own request or is the
\* last of all the readers'.
LEMMA CountedNotifInv ==
  ASSUME TypeOK, TypeOK', LeaseInv, UuidsUnique, NEW w \in Ranks, NEW n \in Notif,
         HandleNotif(w, n), NEW r \in Target(w, n), CountNotif(w, r, n)
  PROVE  LeaseInv'
<1> USE DEF schedVars, histVars
<1> DEFINE seen == counted[w][r] \union {n}
<1>1. /\ UNCHANGED <<status, acked, lease, notified, now>>
      /\ UNCHANGED <<outputs, reqs_need_send, inflight>>
      /\ \A v \in Ranks : inbox'[v] \subseteq inbox[v]
      /\ n \in inbox[w]
  BY DEF HandleNotif, TypeOK
<1>2. r \in Reqs /\ r = n[1]
  BY TargetIsOwn
<1>3. n \in {r} \X Readers /\ n \in notified[w] /\ Finished(r)
  BY <1>1, <1>2 DEF LeaseInv, NotifsOK, Notif
<1>4. seen \in SUBSET ({r} \X Readers) /\ seen \subseteq notified[w]
  BY <1>2, <1>3 DEF LeaseInv, NotifsOK
<1>5. /\ \A v \in Ranks : reqs_to_send'[v] \subseteq reqs_to_send[v]
      /\ \A v \in Ranks, q \in Reqs :
            counted'[v][q] = counted[v][q]
            \/ (v = w /\ q = r /\ counted'[v][q] \subseteq seen)
  <2>1. CASE Cardinality(seen) = Cardinality(Readers)
    <3>1. /\ counted' = [counted EXCEPT ![w][r] = {}]
          /\ reqs_to_send' = [reqs_to_send EXCEPT ![w] = {e \in @ : e.req # r}]
      BY <2>1 DEF CountNotif
    <3> QED
      BY <1>2, <3>1 DEF TypeOK
  <2>2. CASE Cardinality(seen) # Cardinality(Readers)
    <3>1. counted' = [counted EXCEPT ![w][r] = seen] /\ UNCHANGED reqs_to_send
      BY <2>2 DEF CountNotif
    <3> QED
      BY <1>2, <3>1 DEF TypeOK
  <2> QED
    BY <2>1, <2>2
<1>6. EntriesOK'
  BY <1>1, <1>5 DEF LeaseInv, EntriesOK, EntryOK, Finished
<1>7. NotifsOK'
  BY <1>1, <1>4, <1>5 DEF LeaseInv, NotifsOK, Finished
<1>8. ReportsOK'
  <2>1. \A v \in Ranks, q \in Reqs :
           Reported(v, q)' => Reported(v, q) \/ (v = w /\ q = r /\ AllRead(w, r))
    <3>1. CASE Cardinality(seen) = Cardinality(Readers)
      <4>1. done_sending' = [done_sending EXCEPT ![w] = @ \union {r}]
        BY <3>1 DEF CountNotif
      <4>2. AllRead(w, r)
        <5>1. seen = {r} \X Readers
          <6> HIDE DEF seen
          <6> QED
            BY <1>4, <3>1, FullCount
        <5> QED
          BY <1>4, <5>1 DEF AllRead
      <4> QED
        BY <1>1, <4>1, <4>2 DEF Reported, TypeOK
    <3>2. CASE Cardinality(seen) # Cardinality(Readers)
      BY <1>1, <3>2 DEF Reported, CountNotif
    <3> QED
      BY <3>1, <3>2
  <2> QED
    BY <1>1, <1>3, <2>1 DEF LeaseInv, ReportsOK, Finished, MayRelease, AllRead
<1>9. FreedOK'
  BY <1>1 DEF LeaseInv, FreedOK
<1> QED
  BY <1>6, <1>7, <1>8, <1>9 DEF LeaseInv

LEMMA ExpireInv ==
  ASSUME TypeOK, TypeOK', LeaseInv, NEW w \in Ranks, ExpireAndReturn(w)
  PROVE  LeaseInv'
<1> USE DEF schedVars, envVars, histVars
<1> DEFINE expired == Ids(ExpiredPrefix(w))
<1>1. /\ UNCHANGED <<status, acked, lease, notified, inbox, now>>
      /\ UNCHANGED <<reqs_need_send, inflight>>
      /\ outputs' = [outputs EXCEPT ![w] = Append(@, done_sending[w] \union expired)]
      /\ done_sending' = [done_sending EXCEPT ![w] = {}]
  BY DEF ExpireAndReturn
<1>2. /\ \A v \in Ranks : reqs_to_send'[v] \subseteq reqs_to_send[v]
      /\ \A v \in Ranks, r \in Reqs : counted'[v][r] \subseteq counted[v][r]
  BY DEF ExpireAndReturn, TypeOK
<1>3. \A r \in expired : r \in Reqs /\ Finished(r) /\ now >= lease[r]
  <2>1. \A e \in ExpiredPrefix(w) : e \in reqs_to_send[w] /\ e \in Entry /\ e.expires <= now
    BY DEF ExpiredPrefix, TypeOK, Entry
  <2>2. \A e \in ExpiredPrefix(w) : EntryOK(e)
    BY <2>1 DEF LeaseInv, EntriesOK
  <2> QED
    BY <2>1, <2>2 DEF Ids, EntryOK, Entry, TypeOK
<1>4. EntriesOK'
  BY <1>1, <1>2 DEF LeaseInv, EntriesOK, EntryOK, Finished
<1>5. NotifsOK'
  BY <1>1, <1>2 DEF LeaseInv, NotifsOK, Finished
<1>6. ReportsOK'
  <2> SUFFICES ASSUME NEW v \in Ranks, NEW r \in Reqs, Reported(v, r)'
               PROVE  Finished(r) /\ MayRelease(v, r)
    BY <1>1 DEF ReportsOK, Finished, MayRelease, AllRead
  <2>1. Reported(v, r) \/ r \in expired
    <3>1. CASE v # w
      BY <1>1, <3>1 DEF Reported, TypeOK
    <3>2. CASE v = w
      <4>1. /\ done_sending'[w] = {} /\ acked' = acked
            /\ outputs'[w] = Append(outputs[w], done_sending[w] \union expired)
            /\ outputs[w] \in Seq(SUBSET Reqs) /\ Len(outputs[w]) \in Nat
        BY <1>1, LenProperties DEF TypeOK
      <4>2. ASSUME NEW i \in 1..Len(outputs'[w]), r \in outputs'[w][i]
            PROVE  Reported(w, r) \/ r \in expired
        <5>1. Len(outputs'[w]) = Len(outputs[w]) + 1
          BY <4>1
        <5>2. CASE i = Len(outputs[w]) + 1
          <6>1. outputs'[w][i] = done_sending[w] \union expired
            BY <4>1, <5>2
          <6> QED
            BY <4>2, <6>1 DEF Reported
        <5>3. CASE i \in 1..Len(outputs[w])
          <6>1. outputs'[w][i] = outputs[w][i]
            BY <4>1, <5>3
          <6> QED
            BY <4>2, <5>3, <6>1 DEF Reported
        <5> QED
          BY <4>1, <5>1, <5>2, <5>3
      <4> QED
        BY <3>2, <4>1, <4>2 DEF Reported
    <3> QED
      BY <3>1, <3>2
  <2> QED
    BY <1>3, <2>1 DEF LeaseInv, ReportsOK, MayRelease
<1>7. FreedOK'
  BY <1>1 DEF LeaseInv, FreedOK
<1> QED
  BY <1>4, <1>5, <1>6, <1>7 DEF LeaseInv

LEMMA ReadDoneInv ==
  ASSUME TypeOK, TypeOK', LeaseInv, NEW w \in Ranks, NEW r \in Reqs,
         NEW d \in Readers, ReadDone(w, r, d)
  PROVE  LeaseInv'
<1> USE DEF schedVars, workerVars, histVars
<1>1. /\ UNCHANGED <<status, acked, lease, now, counted, reqs_to_send>>
      /\ UNCHANGED <<done_sending, outputs, reqs_need_send, inflight>>
      /\ Finished(r)
  BY DEF ReadDone, Finished
<1>2. \A v \in Ranks :
        /\ notified[v] \subseteq notified'[v]
        /\ notified'[v] \subseteq notified[v] \union {<<r, d>>}
        /\ inbox'[v] = inbox[v]
           \/ (inbox'[v] = inbox[v] \union {<<r, d>>} /\ <<r, d>> \in notified'[v])
  BY DEF ReadDone, TypeOK
<1>3. EntriesOK'
  BY <1>1 DEF LeaseInv, EntriesOK, EntryOK, Finished
<1>4. NotifsOK'
  BY <1>1, <1>2 DEF LeaseInv, NotifsOK, Finished
<1>5. ReportsOK'
  <2>1. \A v \in Ranks, q \in Reqs : Reported(v, q)' => Reported(v, q)
    BY <1>1 DEF Reported
  <2> QED
    BY <1>1, <1>2, <2>1, ReportsKept DEF LeaseInv, TypeOK, Finished
<1>6. FreedOK'
  BY <1>1 DEF LeaseInv, FreedOK
<1> QED
  BY <1>3, <1>4, <1>5, <1>6 DEF LeaseInv

LEMMA TickInv ==
  ASSUME TypeOK, TypeOK', LeaseInv, Tick
  PROVE  LeaseInv'
<1> USE DEF schedVars, workerVars, histVars
<1>1. /\ UNCHANGED <<status, acked, lease, notified, inbox, counted, reqs_to_send>>
      /\ UNCHANGED <<done_sending, outputs, reqs_need_send, inflight>>
      /\ now <= now'
  BY DEF Tick, TypeOK
<1>2. EntriesOK' /\ NotifsOK' /\ FreedOK'
  BY <1>1 DEF LeaseInv, EntriesOK, NotifsOK, FreedOK, EntryOK, Finished
<1>3. ReportsOK'
  <2>1. \A v \in Ranks, q \in Reqs : Reported(v, q)' => Reported(v, q)
    BY <1>1 DEF Reported
  <2> QED
    BY <1>1, <2>1, ReportsKept DEF LeaseInv, TypeOK, Finished
<1> QED
  BY <1>2, <1>3 DEF LeaseInv

LEMMA InitInv == Init => LeaseInv
<1> SUFFICES ASSUME Init PROVE LeaseInv
  OBVIOUS
<1>1. EntriesOK /\ NotifsOK /\ FreedOK
  BY DEF Init, EntriesOK, NotifsOK, FreedOK
<1>2. ReportsOK
  BY DEF Init, ReportsOK, Reported
<1> QED
  BY <1>1, <1>2 DEF LeaseInv

\* Every step preserves the inductive invariant.
LEMMA NextInv ==
  ASSUME TypeOK, TypeOK', LeaseInv, UuidsUnique, [Next]_vars
  PROVE  LeaseInv'
<1>1. ASSUME NEW w \in Ranks, NEW n \in Notif, HandleNotif(w, n) PROVE LeaseInv'
  BY <1>1, DroppedNotifInv, CountedNotifInv DEF HandleNotif
<1>2. CASE UNCHANGED vars
  BY <1>2 DEF vars, schedVars, workerVars, envVars, histVars, LeaseInv, EntriesOK,
    NotifsOK, ReportsOK, FreedOK, EntryOK, Finished, Reported, MayRelease, AllRead
<1> QED
  BY <1>1, <1>2, ScheduleInv, AbortInv, UpdateInv, StartLoadKVInv, ExpireInv,
     ReadDoneInv, TickInv DEF Next

\* If no two requests share a UUID, the strengthened invariant always holds.
THEOREM LeaseInvariant == UuidsUnique => (Spec => []LeaseInv)
<1> SUFFICES ASSUME UuidsUnique PROVE Spec => []LeaseInv
  OBVIOUS
<1>1. TypeOK /\ TypeOK' /\ LeaseInv /\ [Next]_vars => LeaseInv'
  BY NextInv
<1> QED
  BY <1>1, InitInv, TypeCorrect, PTL DEF Spec

\* If no two requests share a UUID, a rank lets go of a request only when all
\* its readers have read it there or its own lease has run out.
THEOREM LeaseSafety == UuidsUnique => (Spec => []LeaseRespected)
<1>1. LeaseInv => LeaseRespected
  BY DEF LeaseInv, ReportsOK, LeaseRespected, MayRelease, Finished
<1> QED
  BY <1>1, LeaseInvariant, PTL

\* If no two requests share a UUID, get_finished names only requests that the
\* engine has finished with their blocks held.
THEOREM ReportsOnlyHeld == UuidsUnique => (Spec => []OnlyHeldReported)
<1>1. LeaseInv => OnlyHeldReported
  BY DEF LeaseInv, ReportsOK, OnlyHeldReported, Finished
<1> QED
  BY <1>1, LeaseInvariant, PTL

-----------------------------------------------------------------------------
(* The producer implements KVLease *)

LEMMA PhaseValues ==
  ASSUME TypeOK, NEW r \in Reqs
  PROVE  /\ status[r] \in {"waiting", "running"} => Phase[r] = "prefill"
         /\ status[r] = "aborted" => Phase[r] = "dropped"
         /\ status[r] = "held" => Phase[r] = "leased"
         /\ status[r] = "freed" => Phase[r] = "freed"
BY DEF TypeOK, Status, Phase, PhaseOf

LEMMA PhaseValuesNext ==
  ASSUME TypeOK', NEW r \in Reqs
  PROVE  /\ status'[r] \in {"waiting", "running"} => Phase'[r] = "prefill"
         /\ status'[r] = "aborted" => Phase'[r] = "dropped"
         /\ status'[r] = "held" => Phase'[r] = "leased"
         /\ status'[r] = "freed" => Phase'[r] = "freed"
BY DEF TypeOK, Status, Phase, PhaseOf

\* A request that every rank has reported may be freed in the abstract sense.
LEMMA FreeJustified ==
  ASSUME TypeOK, LeaseInv, NEW r \in Reqs, \A w \in Ranks : Reported(w, r)
  PROVE  Finished(r) /\ (Lease!AllRead(r) \/ Lease!Expired(r))
<1>1. Finished(r)
  BY ProducerAssumption DEF LeaseInv, ReportsOK
<1>2. \A w \in Ranks : MayRelease(w, r)
  BY DEF LeaseInv, ReportsOK
<1>3. CASE now >= lease[r]
  BY <1>1, <1>3 DEF Lease!Expired
<1>4. CASE \A w \in Ranks : AllRead(w, r)
  BY <1>1, <1>4 DEF Lease!AllRead, AllRead
<1> QED
  BY <1>2, <1>3, <1>4 DEF MayRelease

\* Consuming an output leases what finished and frees what all ranks reported.
LEMMA UpdateRefines ==
  ASSUME TypeOK, TypeOK', LeaseInv, NEW F \in SUBSET Reqs, UpdateFromOutput(F)
  PROVE  \E L, R \in SUBSET Reqs : Lease!LeaseAndFree(L, R)
<1> DEFINE acks == [r \in Reqs |-> acked[r] \union
                                   {w \in Ranks : r \in Head(outputs[w])}]
           R == {r \in Reqs : acks[r] = Ranks /\ acked[r] # Ranks}
<1>1. /\ \A r \in F : status[r] = "running"
      /\ \A r \in Reqs : status'[r] = IF r \in F THEN "held"
                                      ELSE IF r \in R THEN "freed"
                                      ELSE status[r]
      /\ lease' = [r \in Reqs |-> IF r \in F THEN now + Timeout ELSE lease[r]]
      /\ UNCHANGED <<notified, now>>
      /\ \A w \in Ranks : outputs[w] # <<>>
  BY DEF UpdateFromOutput, Finishable, envVars, TypeOK
<1>2. ASSUME NEW r \in R
      PROVE  status[r] = "held" /\ (Lease!AllRead(r) \/ Lease!Expired(r))
  <2>1. ASSUME NEW w \in Ranks PROVE Reported(w, r)
    <3>1. CASE w \in acked[r]
      BY <3>1 DEF Reported
    <3>2. CASE r \in Head(outputs[w])
      <4>1. outputs[w] \in Seq(SUBSET Reqs) /\ outputs[w] # <<>>
        BY <1>1 DEF TypeOK
      <4>2. 1 \in 1..Len(outputs[w]) /\ Head(outputs[w]) = outputs[w][1]
        BY <4>1
      <4> QED
        BY <3>2, <4>2 DEF Reported
    <3> QED
      BY <3>1, <3>2
  <2>2. status[r] # "freed"
    BY DEF LeaseInv, FreedOK
  <2> QED
    BY <2>1, <2>2, FreeJustified DEF Finished
<1>3. \A r \in F : Phase[r] = "prefill"
  BY <1>1, PhaseValues
<1>4. \A r \in R : Phase[r] = "leased"
  BY <1>2, PhaseValues
<1>5. Phase' = [r \in Reqs |-> IF r \in F THEN "leased"
                               ELSE IF r \in R THEN "freed" ELSE Phase[r]]
  <2> SUFFICES ASSUME NEW r \in Reqs
               PROVE  Phase'[r] = IF r \in F THEN "leased"
                                  ELSE IF r \in R THEN "freed" ELSE Phase[r]
    BY DEF Phase
  <2>1. CASE r \in F
    BY <1>1, <2>1, PhaseValuesNext
  <2>2. CASE r \in R \ F
    BY <1>1, <2>2, PhaseValuesNext
  <2>3. CASE r \notin F \union R
    BY <1>1, <2>3 DEF Phase
  <2> QED
    BY <2>1, <2>2, <2>3
<1>6. Lease!LeaseAndFree(F, R)
  BY <1>1, <1>2, <1>3, <1>4, <1>5 DEF Lease!LeaseAndFree
<1>7. F \in SUBSET Reqs /\ R \in SUBSET Reqs
  OBVIOUS
<1> HIDE DEF R
<1> QED
  BY <1>6, <1>7

\* Every step of the producer is a step of KVLease or leaves it unchanged.
LEMMA StepRefines ==
  ASSUME TypeOK, TypeOK', LeaseInv, [Next]_vars
  PROVE  [Lease!Next]_(Lease!leaseVars)
<1> USE DEF schedVars, workerVars, envVars, histVars
<1> DEFINE Same == Phase' = Phase /\ UNCHANGED <<lease, notified, now>>
<1>0. Same => UNCHANGED Lease!leaseVars
  BY DEF Lease!leaseVars
<1>1. ASSUME NEW S \in SUBSET Reqs, Schedule(S) PROVE Same
  <2>1. ASSUME NEW r \in S PROVE Phase'[r] = Phase[r]
    BY <1>1, PhaseValues, PhaseValuesNext DEF Schedule, TypeOK
  <2>2. ASSUME NEW r \in Reqs \ S PROVE Phase'[r] = Phase[r]
    BY <1>1 DEF Schedule, TypeOK, Phase
  <2> QED
    BY <1>1, <2>1, <2>2 DEF Schedule, Phase
<1>2. ASSUME NEW a \in Reqs, Abort(a) PROVE Lease!Drop(a)
  <2>1. Phase[a] = "prefill" /\ Phase'[a] = "dropped"
    BY <1>2, PhaseValues, PhaseValuesNext DEF Abort, TypeOK
  <2>2. \A r \in Reqs \ {a} : Phase'[r] = Phase[r]
    BY <1>2 DEF Abort, TypeOK, Phase
  <2>3. Phase' = [Phase EXCEPT ![a] = "dropped"]
    BY <2>1, <2>2 DEF Phase
  <2> QED
    BY <1>2, <2>1, <2>3 DEF Abort, Lease!Drop
<1>3. ASSUME NEW w \in Ranks, StartLoadKV(w) PROVE Same
  BY <1>3 DEF StartLoadKV, Phase
<1>4. ASSUME NEW w \in Ranks, NEW n \in Notif, HandleNotif(w, n) PROVE Same
  BY <1>4 DEF HandleNotif, Phase
<1>5. ASSUME NEW w \in Ranks, ExpireAndReturn(w) PROVE Same
  BY <1>5 DEF ExpireAndReturn, Phase
<1>6. ASSUME NEW w \in Ranks, NEW r \in Reqs, NEW d \in Readers,
             ReadDone(w, r, d)
      PROVE  Lease!Read(w, r, d)
  <2>1. Phase' = Phase /\ UNCHANGED <<lease, now>>
    BY <1>6 DEF ReadDone, Phase
  <2>2. Phase[r] \in {"leased", "freed"}
    BY <1>6, PhaseValues DEF ReadDone
  <2> QED
    BY <1>6, <2>1, <2>2 DEF ReadDone, Lease!Read
<1>7. ASSUME Tick PROVE Lease!Tick
  <2>1. UNCHANGED <<status, lease, notified>> /\ now' = now + 1
    BY <1>7 DEF Tick
  <2>2. Phase' = Phase
    BY <2>1 DEF Phase
  <2> QED
    BY <2>1, <2>2 DEF Lease!Tick
<1>8. ASSUME UNCHANGED vars PROVE Same
  BY <1>8 DEF vars, Phase
<1> HIDE DEF Same
<1>9. ASSUME Next PROVE Lease!Next \/ UNCHANGED Lease!leaseVars
  BY <1>9, <1>0, <1>1, <1>2, <1>3, <1>4, <1>5, <1>6, <1>7, UpdateRefines
  DEF Next, Lease!Next
<1> QED
  BY <1>0, <1>8, <1>9

\* If no two requests share a UUID, the producer keeps the promise of KVLease:
\* the refinement that TLC checks on a small instance, for every instance.
THEOREM ProducerImplementsLease == UuidsUnique => (Spec => ImplementsLease)
<1> SUFFICES ASSUME UuidsUnique PROVE Spec => ImplementsLease
  OBVIOUS
<1>1. Init => Lease!Init
  BY DEF Init, Lease!Init, Phase, PhaseOf
<1>2. TypeOK /\ TypeOK' /\ LeaseInv /\ [Next]_vars
      => [Lease!Next]_(Lease!leaseVars)
  BY StepRefines
<1> QED
  BY <1>1, <1>2, TypeCorrect, LeaseInvariant, PTL
  DEF Spec, ImplementsLease, Lease!Spec
=============================================================================
