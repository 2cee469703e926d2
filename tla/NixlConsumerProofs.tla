------------------------- MODULE NixlConsumerProofs -------------------------
(***************************************************************************)
(* Theorems about NixlConsumer, for every set of requests and of producer  *)
(* ranks and for whatever is allowed to fail.                              *)
(***************************************************************************)
EXTENDS NixlConsumer, TLAPS

-----------------------------------------------------------------------------
(* Type correctness *)

\* What _read_blocks_for_req changes keeps its type.
LEMMA ReadBlocksType ==
  ASSUME TypeOK, NEW r \in Reqs, ReadBlocks(r)
  PROVE  /\ alive' \in BOOLEAN
         /\ failed_recv_reqs' \subseteq Reqs /\ invalid_block_ids' \subseteq Reqs
         /\ recving_transfers' \subseteq Handles /\ notified' \subseteq Handles
         /\ xfer' \in [Handles -> {"none", "PROC", "DONE", "ERR"}]
<1>1. ASSUME NEW lost \in SUBSET Ranks
      PROVE  {r} \X (Ranks \ lost) \subseteq Handles
  BY DEF Handles
<1>2. CASE \E lost \in SUBSET Ranks : NotifyOnly(r, lost)
  BY <1>1, <1>2 DEF NotifyOnly, TypeOK
<1>3. CASE \E bad \in SUBSET Ranks : PostReads(r, bad)
  BY <1>1, <1>3 DEF PostReads, TypeOK
<1> QED
  BY <1>2, <1>3 DEF ReadBlocks

\* The state of the worker, its threads and its reads keeps its type.
THEOREM TypeCorrect == Spec => []TypeOK
<1>1. Init => TypeOK
  BY DEF Init, TypeOK
<1>2. TypeOK /\ [Next]_vars => TypeOK'
  <2> SUFFICES ASSUME TypeOK, [Next]_vars PROVE TypeOK'
    OBVIOUS
  <2> USE DEF TypeOK, engineVars, mainVars, sharedVars, futureVars, threadVars,
              nixlVars
  <2>1. ASSUME NEW S \in SUBSET Reqs, BeginStep(S) PROVE TypeOK'
    BY <2>1 DEF BeginStep
  <2>2. ASSUME NEW r \in Reqs, LoadOne(r) PROVE TypeOK'
    <3>1. CASE BackgroundHandshake(r)
      BY <2>2, <3>1 DEF LoadOne, BackgroundHandshake
    <3>2. CASE ReadBlocks(r) /\ UNCHANGED <<ready_requests, future, waiters>>
      BY <2>2, <3>2, ReadBlocksType DEF LoadOne
    <3> QED
      BY <2>2, <3>1, <3>2 DEF LoadOne
  <2>3. CASE EndLoad
    BY <2>3 DEF EndLoad
  <2>4. ASSUME NEW r \in Reqs, DrainOne(r) PROVE TypeOK'
    BY <2>4, ReadBlocksType DEF DrainOne
  <2>5. CASE EndDrain
    BY <2>5 DEF EndDrain
  <2>6. CASE PopDoneTransfers
    BY <2>6 DEF PopDoneTransfers, AllEnded, Ended, Handles
  <2>7. CASE TakeFailed
    BY <2>7 DEF TakeFailed
  <2>8. CASE ClearFailed
    BY <2>8 DEF ClearFailed
  <2>9. CASE EndFinished /\ Report
    <3>1. status' \in [Reqs -> {"new", "waiting", "cached", "loaded", "recompute"}]
      BY <2>9 DEF EndFinished, Report
    <3>2. flagged' \subseteq Reqs /\ invalid_block_ids' \subseteq Reqs
          /\ recving_metadata' \subseteq Reqs /\ alive' \in BOOLEAN
      BY <2>9 DEF EndFinished, Report
    <3> QED
      BY <2>9, <3>1, <3>2 DEF EndFinished, Report
  <2>10. CASE EndHandshake
    BY <2>10 DEF EndHandshake
  <2>11. CASE DoneCallback
    BY <2>11 DEF DoneCallback
  <2>12. ASSUME NEW r \in Reqs, RequestReady(r) PROVE TypeOK'
    BY <2>12 DEF RequestReady
  <2>13. ASSUME NEW r \in Reqs, RequestFailed(r) PROVE TypeOK'
    BY <2>13 DEF RequestFailed
  <2>14. ASSUME NEW r \in Reqs, AddFailed(r) PROVE TypeOK'
    BY <2>14 DEF AddFailed
  <2>15. ASSUME NEW h \in Handles, XferDone(h) \/ XferError(h) PROVE TypeOK'
    BY <2>15 DEF XferDone, XferError
  <2>17. CASE EndFinished /\ ReportRaises
    BY <2>17 DEF EndFinished, ReportRaises
  <2>18. CASE LearnBlockSize
    BY <2>18 DEF LearnBlockSize
  <2>16. CASE UNCHANGED vars
    BY <2>16 DEF vars
  <2> QED
    BY <2>1, <2>2, <2>3, <2>4, <2>5, <2>6, <2>7, <2>8, <2>9, <2>10, <2>11,
       <2>12, <2>13, <2>14, <2>15, <2>16, <2>17, <2>18
    DEF Next, Main, EndFinished, Begin, Load, Drain, Callback
<1> QED
  BY <1>1, <1>2, PTL DEF Spec

-----------------------------------------------------------------------------
(* A request is read once, and notified by its reads *)

\* The requests on their way to _read_blocks.
Coming == todo \union waiters \union calls \union ready_requests

\* A request waits in one of the four places, and in none before the engine
\* has handed it over.
ComingOnce ==
  /\ \A r \in Reqs : status[r] = "new" => r \notin Coming
  /\ todo \intersect (waiters \union calls \union ready_requests) = {}
  /\ waiters \intersect (calls \union ready_requests) = {}
  /\ calls \intersect ready_requests = {}

\* Until then, and if there is nothing to read, it has no read.
UnreadUntouched ==
  \A h \in Handles :
     status[h[1]] = "new" \/ h[1] \in Coming \union Empty => xfer[h] = "none"

HandlesTracked ==
  /\ \A h \in Handles : xfer[h] = "PROC" => h \in recving_transfers
  /\ \A h \in recving_transfers : xfer[h] # "none"

\* A producer rank that was told of a request has been read, or had nothing to
\* be read.
NotifiedAfterRead == \A h \in notified : h[1] \in Empty \/ xfer[h] = "DONE"

ReadsInv == ComingOnce /\ UnreadUntouched /\ HandlesTracked /\ NotifiedAfterRead

LEMMA HandleParts ==
  ASSUME NEW h \in Handles
  PROVE  h = <<h[1], h[2]>> /\ h[1] \in Reqs /\ h[2] \in Ranks
BY DEF Handles

\* What _read_blocks_for_req may do to the reads: only to those of r, which it
\* posts and tracks together.
LEMMA ReadBlocksReads ==
  ASSUME TypeOK, NEW r \in Reqs, ReadBlocks(r)
  PROVE  /\ \A h \in Handles :
              \/ xfer'[h] = xfer[h] /\ (h \in recving_transfers' <=> h \in recving_transfers)
              \/ /\ h[1] = r /\ r \notin Empty
                 /\ xfer'[h] = "PROC" /\ h \in recving_transfers'
         /\ \A h \in notified' : h \in notified \/ h[1] \in Empty
<1>1. CASE \E lost \in SUBSET Ranks : NotifyOnly(r, lost)
  BY <1>1 DEF NotifyOnly
<1>2. CASE \E bad \in SUBSET Ranks : PostReads(r, bad)
  <2> PICK bad \in SUBSET Ranks : PostReads(r, bad)
    BY <1>2
  <2>1. \A h \in {r} \X (Ranks \ bad) : h[1] = r
    OBVIOUS
  <2> QED
    BY <2>1 DEF PostReads
<1> QED
  BY <1>1, <1>2 DEF ReadBlocks

\* Reading a request that was on its way, which it then is no longer.
LEMMA ReadBlocksKeeps ==
  ASSUME TypeOK, TypeOK', ReadsInv, NEW r \in Reqs, ReadBlocks(r),
         r \in Coming, UNCHANGED <<status, waiters, calls>>,
         Coming' \subseteq Coming \ {r}, ComingOnce'
  PROVE  ReadsInv'
<1> USE ReadBlocksReads
<1>1. UnreadUntouched'
  <2> SUFFICES ASSUME NEW h \in Handles,
                      status[h[1]] = "new" \/ h[1] \in Coming' \union Empty
               PROVE  xfer'[h] = "none"
    BY DEF UnreadUntouched
  <2>1. h[1] # r \/ r \in Empty
    BY DEF ReadsInv, ComingOnce
  <2>2. xfer[h] = "none"
    BY DEF ReadsInv, UnreadUntouched
  <2> QED
    BY <2>1, <2>2
<1>2. HandlesTracked'
  BY DEF ReadsInv, HandlesTracked, TypeOK
<1>3. NotifiedAfterRead'
  <2> SUFFICES ASSUME NEW h \in notified' PROVE h[1] \in Empty \/ xfer'[h] = "DONE"
    BY DEF NotifiedAfterRead
  <2>1. h \in Handles
    BY DEF TypeOK
  <2>2. h[1] \in Empty \/ xfer[h] = "DONE"
    BY DEF ReadsInv, NotifiedAfterRead
  <2>3. h[1] = r => xfer[h] = "none"
    BY <2>1 DEF ReadsInv, UnreadUntouched
  <2> QED
    BY <2>1, <2>2, <2>3
<1> QED
  BY <1>1, <1>2, <1>3 DEF ReadsInv

\* Every step keeps the reads invariant.
LEMMA ReadsNext ==
  ASSUME TypeOK, TypeOK', ReadsInv, [Next]_vars
  PROVE  ReadsInv'
<1> USE DEF engineVars, mainVars, sharedVars, futureVars, threadVars, nixlVars
<1> DEFINE Reads == <<recving_transfers, xfer, notified>>
\* A step that leaves the reads alone and brings no request on its way.
<1>0. ASSUME UNCHANGED <<Reads, status>>, ComingOnce', Coming' \subseteq Coming
      PROVE  ReadsInv'
  BY <1>0 DEF ReadsInv, UnreadUntouched, HandlesTracked, NotifiedAfterRead
<1>1. ASSUME NEW S \in SUBSET Reqs, BeginStep(S) PROVE ReadsInv'
  <2>1. /\ UNCHANGED <<Reads, waiters, calls, ready_requests>> /\ todo' = S
        /\ \A r \in S : status[r] = "new" /\ status'[r] # "new"
        /\ \A r \in Reqs \ S : status'[r] = status[r]
    BY <1>1 DEF BeginStep, TypeOK
  <2>2. ComingOnce'
    BY <2>1 DEF ReadsInv, ComingOnce, Coming
  <2>3. UnreadUntouched'
    BY <2>1, HandleParts DEF ReadsInv, UnreadUntouched, Coming
  <2> QED
    BY <2>1, <2>2, <2>3 DEF ReadsInv, HandlesTracked, NotifiedAfterRead
<1>2. ASSUME NEW r \in Reqs, LoadOne(r) PROVE ReadsInv'
  <2>1. CASE BackgroundHandshake(r)
    <3>1. ComingOnce' /\ Coming' \subseteq Coming
      BY <1>2, <2>1 DEF LoadOne, BackgroundHandshake, ReadsInv, ComingOnce, Coming
    <3> QED
      BY <1>2, <2>1, <3>1, <1>0 DEF LoadOne, BackgroundHandshake
  <2>2. CASE ReadBlocks(r) /\ UNCHANGED <<ready_requests, future, waiters>>
    <3>1. ComingOnce' /\ Coming' \subseteq Coming \ {r} /\ r \in Coming
      BY <1>2, <2>2 DEF LoadOne, ReadsInv, ComingOnce, Coming
    <3> QED
      BY <1>2, <2>2, <3>1, ReadBlocksKeeps DEF LoadOne
  <2> QED
    BY <1>2, <2>1, <2>2 DEF LoadOne
<1>3. CASE \/ EndLoad \/ EndDrain \/ TakeFailed \/ ClearFailed
           \/ (EndFinished /\ ReportRaises)
           \/ LearnBlockSize \/ EndHandshake
  BY <1>3, <1>0 DEF EndLoad, EndDrain, TakeFailed, ClearFailed, EndFinished,
                    ReportRaises,
                    LearnBlockSize, EndHandshake, ReadsInv, ComingOnce, Coming
<1>4. ASSUME NEW r \in Reqs, DrainOne(r) PROVE ReadsInv'
  <2>1. ComingOnce' /\ Coming' \subseteq Coming \ {r} /\ r \in Coming
    BY <1>4 DEF DrainOne, ReadsInv, ComingOnce, Coming
  <2> QED
    BY <1>4, <2>1, ReadBlocksKeeps DEF DrainOne
<1>5. CASE PopDoneTransfers
  <2>1. UNCHANGED <<status, todo, waiters, calls, ready_requests, xfer, notified>>
        /\ recving_transfers' = {h \in recving_transfers : xfer[h] = "PROC"}
    BY <1>5 DEF PopDoneTransfers, Ended
  <2> QED
    BY <2>1 DEF ReadsInv, ComingOnce, Coming, UnreadUntouched, HandlesTracked,
                NotifiedAfterRead
<1>6. CASE EndFinished /\ Report
  <2>1. UNCHANGED <<Reads, todo, waiters, calls, ready_requests>>
        /\ \A r \in Reqs : status'[r] = status[r] \/ status'[r] # "new"
    BY <1>6 DEF EndFinished, Report, TypeOK
  <2>2. ComingOnce'
    BY <2>1 DEF ReadsInv, ComingOnce, Coming
  <2>3. UnreadUntouched'
    BY <2>1, HandleParts DEF ReadsInv, UnreadUntouched, Coming
  <2> QED
    BY <2>1, <2>2, <2>3 DEF ReadsInv, HandlesTracked, NotifiedAfterRead
<1>7. CASE DoneCallback
  BY <1>7, <1>0 DEF DoneCallback, ReadsInv, ComingOnce, Coming
<1>8. ASSUME NEW r \in Reqs, RequestReady(r) \/ RequestFailed(r) \/ AddFailed(r)
      PROVE  ReadsInv'
  BY <1>8, <1>0 DEF RequestReady, RequestFailed, AddFailed, ReadsInv, ComingOnce,
                    Coming
<1>9. ASSUME NEW g \in Handles, XferDone(g) \/ XferError(g) PROVE ReadsInv'
  <2>1. /\ UNCHANGED <<status, todo, waiters, calls, ready_requests, recving_transfers>>
        /\ xfer[g] = "PROC" /\ xfer'[g] \in {"DONE", "ERR"}
        /\ \A h \in Handles \ {g} : xfer'[h] = xfer[h]
        /\ \/ notified' = notified
           \/ notified' = notified \union {g} /\ xfer'[g] = "DONE"
    BY <1>9 DEF XferDone, XferError, TypeOK
  <2> QED
    BY <2>1 DEF ReadsInv, ComingOnce, Coming, UnreadUntouched, HandlesTracked,
                NotifiedAfterRead, TypeOK
<1>10. CASE UNCHANGED vars
  BY <1>10, <1>0 DEF vars, ReadsInv, ComingOnce, Coming
<1>11. CASE Main
  BY <1>11, <1>1, <1>2, <1>3, <1>4, <1>5, <1>6
  DEF Main, EndFinished, Begin, Load, Drain
<1>12. CASE Callback
  BY <1>12, <1>8 DEF Callback
<1> QED
  BY <1>3, <1>7, <1>9, <1>10, <1>11, <1>12 DEF Next

LEMMA ReadsInit == Init => ReadsInv
BY DEF Init, ReadsInv, ComingOnce, Coming, UnreadUntouched, HandlesTracked,
       NotifiedAfterRead

\* Whatever fails, a request's reads are posted once, and a producer rank is
\* told of a request with something to read only when it has been read.
THEOREM ReadsOnce == Spec => []ReadsInv
<1>1. TypeOK /\ TypeOK' /\ ReadsInv /\ [Next]_vars => ReadsInv'
  BY ReadsNext
<1> QED
  BY <1>1, ReadsInit, TypeCorrect, PTL DEF Spec

-----------------------------------------------------------------------------
(* A request is reported once, with all its blocks or with an error *)

\* The requests that wait are those with something to read.
HandedOver ==
  \A r \in Reqs : /\ status[r] = "waiting" => r \notin Empty
                  /\ status[r] = "cached" => r \in Empty

\* A step leaves the engine's view alone, or hands requests over, or returns
\* some.
LEMMA HandedOverNext ==
  ASSUME TypeOK, HandedOver, [Next]_vars
  PROVE  HandedOver'
<1> USE DEF engineVars, mainVars, sharedVars, futureVars, threadVars, nixlVars
<1>1. CASE status' = status
  BY <1>1 DEF HandedOver
<1>2. ASSUME NEW S \in SUBSET Reqs, BeginStep(S) PROVE HandedOver'
  BY <1>2 DEF BeginStep, HandedOver, TypeOK
<1>3. CASE EndFinished /\ Report
  <2>1. \A r \in Reqs : status'[r] = status[r] \/ status'[r] \in {"loaded", "recompute"}
    BY <1>3 DEF EndFinished, Report, TypeOK
  <2> QED
    BY <2>1 DEF HandedOver
<1>4. ASSUME NEW r \in Reqs, LoadOne(r) \/ DrainOne(r) PROVE HandedOver'
  BY <1>1, <1>4 DEF LoadOne, DrainOne
<1>5. CASE \/ EndLoad \/ EndDrain \/ PopDoneTransfers \/ TakeFailed \/ ClearFailed
           \/ (EndFinished /\ ReportRaises)
  BY <1>1, <1>5 DEF EndLoad, EndDrain, PopDoneTransfers, TakeFailed, ClearFailed,
                    EndFinished, ReportRaises
<1>6. CASE LearnBlockSize \/ EndHandshake \/ DoneCallback \/ Callback
  BY <1>1, <1>6 DEF LearnBlockSize, EndHandshake, DoneCallback, Callback,
                    RequestReady, RequestFailed, AddFailed
<1>7. CASE \E h \in Handles : XferDone(h) \/ XferError(h)
  BY <1>1, <1>7 DEF XferDone, XferError
<1>8. CASE UNCHANGED vars
  BY <1>1, <1>8 DEF vars
<1> QED
  BY <1>2, <1>3, <1>4, <1>5, <1>6, <1>7, <1>8
  DEF Next, Main, EndFinished, Begin, Load, Drain

LEMMA HandedOverInvariant == Spec => []HandedOver
<1>1. Init => HandedOver
  BY DEF Init, HandedOver
<1>2. TypeOK /\ HandedOver /\ [Next]_vars => HandedOver'
  BY HandedOverNext
<1> QED
  BY <1>1, <1>2, TypeCorrect, PTL DEF Spec

\* Posting the reads of a request fails for all the producer ranks or for none.
\* Without it a request is reported while reads of it are in progress.
ReadsFailTogether == SetupFails => \E p \in Ranks : Ranks = {p}

Reading == {h[1] : h \in recving_transfers}
Leaving == failed_recv_reqs \union done_recving
Errors  == flagged \union invalid_block_ids

Complete(r) == \A p \in Ranks : xfer[<<r, p>>] = "DONE"

\* A request with metadata is in one of the places that lead to the engine; the
\* failed ones are in two between the two statements of get_finished.
OnePlace ==
  /\ todo \intersect recving_metadata = {}
  /\ waiters \union calls \union ready_requests \union marked \union Leaving
        \union Reading \subseteq recving_metadata
  /\ Coming \intersect marked = {}
  /\ (Coming \union marked) \intersect Leaving = {}
  /\ (Coming \union marked \union Leaving) \intersect Reading = {}
  /\ pc # "clear" => failed_recv_reqs \intersect done_recving = {}

\* One that is not in the engine's hands, or no longer, has none.
ResolvedForgotten ==
  \A r \in Reqs : status[r] \in {"new", "loaded", "recompute"} =>
                     r \notin recving_metadata \union todo

\* A missing block is known to the engine, or will be with the next report.
ErrorsKnown ==
  /\ (marked \union failed_recv_reqs) \ Empty \subseteq Errors
  /\ \A r \in done_recving : r \in Empty \union Errors \/ Complete(r)
  /\ \A r \in Reading : r \in Errors \/ \A p \in Ranks : <<r, p>> \in recving_transfers
                                                      \/ xfer[<<r, p>>] = "DONE"

ReportInv == OnePlace /\ ResolvedForgotten /\ ErrorsKnown /\ LoadedIsComplete

\* Reading a request posts the reads of all ranks, fails, or has nothing to do.
LEMMA ReadBlocksOutcomes ==
  ASSUME TypeOK, ReadsFailTogether, NEW r \in Reqs, ReadBlocks(r)
  PROVE  \/ UNCHANGED <<xfer, recving_transfers, failed_recv_reqs, invalid_block_ids>>
         \/ /\ recving_transfers' = recving_transfers \union ({r} \X Ranks)
            /\ xfer' = [h \in Handles |-> IF h \in {r} \X Ranks THEN "PROC" ELSE xfer[h]]
            /\ UNCHANGED <<failed_recv_reqs, invalid_block_ids>>
         \/ /\ failed_recv_reqs' = failed_recv_reqs \union {r}
            /\ invalid_block_ids' = invalid_block_ids \union {r}
            /\ UNCHANGED <<xfer, recving_transfers>>
<1>1. CASE \E lost \in SUBSET Ranks : NotifyOnly(r, lost)
  BY <1>1 DEF NotifyOnly
<1>2. CASE \E bad \in SUBSET Ranks : PostReads(r, bad)
  <2> PICK bad \in SUBSET Ranks : PostReads(r, bad)
    BY <1>2
  <2>1. CASE bad = {}
    <3>1. Ranks \ bad = Ranks
      BY <2>1
    <3> QED
      BY <2>1, <3>1 DEF PostReads
  <2>2. CASE bad # {}
    <3>1. Ranks \ bad = {}
      BY <2>2 DEF PostReads, ReadsFailTogether
    <3>2. {r} \X (Ranks \ bad) = {}
      BY <3>1
    <3>3. xfer' = xfer
      BY <3>2 DEF PostReads, TypeOK
    <3> QED
      BY <2>2, <3>2, <3>3 DEF PostReads
  <2> QED
    BY <2>1, <2>2
<1> QED
  BY <1>1, <1>2 DEF ReadBlocks

LEMMA ReadBlocksReport ==
  ASSUME TypeOK, TypeOK', ReadsInv, ReportInv, ReadsFailTogether,
         NEW r \in Reqs, ReadBlocks(r), r \in todo \union ready_requests,
         todo' = todo \ {r}, ready_requests' = ready_requests \ {r},
         recving_metadata' = recving_metadata \union {r}, pc # "clear",
         UNCHANGED <<status, flagged, waiters, calls, done_recving, marked>>
  PROVE  ReportInv'
<1>1. /\ \A p \in Ranks : xfer[<<r, p>>] = "none"
      /\ status[r] \notin {"new", "loaded", "recompute"}
      /\ r \notin marked \union Leaving \union Reading
  <2>1. \A p \in Ranks : <<r, p>> \in Handles
    BY DEF Handles
  <2>2. \A p \in Ranks : xfer[<<r, p>>] = "none"
    BY <2>1 DEF ReadsInv, UnreadUntouched, Coming
  <2>3. r \in recving_metadata \union todo
    BY DEF ReportInv, OnePlace, Coming
  <2> QED
    BY <2>2, <2>3 DEF ReportInv, OnePlace, ResolvedForgotten, ReadsInv, ComingOnce,
                      Coming
<1>2. /\ Reading' \subseteq Reading \union {r}
      /\ failed_recv_reqs' \subseteq failed_recv_reqs \union {r}
      /\ ~(r \in Reading' /\ r \in failed_recv_reqs')
  BY <1>1, ReadBlocksOutcomes DEF Reading, Leaving
<1>3. OnePlace'
  BY <1>1, <1>2 DEF ReportInv, OnePlace, Coming, Leaving, ReadsInv, ComingOnce
<1>4. ResolvedForgotten'
  BY <1>1 DEF ReportInv, ResolvedForgotten
<1>5. /\ \A q \in Reqs \ {r}, p \in Ranks :
            /\ xfer'[<<q, p>>] = xfer[<<q, p>>]
            /\ <<q, p>> \in recving_transfers' <=> <<q, p>> \in recving_transfers
      /\ r \in Reading' => \A p \in Ranks : <<r, p>> \in recving_transfers'
      /\ Errors \subseteq Errors'
      /\ r \in failed_recv_reqs' => r \in Errors'
  <2>1. CASE UNCHANGED <<xfer, recving_transfers, failed_recv_reqs,
                         invalid_block_ids>>
    BY <1>1, <2>1 DEF Reading, Leaving, Errors
  <2>2. CASE /\ recving_transfers' = recving_transfers \union ({r} \X Ranks)
             /\ xfer' = [h \in Handles |-> IF h \in {r} \X Ranks THEN "PROC"
                                           ELSE xfer[h]]
             /\ UNCHANGED <<failed_recv_reqs, invalid_block_ids>>
    BY <1>1, <2>2 DEF Leaving, Handles, Errors
  <2>3. CASE /\ failed_recv_reqs' = failed_recv_reqs \union {r}
             /\ invalid_block_ids' = invalid_block_ids \union {r}
             /\ UNCHANGED <<xfer, recving_transfers>>
    BY <1>1, <2>3 DEF Reading, Errors
  <2> QED
    BY <2>1, <2>2, <2>3, ReadBlocksOutcomes
<1>6. Reading \subseteq Reqs /\ Leaving \subseteq Reqs
  BY DEF Reading, Leaving, TypeOK, Handles
<1>7. ErrorsKnown'
  <2>1. \A q \in done_recving' : q \in Empty \union Errors' \/ Complete(q)'
    BY <1>1, <1>5, <1>6 DEF ReportInv, ErrorsKnown, Complete, Leaving
  <2>2. \A q \in Reading' : q \in Errors' \/
           \A p \in Ranks : <<q, p>> \in recving_transfers' \/ xfer'[<<q, p>>] = "DONE"
    <3> SUFFICES ASSUME NEW q \in Reading', q \notin Errors', q # r, NEW p \in Ranks
                 PROVE  <<q, p>> \in recving_transfers' \/ xfer'[<<q, p>>] = "DONE"
      BY <1>5
    <3>1. q \in Reading /\ q \in Reqs \ {r}
      BY <1>2, <1>6
    <3> QED
      BY <1>5, <3>1 DEF ReportInv, ErrorsKnown
  <2>3. (marked' \union failed_recv_reqs') \ Empty \subseteq Errors'
    BY <1>2, <1>5 DEF ReportInv, ErrorsKnown
  <2> QED
    BY <2>1, <2>2, <2>3 DEF ErrorsKnown
<1>8. LoadedIsComplete'
  BY <1>1, <1>5 DEF ReportInv, LoadedIsComplete
<1> QED
  BY <1>3, <1>4, <1>7, <1>8 DEF ReportInv

\* Every step keeps the report invariant.
LEMMA ReportNext ==
  ASSUME TypeOK, TypeOK', HandedOver, ReadsInv, ReportInv, ReadsFailTogether,
         [Next]_vars
  PROVE  ReportInv'
<1> USE DEF engineVars, mainVars, sharedVars, futureVars, threadVars, nixlVars
<1> DEFINE Inv == ReportInv
           Reads == <<recving_transfers, xfer, notified>>
<1>0. Reading \subseteq Reqs /\ Leaving \subseteq Reqs
  BY DEF Reading, Leaving, TypeOK, Handles
\* A step that leaves the reads and the engine's view alone.
<1>1. ASSUME UNCHANGED <<status, recving_transfers, xfer>>, Errors \subseteq Errors',
             UNCHANGED done_recving
      PROVE  /\ \A r \in done_recving' : r \in Empty \union Errors' \/ Complete(r)'
             /\ \A r \in Reading' : r \in Errors' \/
                   \A p \in Ranks : <<r, p>> \in recving_transfers'
                                    \/ xfer'[<<r, p>>] = "DONE"
             /\ LoadedIsComplete'
  BY <1>1 DEF ReportInv, ErrorsKnown, Complete, Reading, LoadedIsComplete
<1>2. ASSUME NEW S \in SUBSET Reqs, BeginStep(S) PROVE ReportInv'
  <2>1. /\ UNCHANGED <<Reads, waiters, calls, ready_requests, marked, done_recving,
                       failed_recv_reqs, invalid_block_ids, flagged, recving_metadata>>
        /\ todo' = S /\ pc = "idle" /\ pc' = "load"
        /\ \A r \in S : status[r] = "new" /\ status'[r] \in {"waiting", "cached"}
        /\ \A r \in Reqs \ S : status'[r] = status[r]
    BY <1>2 DEF BeginStep, TypeOK
  <2>2. \A r \in S : r \notin recving_metadata
    BY <2>1 DEF ReportInv, ResolvedForgotten
  <2>3. OnePlace'
    BY <2>1, <2>2 DEF ReportInv, OnePlace, Coming, Leaving, Reading
  <2>4. ResolvedForgotten' /\ LoadedIsComplete'
    BY <2>1 DEF ReportInv, ResolvedForgotten, LoadedIsComplete
  <2>5. ErrorsKnown'
    BY <2>1 DEF ReportInv, ErrorsKnown, Errors, Complete, Reading
  <2> QED
    BY <2>3, <2>4, <2>5 DEF ReportInv
<1>3. ASSUME NEW r \in Reqs, LoadOne(r) PROVE ReportInv'
  <2>1. /\ pc' = pc /\ pc # "clear" /\ r \in todo /\ todo' = todo \ {r}
        /\ recving_metadata' = recving_metadata \union {r}
        /\ UNCHANGED <<status, flagged, done_recving, calls, marked>>
    BY <1>3 DEF LoadOne
  <2>2. status[r] \notin {"new", "loaded", "recompute"} /\ r \notin recving_metadata
    BY <2>1 DEF ReportInv, OnePlace, ResolvedForgotten
  <2>3. CASE BackgroundHandshake(r)
    <3>1. UNCHANGED <<recving_transfers, xfer>>
          /\ Errors \subseteq Errors'
      BY <2>1, <2>3 DEF BackgroundHandshake, Errors
    <3>2. OnePlace'
      BY <2>1, <2>2, <2>3 DEF BackgroundHandshake, ReportInv, OnePlace, Coming,
                              Leaving, Reading, ReadsInv, ComingOnce
    <3>3. ResolvedForgotten'
      BY <2>1, <2>2 DEF ReportInv, ResolvedForgotten
    <3>4. (marked' \union failed_recv_reqs') \ Empty \subseteq Errors'
      BY <2>1, <2>3 DEF BackgroundHandshake, ReportInv, ErrorsKnown, Errors
    <3> QED
      BY <1>1, <2>1, <3>1, <3>2, <3>3, <3>4 DEF ReportInv, ErrorsKnown
  <2>4. CASE ReadBlocks(r) /\ UNCHANGED <<ready_requests, future, waiters>>
    <3>1. r \notin ready_requests
      BY <2>1 DEF ReadsInv, ComingOnce
    <3>2. ready_requests' = ready_requests \ {r}
      BY <2>4, <3>1
    <3> QED
      BY <2>1, <2>4, <3>2, ReadBlocksReport
  <2> QED
    BY <1>3, <2>3, <2>4 DEF LoadOne
<1>4. CASE \/ EndLoad \/ EndDrain \/ (EndFinished /\ ReportRaises)
           \/ LearnBlockSize \/ EndHandshake
  <2>1. /\ UNCHANGED <<Reads, status, flagged, todo, waiters, calls, marked,
                       done_recving, ready_requests, failed_recv_reqs,
                       invalid_block_ids, recving_metadata>>
        /\ pc # "clear" \/ pc' = pc
    BY <1>4 DEF EndLoad, EndDrain, EndFinished, ReportRaises, LearnBlockSize, EndHandshake
  <2> QED
    BY <2>1 DEF ReportInv, OnePlace, ResolvedForgotten, ErrorsKnown, Coming, Leaving,
                Reading, Errors, Complete, LoadedIsComplete
<1>5. ASSUME NEW r \in Reqs, DrainOne(r) PROVE ReportInv'
  <2>1. /\ pc # "clear" /\ r \in ready_requests /\ ReadBlocks(r)
        /\ ready_requests' = ready_requests \ {r}
        /\ UNCHANGED <<status, flagged, todo, waiters, calls, done_recving, marked,
                       recving_metadata>>
    BY <1>5 DEF DrainOne
  <2>2. r \notin todo /\ r \in recving_metadata
    BY <2>1 DEF ReportInv, OnePlace, ReadsInv, ComingOnce
  <2>3. todo' = todo \ {r} /\ recving_metadata' = recving_metadata \union {r}
    BY <2>1, <2>2
  <2> QED
    BY <2>1, <2>3, ReadBlocksReport
<1>6. CASE PopDoneTransfers
  <2>1. /\ UNCHANGED <<status, flagged, todo, waiters, calls, marked, xfer,
                       ready_requests, failed_recv_reqs, recving_metadata>>
        /\ recving_transfers' = {h \in recving_transfers : xfer[h] = "PROC"}
        /\ done_recving' = AllEnded
        /\ pc = "pop" /\ pc' = "take"
        /\ Errors \subseteq Errors'
    BY <1>6 DEF PopDoneTransfers, Ended, Errors
  <2>2. AllEnded \subseteq Reading /\ Reading' \subseteq Reading
        /\ AllEnded \intersect Reading' = {}
    BY <2>1 DEF AllEnded, Ended, Reading
  <2>3. OnePlace'
    BY <2>1, <2>2 DEF ReportInv, OnePlace, Coming, Leaving
  <2>4. \A h \in recving_transfers : xfer[h] = "ERR" => h[1] \in Errors'
    <3> SUFFICES ASSUME NEW h \in recving_transfers, xfer[h] = "ERR"
                 PROVE  h[1] \in Errors'
      OBVIOUS
    <3>1. h[1] \in recving_metadata
      BY DEF Reading, ReportInv, OnePlace
    <3> QED
      BY <1>6, <3>1 DEF PopDoneTransfers, Ended, Errors
  <2>5. ASSUME NEW r \in Reading, r \notin Errors', NEW p \in Ranks
        PROVE  <<r, p>> \in recving_transfers' \/ xfer'[<<r, p>>] = "DONE"
    <3>1. <<r, p>> \in Handles
      BY <1>0, <2>5 DEF Handles
    <3>2. <<r, p>> \in recving_transfers \/ xfer[<<r, p>>] = "DONE"
      BY <2>1, <2>5 DEF ReportInv, ErrorsKnown
    <3>3. CASE <<r, p>> \in recving_transfers
      BY <2>1, <2>4, <2>5, <3>1, <3>3 DEF TypeOK, ReadsInv, HandlesTracked
    <3> QED
      BY <2>1, <3>2, <3>3
  <2>6. ErrorsKnown'
    <3>1. \A r \in done_recving' : r \in Errors' \/ Complete(r)'
      <4> SUFFICES ASSUME NEW r \in AllEnded, r \notin Errors', NEW p \in Ranks
                   PROVE  xfer'[<<r, p>>] = "DONE"
        BY <2>1 DEF Complete
      <4>1. r \in Reading /\ r \notin Reading'
        BY <2>2
      <4> QED
        BY <2>5, <4>1 DEF Reading
    <3> QED
      BY <2>1, <2>2, <2>5, <3>1 DEF ErrorsKnown, ReportInv
  <2> QED
    BY <2>1, <2>3, <2>6 DEF ReportInv, ResolvedForgotten, LoadedIsComplete
<1>7. CASE TakeFailed \/ ClearFailed
  <2>1. /\ UNCHANGED <<Reads, status, flagged, todo, waiters, calls, marked,
                       ready_requests, invalid_block_ids, recving_metadata>>
        /\ done_recving' \subseteq Leaving /\ failed_recv_reqs' \subseteq failed_recv_reqs
        /\ done_recving \subseteq done_recving'
        /\ pc' = "clear" \/ failed_recv_reqs' = {}
    BY <1>7 DEF TakeFailed, ClearFailed, Leaving
  <2>2. OnePlace'
    BY <2>1 DEF ReportInv, OnePlace, Coming, Leaving, Reading
  <2>3. ErrorsKnown'
    BY <2>1 DEF ReportInv, ErrorsKnown, Errors, Leaving, Reading, Complete
  <2> QED
    BY <2>1, <2>2, <2>3 DEF ReportInv, ResolvedForgotten, LoadedIsComplete
<1>8. CASE EndFinished /\ Report
  <2>1. /\ UNCHANGED <<Reads, todo, waiters, calls, marked, ready_requests,
                       failed_recv_reqs>>
        /\ recving_metadata' = recving_metadata \ done_recving
        /\ flagged' = Errors /\ invalid_block_ids' = {} /\ done_recving' = {}
        /\ status' = [r \in Reqs |->
                         IF r \notin done_recving \/ status[r] # "waiting" THEN status[r]
                         ELSE IF r \in Errors THEN "recompute" ELSE "loaded"]
        /\ pc = "report"
    BY <1>8 DEF EndFinished, Report, ReportInv, OnePlace, Leaving, Errors
  <2>2. OnePlace'
    BY <2>1 DEF ReportInv, OnePlace, Coming, Leaving, Reading
  <2>3. ResolvedForgotten'
    BY <2>1 DEF ReportInv, OnePlace, ResolvedForgotten, Leaving
  <2>4. Errors' = Errors
    BY <2>1 DEF Errors
  <2>5. ErrorsKnown'
    BY <2>1, <2>4 DEF ReportInv, ErrorsKnown, Reading
  <2>6. LoadedIsComplete'
    BY <2>1 DEF ReportInv, ErrorsKnown, HandedOver, Complete, LoadedIsComplete
  <2> QED
    BY <2>2, <2>3, <2>5, <2>6 DEF ReportInv
<1>9. CASE DoneCallback
  <2>1. /\ UNCHANGED <<Reads, status, flagged, pc, todo, marked, done_recving,
                       ready_requests, failed_recv_reqs, invalid_block_ids,
                       recving_metadata>>
        /\ calls' = waiters /\ waiters' = {}
    BY <1>9 DEF DoneCallback
  <2> QED
    BY <2>1 DEF ReportInv, OnePlace, ResolvedForgotten, ErrorsKnown, Coming, Leaving,
                Reading, Errors, Complete, LoadedIsComplete
<1>10. ASSUME NEW r \in Reqs, RequestReady(r) \/ RequestFailed(r) \/ AddFailed(r)
       PROVE  ReportInv'
  <2>1. /\ UNCHANGED <<Reads, status, flagged, pc, todo, waiters, done_recving,
                       recving_metadata>>
        /\ Errors \subseteq Errors'
    BY <1>10 DEF RequestReady, RequestFailed, AddFailed, Errors
  <2>2. OnePlace'
    BY <1>10 DEF RequestReady, RequestFailed, AddFailed, ReportInv, OnePlace, Coming,
                 Leaving, Reading, ReadsInv, ComingOnce
  <2>3. (marked' \union failed_recv_reqs') \ Empty \subseteq Errors'
    BY <1>10 DEF RequestReady, RequestFailed, AddFailed, ReportInv, ErrorsKnown,
                 OnePlace, Errors
  <2> QED
    BY <1>1, <2>1, <2>2, <2>3 DEF ReportInv, ErrorsKnown, ResolvedForgotten
<1>11. ASSUME NEW g \in Handles, XferDone(g) \/ XferError(g) PROVE ReportInv'
  <2>1. /\ UNCHANGED <<status, flagged, pc, todo, waiters, calls, marked, done_recving,
                       ready_requests, failed_recv_reqs, invalid_block_ids,
                       recving_metadata, recving_transfers>>
        /\ xfer[g] = "PROC"
        /\ \A h \in Handles \ {g} : xfer'[h] = xfer[h]
    BY <1>11 DEF XferDone, XferError, TypeOK
  <2>2. \A h \in Handles : xfer[h] = "DONE" => xfer'[h] = "DONE"
    BY <2>1
  <2>3. \A r \in Reqs, p \in Ranks : <<r, p>> \in Handles
    BY DEF Handles
  <2>4. OnePlace' /\ ResolvedForgotten'
    BY <2>1 DEF ReportInv, OnePlace, ResolvedForgotten, Coming, Leaving, Reading
  <2>5. ErrorsKnown' /\ LoadedIsComplete'
    BY <1>0, <2>1, <2>2, <2>3 DEF ReportInv, ErrorsKnown, LoadedIsComplete, Errors,
                                  Leaving, Reading, Complete
  <2> QED
    BY <2>4, <2>5 DEF ReportInv
<1>12. CASE UNCHANGED vars
  BY <1>12 DEF vars, ReportInv, OnePlace, ResolvedForgotten, ErrorsKnown, Coming,
               Leaving, Reading, Errors, Complete, LoadedIsComplete
<1>13. CASE Main
  BY <1>13, <1>2, <1>3, <1>4, <1>5, <1>6, <1>7, <1>8
  DEF Main, EndFinished, Begin, Load, Drain
<1>14. CASE Callback
  BY <1>14, <1>10 DEF Callback
<1> QED
  BY <1>4, <1>9, <1>11, <1>12, <1>13, <1>14 DEF Next

LEMMA ReportInit == Init => ReportInv
BY ConsumerAssumption DEF Init, ReportInv, OnePlace, ResolvedForgotten, ErrorsKnown,
   Coming, Leaving, Reading, Errors, LoadedIsComplete

\* If the reads of a request are posted together or not at all, the invariant
\* behind the reports always holds.
THEOREM ReportInvariant == ReadsFailTogether => (Spec => []ReportInv)
<1> SUFFICES ASSUME ReadsFailTogether PROVE Spec => []ReportInv
  OBVIOUS
<1>1. TypeOK /\ TypeOK' /\ HandedOver /\ ReadsInv /\ ReportInv /\ [Next]_vars
        => ReportInv'
  BY ReportNext
<1> QED
  BY <1>1, ReportInit, TypeCorrect, HandedOverInvariant, ReadsOnce, PTL DEF Spec

\* Then a request the engine takes as loaded has its blocks from every rank,
\* whichever thread its failures were met on.
THEOREM LoadsComplete == ReadsFailTogether => (Spec => []LoadedIsComplete)
<1>1. ReportInv => LoadedIsComplete
  BY DEF ReportInv
<1> QED
  BY <1>1, ReportInvariant, PTL

\* The assertion of get_finished, "not found in recving_metadata list", holds.
THEOREM ReportsOnce == ReadsFailTogether => (Spec => []ReportedHasMetadata)
<1>1. ReportInv => ReportedHasMetadata
  BY DEF ReportInv, OnePlace, Leaving, ReportedHasMetadata
<1> QED
  BY <1>1, ReportInvariant, PTL

\* No read writes to the blocks of a request that was reported.
THEOREM ReportsWhenDone == ReadsFailTogether => (Spec => []ReportedOnlyWhenDone)
<1>1. ReadsInv /\ ReportInv => ReportedOnlyWhenDone
  BY DEF ReportInv, ReadsInv, OnePlace, ResolvedForgotten, HandlesTracked, Reading,
         Handles, ReportedOnlyWhenDone
<1> QED
  BY <1>1, ReadsOnce, ReportInvariant, PTL

-----------------------------------------------------------------------------
(* A waiting request stays on its way to the engine *)

\* No callback of a failed handshake runs, and those of one handshake have all
\* run before the next ends.
CallbacksInOrder ==
  /\ future # "failed" /\ outcome = "ok" /\ marked = {}
  /\ future = "ok" => calls = {}

\* Nothing is left over from the parts of the step that are done with.
StepInOrder ==
  /\ pc # "load" => todo = {}
  /\ pc \notin {"take", "clear", "report"} => done_recving = {}
  /\ pc = "clear" => failed_recv_reqs \subseteq done_recving

\* WaitingIsPending in terms of the places above.
WaitingOnWay ==
  \A r \in Reqs : status[r] = "waiting" => r \in Coming \union Leaving \union Reading

PendingInv == CallbacksInOrder /\ StepInOrder /\ WaitingOnWay

\* A request with something to read is read from every rank, or fails.
LEMMA ReadBlocksPlaces ==
  ASSUME TypeOK, ReadsFailTogether, NEW r \in Reqs, ReadBlocks(r)
  PROVE  /\ r \notin Empty => r \in Reading' \union failed_recv_reqs'
         /\ Reading \subseteq Reading'
         /\ failed_recv_reqs \subseteq failed_recv_reqs'
<1>1. /\ recving_transfers \subseteq recving_transfers'
      /\ failed_recv_reqs \subseteq failed_recv_reqs'
  BY DEF ReadBlocks, NotifyOnly, PostReads
<1>2. ASSUME r \notin Empty PROVE r \in Reading' \union failed_recv_reqs'
  <2>1. PICK bad \in SUBSET Ranks : PostReads(r, bad)
    BY <1>2 DEF ReadBlocks, NotifyOnly
  <2>2. CASE bad = {}
    <3>1. PICK p \in Ranks : TRUE
      BY ConsumerAssumption
    <3>2. <<r, p>> \in recving_transfers'
      BY <2>1, <2>2 DEF PostReads
    <3> QED
      BY <3>2 DEF Reading
  <2>3. CASE bad # {}
    BY <2>1, <2>3 DEF PostReads
  <2> QED
    BY <2>2, <2>3
<1> QED
  BY <1>1, <1>2 DEF Reading

\* Every step keeps the pending invariant.
LEMMA PendingNext ==
  ASSUME TypeOK, TypeOK', HandedOver, ReportInv, PendingInv, ReadsFailTogether,
         ~HandshakeFails, [Next]_vars
  PROVE  PendingInv'
<1> USE DEF engineVars, mainVars, sharedVars, futureVars, threadVars, nixlVars
<1>1. ASSUME NEW S \in SUBSET Reqs, BeginStep(S) PROVE PendingInv'
  <2>1. /\ UNCHANGED <<recving_transfers, waiters, calls, ready_requests, marked,
                       done_recving, failed_recv_reqs, future, outcome>>
        /\ todo' = S /\ pc = "idle" /\ pc' = "load"
        /\ \A r \in Reqs \ S : status'[r] = status[r]
    BY <1>1 DEF BeginStep, TypeOK
  <2>2. WaitingOnWay'
    BY <2>1 DEF PendingInv, WaitingOnWay, StepInOrder, Coming, Leaving,
                Reading
  <2> QED
    BY <2>1, <2>2 DEF PendingInv, CallbacksInOrder, StepInOrder
<1>2. ASSUME NEW r \in Reqs, LoadOne(r) PROVE PendingInv'
  <2>1. /\ pc = "load" /\ pc' = pc /\ todo' = todo \ {r}
        /\ UNCHANGED <<status, calls, outcome, marked, done_recving>>
    BY <1>2 DEF LoadOne
  <2>2. CASE BackgroundHandshake(r)
    <3>1. WaitingOnWay'
      BY <2>1, <2>2 DEF BackgroundHandshake, PendingInv, WaitingOnWay, Coming, Leaving,
                        Reading
    <3>2. CallbacksInOrder' /\ StepInOrder'
      BY <2>1, <2>2 DEF BackgroundHandshake, PendingInv, CallbacksInOrder,
                        StepInOrder
    <3> QED
      BY <3>1, <3>2 DEF PendingInv
  <2>3. CASE ReadBlocks(r) /\ UNCHANGED <<ready_requests, future, waiters>>
    <3>1. WaitingOnWay'
      BY <2>1, <2>3, ReadBlocksPlaces DEF PendingInv, HandedOver, WaitingOnWay,
                                          Coming, Leaving
    <3> QED
      BY <2>1, <2>3, <3>1 DEF PendingInv, CallbacksInOrder, StepInOrder
  <2> QED
    BY <1>2, <2>2, <2>3 DEF LoadOne
<1>3. ASSUME NEW r \in Reqs, DrainOne(r) PROVE PendingInv'
  <2>1. /\ pc = "drain" /\ pc' = pc /\ ready_requests' = ready_requests \ {r}
        /\ UNCHANGED <<status, todo, waiters, calls, outcome, marked, future,
                       done_recving>>
        /\ ReadBlocks(r)
    BY <1>3 DEF DrainOne
  <2>2. WaitingOnWay'
    BY <2>1, ReadBlocksPlaces DEF PendingInv, HandedOver, WaitingOnWay, Coming,
                                  Leaving
  <2> QED
    BY <2>1, <2>2 DEF PendingInv, CallbacksInOrder, StepInOrder
<1>4. CASE EndLoad \/ EndDrain \/ (EndFinished /\ ReportRaises)
  BY <1>4 DEF EndLoad, EndDrain, EndFinished, ReportRaises, PendingInv, CallbacksInOrder,
              StepInOrder,
              WaitingOnWay, Coming, Leaving, Reading
<1>5. CASE PopDoneTransfers
  <2>1. /\ UNCHANGED <<status, todo, waiters, calls, outcome, marked, future,
                       ready_requests, failed_recv_reqs>>
        /\ recving_transfers' = recving_transfers \ Ended
        /\ done_recving' = AllEnded /\ pc = "pop" /\ pc' = "take"
    BY <1>5 DEF PopDoneTransfers
  <2>2. Reading \subseteq Reading' \union AllEnded
    BY <2>1 DEF Reading, AllEnded
  <2>3. WaitingOnWay'
    BY <2>1, <2>2 DEF PendingInv, WaitingOnWay, StepInOrder, Coming, Leaving
  <2> QED
    BY <2>1, <2>3 DEF PendingInv, CallbacksInOrder, StepInOrder
<1>6. CASE TakeFailed
  BY <1>6 DEF TakeFailed, PendingInv, CallbacksInOrder, StepInOrder,
              WaitingOnWay, Coming, Leaving, Reading
<1>7. CASE ClearFailed
  BY <1>7 DEF ClearFailed, PendingInv, CallbacksInOrder, StepInOrder,
              WaitingOnWay, Coming, Leaving, Reading
<1>8. CASE EndFinished /\ Report
  <2>1. /\ UNCHANGED <<todo, waiters, calls, outcome, marked, future, ready_requests,
                       failed_recv_reqs, recving_transfers>>
        /\ done_recving' = {} /\ pc = "report" /\ pc' = "idle"
        /\ \A r \in Reqs : IF r \in done_recving THEN status'[r] # "waiting"
                           ELSE status'[r] = status[r]
    BY <1>8 DEF EndFinished, Report, ReportInv, OnePlace, Leaving
  <2>2. WaitingOnWay'
    BY <2>1 DEF PendingInv, WaitingOnWay, Coming, Leaving, Reading
  <2> QED
    BY <2>1, <2>2 DEF PendingInv, CallbacksInOrder, StepInOrder
<1>9. CASE LearnBlockSize \/ EndHandshake
  BY <1>9 DEF LearnBlockSize, EndHandshake, Handshaking, PendingInv, CallbacksInOrder, StepInOrder,
              WaitingOnWay, Coming, Leaving, Reading
<1>10. CASE DoneCallback
  BY <1>10 DEF DoneCallback, PendingInv, CallbacksInOrder, StepInOrder,
               WaitingOnWay, Coming, Leaving, Reading
<1>11. ASSUME NEW r \in Reqs, RequestReady(r) \/ RequestFailed(r) \/ AddFailed(r)
       PROVE  PendingInv'
  <2>1. RequestReady(r)
    BY <1>11 DEF RequestFailed, AddFailed, PendingInv, CallbacksInOrder
  <2> QED
    BY <2>1 DEF RequestReady, PendingInv, CallbacksInOrder, StepInOrder,
                WaitingOnWay, Coming, Leaving, Reading
<1>12. ASSUME NEW h \in Handles, XferDone(h) \/ XferError(h) PROVE PendingInv'
  BY <1>12 DEF XferDone, XferError, PendingInv, CallbacksInOrder, StepInOrder,
               WaitingOnWay, Coming, Leaving, Reading
<1>13. CASE UNCHANGED vars
  BY <1>13 DEF vars, PendingInv, CallbacksInOrder, StepInOrder,
               WaitingOnWay, Coming, Leaving, Reading
<1>14. CASE Main
  BY <1>14, <1>1, <1>2, <1>3, <1>4, <1>5, <1>6, <1>7, <1>8

  DEF Main, EndFinished, Begin, Load, Drain
<1>15. CASE Callback
  BY <1>15, <1>11 DEF Callback
<1> QED
  BY <1>9, <1>10, <1>12, <1>13, <1>14, <1>15 DEF Next

LEMMA PendingInit == Init => PendingInv
BY DEF Init, PendingInv, CallbacksInOrder, StepInOrder, WaitingOnWay

\* If also no handshake fails, a waiting request is always on its way to the
\* engine: in a queue, a future, a callback or a read that leads it there.
THEOREM WaitingPending ==
  ReadsFailTogether /\ ~HandshakeFails => (Spec => []WaitingIsPending)
<1> SUFFICES ASSUME ReadsFailTogether, ~HandshakeFails
             PROVE  Spec => []WaitingIsPending
  OBVIOUS
<1>1. TypeOK /\ TypeOK' /\ HandedOver /\ ReportInv /\ PendingInv /\ [Next]_vars
        => PendingInv'
  BY PendingNext
<1>2. TypeOK /\ PendingInv => WaitingIsPending
  <2> SUFFICES ASSUME TypeOK, PendingInv, NEW r \in Reqs, r \in Reading
               PROVE  \E p \in Ranks : <<r, p>> \in recving_transfers
    BY DEF PendingInv, CallbacksInOrder, WaitingOnWay, WaitingIsPending, Coming, Leaving
  <2> QED
    BY DEF TypeOK, Reading, Handles
<1> QED
  BY <1>1, <1>2, PendingInit, TypeCorrect, HandedOverInvariant, ReportInvariant, PTL
  DEF Spec
-----------------------------------------------------------------------------
(* The worker implements KVFetch *)

\* Reading a request that was on its way posts all its reads, tells ranks of
\* one without reads, or fails, of which KVFetch sees nothing.
LEMMA ReadBlocksFetch ==
  ASSUME TypeOK, TypeOK', ReadsInv, ReportInv, ReadsFailTogether, HandedOver,
         NEW r \in Reqs, ReadBlocks(r), r \in todo \union ready_requests,
         status' = status
  PROVE  [Fetch!Next]_Fetch!fetchVars
<1>1. status[r] \in {"waiting", "cached"}
  <2>1. status[r] # "new"
    BY DEF ReadsInv, ComingOnce, Coming
  <2>2. r \in recving_metadata \union todo
    BY DEF ReportInv, OnePlace
  <2> QED
    BY <2>1, <2>2 DEF ReportInv, ResolvedForgotten, TypeOK
<1>2. CASE \E lost \in SUBSET Ranks : NotifyOnly(r, lost)
  <2> PICK lost \in SUBSET Ranks : NotifyOnly(r, lost)
    BY <1>2
  <2>1. status[r] = "cached"
    BY <1>1 DEF NotifyOnly, HandedOver
  <2>2. CASE notified' = notified
    BY <2>2 DEF NotifyOnly, Fetch!fetchVars
  <2>3. CASE notified' = notified \union ({r} \X (Ranks \ lost))
    <3>1. Fetch!Tell(r, Ranks \ lost)
      BY <2>1, <2>3 DEF NotifyOnly, Fetch!Tell
    <3> QED
      BY <3>1 DEF Fetch!Next
  <2> QED
    BY <2>2, <2>3 DEF NotifyOnly
<1>3. CASE \E bad \in SUBSET Ranks : PostReads(r, bad)
  <2>1. notified' = notified /\ status[r] = "waiting"
    BY <1>1, <1>3 DEF PostReads, HandedOver
  <2>2. CASE xfer' = xfer
    BY <2>1, <2>2 DEF Fetch!fetchVars
  <2>3. CASE xfer' = [h \in Handles |-> IF h \in {r} \X Ranks THEN "PROC" ELSE xfer[h]]
    <3>1. \A p \in Ranks : xfer[<<r, p>>] = "none"
      BY DEF ReadsInv, UnreadUntouched, Coming, Handles
    <3>2. \A h \in Handles : h \in {r} \X Ranks <=> h[1] = r
      BY DEF Handles
    <3>3. xfer' = [h \in Handles |-> IF h[1] = r THEN "PROC" ELSE xfer[h]]
      BY <2>3, <3>2
    <3>4. Fetch!Post(r)
      BY <2>1, <3>1, <3>3 DEF Fetch!Post, Fetch!Handles, Handles
    <3> QED
      BY <3>4 DEF Fetch!Next
  <2> QED
    BY <2>2, <2>3, ReadBlocksOutcomes
<1> QED
  BY <1>2, <1>3 DEF ReadBlocks

\* Every step of the worker is one of KVFetch, or invisible to it.
LEMMA FetchNext ==
  ASSUME TypeOK, TypeOK', ReadsInv, ReportInv, ReadsFailTogether, HandedOver,
         [Next]_vars
  PROVE  [Fetch!Next]_Fetch!fetchVars
<1> USE DEF engineVars, mainVars, sharedVars, futureVars, threadVars, nixlVars
<1>1. CASE UNCHANGED <<status, xfer, notified>>
  BY <1>1 DEF Fetch!fetchVars
<1>2. ASSUME NEW S \in SUBSET Reqs, BeginStep(S)
      PROVE  [Fetch!Next]_Fetch!fetchVars
  <2>1. Fetch!HandOver(S \ Empty, S \intersect Empty)
    BY <1>2 DEF BeginStep, Fetch!HandOver
  <2> QED
    BY <2>1 DEF Fetch!Next
<1>3. ASSUME NEW r \in Reqs, LoadOne(r) PROVE [Fetch!Next]_Fetch!fetchVars
  <2>1. CASE BackgroundHandshake(r)
    BY <1>1, <1>3, <2>1 DEF LoadOne, BackgroundHandshake
  <2>2. CASE ReadBlocks(r)
    BY <1>3, <2>2, ReadBlocksFetch DEF LoadOne
  <2> QED
    BY <1>3, <2>1, <2>2 DEF LoadOne
<1>4. ASSUME NEW r \in Reqs, DrainOne(r) PROVE [Fetch!Next]_Fetch!fetchVars
  BY <1>4, ReadBlocksFetch DEF DrainOne
<1>5. CASE \/ EndLoad \/ EndDrain \/ PopDoneTransfers \/ TakeFailed \/ ClearFailed
           \/ (EndFinished /\ ReportRaises)
  BY <1>1, <1>5 DEF EndLoad, EndDrain, PopDoneTransfers, TakeFailed, ClearFailed,
                    EndFinished, ReportRaises
<1>6. CASE EndFinished /\ Report
  <2> DEFINE W == {r \in done_recving : status[r] = "waiting"}
             L == W \ Errors
             B == W \intersect Errors
  <2>1. /\ status' = [r \in Reqs |->
                         IF r \notin done_recving \/ status[r] # "waiting" THEN status[r]
                         ELSE IF r \in Errors THEN "recompute" ELSE "loaded"]
        /\ UNCHANGED <<xfer, notified>>
    BY <1>6 DEF EndFinished, Report, Errors
  <2>2. ASSUME NEW r \in W
        PROVE  /\ \A p \in Ranks : xfer[<<r, p>>] # "PROC"
               /\ r \notin Errors => \A p \in Ranks : xfer[<<r, p>>] = "DONE"
    <3>1. r \in Reqs /\ r \notin Empty
      BY DEF TypeOK, HandedOver
    <3>2. r \notin Reading
      BY DEF ReportInv, OnePlace, Leaving
    <3>3. \A p \in Ranks : xfer[<<r, p>>] # "PROC"
      BY <3>1, <3>2 DEF ReadsInv, HandlesTracked, Reading, Handles
    <3> QED
      BY <3>1, <3>3 DEF ReportInv, ErrorsKnown, Complete
  <2>3. status' = [r \in Reqs |-> IF r \in L THEN "loaded"
                                 ELSE IF r \in B THEN "recompute" ELSE status[r]]
    BY <2>1
  <2>4. L \in SUBSET Reqs /\ B \in SUBSET Reqs
    BY DEF TypeOK
  <2>5. Fetch!Return(L, B)
    BY <2>1, <2>2, <2>3 DEF Fetch!Return
  <2> QED
    BY <2>4, <2>5 DEF Fetch!Next
<1>7. CASE LearnBlockSize \/ EndHandshake \/ DoneCallback \/ Callback
  BY <1>1, <1>7 DEF LearnBlockSize, EndHandshake, DoneCallback, Callback,
                    RequestReady, RequestFailed, AddFailed
<1>8. ASSUME NEW h \in Handles, XferDone(h) \/ XferError(h)
      PROVE  [Fetch!Next]_Fetch!fetchVars
  <2>1. Fetch!Complete(h) \/ Fetch!Fail(h)
    BY <1>8 DEF XferDone, XferError, Fetch!Complete, Fetch!Fail
  <2> QED
    BY <2>1 DEF Fetch!Next, Fetch!Handles, Handles
<1>9. CASE UNCHANGED vars
  BY <1>1, <1>9 DEF vars
<1> QED
  BY <1>2, <1>3, <1>4, <1>5, <1>6, <1>7, <1>8, <1>9
  DEF Next, Main, EndFinished, Begin, Load, Drain

\* If the reads of a request are posted together or not at all, the worker with
\* its two threads implements KVFetch.
THEOREM ConsumerImplementsFetch == ReadsFailTogether => (Spec => ImplementsFetch)
<1> SUFFICES ASSUME ReadsFailTogether PROVE Spec => ImplementsFetch
  OBVIOUS
<1>1. Init => Fetch!Init
  BY DEF Init, Fetch!Init, Fetch!Handles, Handles
<1>2. TypeOK /\ TypeOK' /\ ReadsInv /\ ReportInv /\ HandedOver /\ [Next]_vars
        => [Fetch!Next]_Fetch!fetchVars
  BY FetchNext
<1> QED
  BY <1>1, <1>2, TypeCorrect, HandedOverInvariant, ReadsOnce, ReportInvariant, PTL
  DEF Spec, ImplementsFetch, Fetch!Spec

-----------------------------------------------------------------------------
(* The worker stops in two ways only *)

\* What the main thread can rely on between the end of a good handshake, when
\* request_ready may already run, and done_callback, which stores the agents;
\* and what it cannot have done before an answer was accepted.
StopInv ==
  /\ ready_requests # {} => remote_agents \/ future = "ok"
  /\ calls # {} /\ outcome = "ok" => remote_agents
  /\ remote_agents \/ future = "ok" => block_size
  /\ ~block_size => \A h \in Handles : xfer[h] = "none"

\* Every step keeps it.
LEMMA StopNext ==
  ASSUME TypeOK, TypeOK', StopInv, [Next]_vars
  PROVE  StopInv'
<1> USE DEF engineVars, mainVars, sharedVars, futureVars, threadVars, nixlVars
<1>1. CASE /\ UNCHANGED <<calls, outcome, remote_agents, block_size, future, xfer>>
           /\ ready_requests' \subseteq ready_requests
  BY <1>1 DEF StopInv
<1>2. CASE \/ Begin \/ EndLoad \/ EndDrain \/ PopDoneTransfers \/ TakeFailed
           \/ ClearFailed \/ EndFinished
  BY <1>1, <1>2 DEF Begin, BeginStep, EndLoad, EndDrain, PopDoneTransfers, TakeFailed,
                    ClearFailed, EndFinished, Report, ReportRaises
<1>3. ASSUME NEW r \in Reqs, LoadOne(r) PROVE StopInv'
  <2>1. UNCHANGED <<calls, outcome, remote_agents, block_size>>
    BY <1>3 DEF LoadOne
  <2>2. CASE BackgroundHandshake(r)
    BY <2>1, <2>2 DEF BackgroundHandshake, StopInv
  <2>3. CASE remote_agents /\ UNCHANGED <<ready_requests, future, waiters>>
    BY <2>1, <2>3 DEF StopInv
  <2> QED
    BY <1>3, <2>2, <2>3 DEF LoadOne
<1>4. ASSUME NEW r \in Reqs, DrainOne(r) PROVE StopInv'
  BY <1>4 DEF DrainOne, StopInv
<1>5. CASE LearnBlockSize
  BY <1>5 DEF LearnBlockSize, StopInv
<1>6. CASE EndHandshake
  BY <1>6 DEF EndHandshake, Handshaking, StopInv
<1>7. CASE DoneCallback
  BY <1>7 DEF DoneCallback, StopInv
<1>8. ASSUME NEW r \in Reqs, RequestReady(r) \/ RequestFailed(r) \/ AddFailed(r)
      PROVE  StopInv'
  BY <1>8 DEF RequestReady, RequestFailed, AddFailed, StopInv
<1>9. ASSUME NEW h \in Handles, XferDone(h) \/ XferError(h) PROVE StopInv'
  BY <1>9 DEF XferDone, XferError, StopInv, TypeOK
<1>10. CASE UNCHANGED vars
  BY <1>1, <1>10 DEF vars
<1> QED
  BY <1>2, <1>3, <1>4, <1>5, <1>6, <1>7, <1>8, <1>9, <1>10
  DEF Next, Main, EndFinished, Load, Drain, Callback

\* A step that ends the main thread is a notification sent too early or a
\* report made too early.
LEMMA StopStep ==
  ASSUME TypeOK, ReportInv, StopInv, [Next]_vars, alive, ~alive'
  PROVE  \/ /\ pc = "drain" /\ future = "ok" /\ ~remote_agents
            /\ ready_requests \intersect Empty # {}
         \/ /\ pc = "report" /\ ~block_size
            /\ \A h \in Handles : xfer[h] = "none"
<1> USE DEF engineVars, mainVars, sharedVars, futureVars, threadVars, nixlVars
<1>1. ASSUME NEW r \in Reqs, ReadBlocks(r) PROVE r \in Empty /\ ~remote_agents
  BY <1>1 DEF ReadBlocks, NotifyOnly, PostReads
<1>2. \A r \in Reqs : ~LoadOne(r)
  BY <1>1 DEF LoadOne, BackgroundHandshake
<1>3. ASSUME NEW r \in Reqs, DrainOne(r)
      PROVE  /\ pc = "drain" /\ future = "ok" /\ ~remote_agents
             /\ ready_requests \intersect Empty # {}
  BY <1>1, <1>3 DEF DrainOne, StopInv
<1>4. CASE EndFinished /\ ReportRaises
  BY <1>4 DEF EndFinished, ReportRaises, ReportInv, OnePlace, Leaving, StopInv
<1>5. ~(\/ Begin \/ EndLoad \/ EndDrain \/ PopDoneTransfers \/ TakeFailed
        \/ ClearFailed \/ (EndFinished /\ Report))
  BY DEF Begin, BeginStep, EndLoad, EndDrain, PopDoneTransfers, TakeFailed,
         ClearFailed, EndFinished, Report
<1>6. ~(LearnBlockSize \/ EndHandshake \/ DoneCallback \/ Callback)
  BY DEF LearnBlockSize, EndHandshake, DoneCallback, Callback, RequestReady,
         RequestFailed, AddFailed
<1>7. \A h \in Handles : ~(XferDone(h) \/ XferError(h))
  BY DEF XferDone, XferError
<1>8. ~UNCHANGED vars
  BY DEF vars
<1> QED
  BY <1>2, <1>3, <1>4, <1>5, <1>6, <1>7, <1>8 DEF Next, Main, EndFinished, Load, Drain

\* If the reads of a request are posted together or not at all, an uncaught
\* exception ends the main thread in two situations only: a notification-only
\* request drained before done_callback, and the report of a handshake that
\* failed before any of the producer's answers was accepted.
THEOREM StopsTwoWays == ReadsFailTogether => (Spec => WorkerStops)
<1> SUFFICES ASSUME ReadsFailTogether PROVE Spec => WorkerStops
  OBVIOUS
<1> DEFINE Stops == \/ /\ pc = "drain" /\ future = "ok" /\ ~remote_agents
                       /\ ready_requests \intersect Empty # {}
                    \/ /\ pc = "report" /\ ~block_size
                       /\ \A h \in Handles : xfer[h] = "none"
<1>1. Init => StopInv
  BY DEF Init, StopInv
<1>2. TypeOK /\ TypeOK' /\ StopInv /\ [Next]_vars => StopInv'
  BY StopNext
<1>3. TypeOK /\ ReportInv /\ StopInv /\ [Next]_vars
        => [alive /\ ~alive' => Stops]_vars
  BY StopStep
<1> QED
  BY <1>1, <1>2, <1>3, TypeCorrect, ReportInvariant, PTL DEF Spec, WorkerStops
=============================================================================
