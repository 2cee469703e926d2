-------------------------- MODULE PDTransferProofs --------------------------
(***************************************************************************)
(* Theorems about PDTransfer: what the consumer's own steps guarantee when *)
(* they interleave with a producer that holds blocks under leases, for     *)
(* every set of requests and ranks and whatever is allowed to fail.        *)
(***************************************************************************)
EXTENDS PDTransfer, NixlConsumerProofs

-----------------------------------------------------------------------------
(* The consumer keeps its own promises *)

\* Every step is a step of the consumer or leaves it alone.
LEMMA TransferStep ==
  ASSUME [TransferNext]_transferVars
  PROVE  [Next]_vars
<1>1. ASSUME NEW S \in SUBSET Reqs, Decode(S) PROVE Next
  BY <1>1 DEF Decode, Next, Main, Begin
<1>2. ASSUME NEW h \in Handles, EndRead(h) PROVE Next
  BY <1>2 DEF EndRead, Next
<1>3. CASE Consume
  BY <1>3 DEF Consume, Next, Main
<1>4. CASE Produce \/ UNCHANGED transferVars
  BY <1>4 DEF Produce, transferVars
<1> QED
  BY <1>1, <1>2, <1>3, <1>4 DEF TransferNext

\* The composition implements the consumer on its own: all that is proved of
\* the consumer holds of it beside a producer that frees blocks at any time.
THEOREM TransferIsConsumer == TransferSpec => Spec
<1>1. TransferInit => Init
  BY DEF TransferInit
<1>2. [TransferNext]_transferVars => [Next]_vars
  BY TransferStep
<1> QED
  BY <1>1, <1>2, PTL DEF TransferSpec, Spec

-----------------------------------------------------------------------------
(* What is loaded has not been overtaken by a release *)

LeaseTypeOK ==
  /\ phase \in [Reqs -> {"prefill", "dropped", "leased", "freed"}]
  /\ deadline \in [Reqs -> Nat]
  /\ clock \in Nat
  /\ stale \subseteq Handles

\* Blocks were freed because all the ranks were told, or at the end of the
\* lease; a read that ends later can only be of the second kind.
ReleaseJustified ==
  \A r \in Reqs : phase[r] = "freed" =>
     Lease!Expired(r) \/ \A p \in Ranks : <<r, p>> \in notified

StaleExpired == \A h \in stale : phase[h[1]] = "freed" /\ Lease!Expired(h[1])

FreshInv == LeaseTypeOK /\ ReleaseJustified /\ StaleExpired

\* All readers of KVLease have read when every rank was told.
LEMMA AllReadMeans ==
  ASSUME NEW r \in Reqs
  PROVE  Lease!AllRead(r) <=> \A p \in Ranks : <<r, p>> \in notified
<1>1. ASSUME Lease!AllRead(r), NEW p \in Ranks PROVE <<r, p>> \in notified
  <2>1. <<r, "worker">> \in {q \in Reqs : <<q, p>> \in notified} \X {"worker"}
    BY <1>1 DEF Lease!AllRead
  <2> QED
    BY <2>1
<1>2. ASSUME \A p \in Ranks : <<r, p>> \in notified PROVE Lease!AllRead(r)
  BY <1>2 DEF Lease!AllRead
<1> QED
  BY <1>1, <1>2

\* The producer's steps take no lease back before its time.
LEMMA ProduceFresh ==
  ASSUME FreshInv, Produce
  PROVE  FreshInv'
<1>1. UNCHANGED <<notified, stale>>
  BY DEF Produce, vars, nixlVars
<1>2. ASSUME NEW r \in Reqs, Lease!Drop(r) PROVE FreshInv'
  BY <1>1, <1>2 DEF Lease!Drop, FreshInv, LeaseTypeOK, ReleaseJustified, StaleExpired,
                    Lease!Expired, Handles
<1>3. ASSUME NEW L \in SUBSET Reqs, NEW F \in SUBSET Reqs, Lease!LeaseAndFree(L, F)
      PROVE  FreshInv'
  <2>1. /\ \A r \in L : phase[r] = "prefill"
        /\ \A r \in F : phase[r] = "leased"
                        /\ (Lease!Expired(r) \/ \A p \in Ranks : <<r, p>> \in notified)
        /\ phase' = [r \in Reqs |-> IF r \in L THEN "leased"
                                    ELSE IF r \in F THEN "freed" ELSE phase[r]]
        /\ deadline' = [r \in Reqs |-> IF r \in L THEN clock + Timeout ELSE deadline[r]]
        /\ clock' = clock
    BY <1>3, AllReadMeans DEF Lease!LeaseAndFree
  <2>2. LeaseTypeOK'
    BY <1>1, <2>1, TransferAssumption DEF FreshInv, LeaseTypeOK
  <2>3. ReleaseJustified'
    BY <1>1, <2>1 DEF FreshInv, LeaseTypeOK, ReleaseJustified, Lease!Expired
  <2>4. StaleExpired'
    BY <1>1, <2>1 DEF FreshInv, LeaseTypeOK, StaleExpired, Lease!Expired, Handles
  <2> QED
    BY <2>2, <2>3, <2>4 DEF FreshInv
<1>4. CASE Lease!Tick
  BY <1>1, <1>4 DEF Lease!Tick, FreshInv, LeaseTypeOK, ReleaseJustified, StaleExpired,
                    Lease!Expired, Handles
<1> QED
  BY <1>2, <1>3, <1>4 DEF Produce

\* The consumer's steps un-tell no rank.
LEMMA NotifiedGrows ==
  ASSUME [Next]_vars
  PROVE  notified \subseteq notified'
<1> USE DEF engineVars, mainVars, sharedVars, futureVars, threadVars, nixlVars
<1>1. ASSUME NEW r \in Reqs, ReadBlocks(r) PROVE notified \subseteq notified'
  BY <1>1 DEF ReadBlocks, NotifyOnly, PostReads
<1>2. CASE Main
  BY <1>1, <1>2 DEF Main, Begin, BeginStep, Load, LoadOne, BackgroundHandshake, EndLoad,
     Drain, DrainOne, EndDrain, PopDoneTransfers, TakeFailed, ClearFailed, EndFinished,
     Report, ReportRaises
<1>3. CASE LearnBlockSize \/ EndHandshake \/ DoneCallback \/ Callback
  BY <1>3 DEF LearnBlockSize, EndHandshake, DoneCallback, Callback, RequestReady,
     RequestFailed, AddFailed
<1>4. CASE \E h \in Handles : XferDone(h) \/ XferError(h)
  BY <1>4 DEF XferDone, XferError
<1>5. CASE UNCHANGED vars
  BY <1>5 DEF vars
<1> QED
  BY <1>2, <1>3, <1>4, <1>5 DEF Next

\* Every step keeps the freshness invariant.
LEMMA FreshNext ==
  ASSUME ReadsInv, FreshInv, [TransferNext]_transferVars
  PROVE  FreshInv'
<1>1. CASE UNCHANGED <<leaseVars, stale>> /\ [Next]_vars
  BY <1>1, NotifiedGrows DEF leaseVars, FreshInv, LeaseTypeOK, ReleaseJustified,
     StaleExpired, Lease!Expired
<1>2. ASSUME NEW h \in Handles, EndRead(h) PROVE FreshInv'
  <2>1. /\ notified \subseteq notified' /\ UNCHANGED leaseVars
        /\ stale' = IF phase[h[1]] = "freed" THEN stale \union {h} ELSE stale
        /\ xfer[h] = "PROC" /\ h[1] \in Reqs /\ h[2] \in Ranks /\ h = <<h[1], h[2]>>
    BY <1>2, HandleParts DEF EndRead, XferDone
  <2>2. h \notin notified
    <3>1. h[1] \notin Empty
      BY <2>1 DEF ReadsInv, UnreadUntouched
    <3> QED
      BY <2>1, <3>1 DEF ReadsInv, NotifiedAfterRead
  <2>3. phase[h[1]] = "freed" => Lease!Expired(h[1])
    BY <2>1, <2>2 DEF FreshInv, ReleaseJustified
  <2> QED
    BY <2>1, <2>3 DEF leaseVars, FreshInv, LeaseTypeOK, ReleaseJustified, StaleExpired,
                      Lease!Expired
<1>3. ASSUME NEW S \in SUBSET Reqs, Decode(S) PROVE FreshInv'
  BY <1>1, <1>3, TransferStep DEF Decode, TransferNext
<1>4. CASE Consume
  BY <1>1, <1>4, TransferStep DEF Consume, TransferNext
<1>5. CASE UNCHANGED transferVars
  BY <1>1, <1>5 DEF transferVars
<1> QED
  BY <1>2, <1>3, <1>4, <1>5, ProduceFresh DEF TransferNext

LEMMA FreshInit == TransferInit => FreshInv
BY DEF TransferInit, FreshInv, LeaseTypeOK, ReleaseJustified, StaleExpired

\* A read overtaken by the release of its blocks has outlived its whole lease.
THEOREM FreshInvariant == TransferSpec => []FreshInv
<1>1. ReadsInv /\ FreshInv /\ [TransferNext]_transferVars => FreshInv'
  BY FreshNext
<1>2. TransferSpec => []ReadsInv
  BY TransferIsConsumer, ReadsOnce, PTL
<1> QED
  BY <1>1, <1>2, FreshInit, PTL DEF TransferSpec

\* Whatever fails, a request the engine takes as loaded was read from blocks
\* that the producer still held, unless its lease had run out.
THEOREM LoadsFresh == TransferSpec => []LoadedIsFresh
<1>1. FreshInv => LoadedIsFresh
  BY DEF FreshInv, StaleExpired, LoadedIsFresh
<1> QED
  BY <1>1, FreshInvariant, PTL

\* Together: what the engine takes as loaded is complete, and was read from the
\* producer's blocks of that request, or after the lease.
THEOREM LoadsSound ==
  ReadsFailTogether => (TransferSpec => [](LoadedIsComplete /\ LoadedIsFresh))
BY TransferIsConsumer, LoadsComplete, LoadsFresh, PTL

\* The worker keeps the promise of KVFetch beside a producer that may free the
\* blocks at any time.
THEOREM TransferImplementsFetch ==
  ReadsFailTogether => (TransferSpec => ImplementsFetch)
BY TransferIsConsumer, ConsumerImplementsFetch, PTL

\* Nor does the producer add to the ways the worker can stop.
THEOREM TransferStops == ReadsFailTogether => (TransferSpec => WorkerStops)
BY TransferIsConsumer, StopsTwoWays, PTL
=============================================================================
