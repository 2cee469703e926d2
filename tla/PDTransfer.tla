----------------------------- MODULE PDTransfer -----------------------------
(***************************************************************************)
(* A prefill and a decode instance together: the consumer of NixlConsumer  *)
(* reads blocks that the producer holds under the leases of KVLease, which *)
(* NixlProducer is proved to implement.  All the producer learns of a read *)
(* is its notification; what the consumer learns of a lease is nothing.    *)
(***************************************************************************)
EXTENDS NixlConsumer, Naturals

CONSTANTS
  Timeout,  \* VLLM_NIXL_ABORT_REQUEST_TIMEOUT
  MaxClock  \* bound on the clock

ASSUME TransferAssumption == Timeout \in Nat /\ MaxClock \in Nat

VARIABLES
  phase, deadline, clock,  \* of KVLease
  stale                    \* reads that ended when the blocks were freed

leaseVars    == <<phase, deadline, clock>>
transferVars == <<vars, leaseVars, stale>>

\* A rank of the producer has one reader, the consumer's worker, and counts
\* its notifications.
Lease == INSTANCE KVLease WITH
  Readers <- {"worker"},
  read <- [p \in Ranks |-> {r \in Reqs : <<r, p>> \in notified} \X {"worker"}]

TransferInit ==
  /\ Init
  /\ phase = [r \in Reqs |-> "prefill"]
  /\ deadline = [r \in Reqs |-> 0]
  /\ clock = 0
  /\ stale = {}

\* The producer finishes, drops and frees requests as KVLease allows.
Produce ==
  /\ UNCHANGED <<vars, stale>>
  /\ \/ \E r \in Reqs : Lease!Drop(r)
     \/ \E L, F \in SUBSET Reqs : L \union F # {} /\ Lease!LeaseAndFree(L, F)
     \/ clock < MaxClock /\ Lease!Tick

\* The proxy sends a request to decode with the producer's answer, its
\* kv_transfer_params, so never before it is leased.
Decode(S) ==
  /\ \A r \in S : phase[r] \in {"leased", "freed"}
  /\ BeginStep(S)
  /\ UNCHANGED <<leaseVars, stale>>

\* A read ends.  Blocks freed by then may hold another request's KV.
EndRead(h) ==
  /\ XferDone(h)
  /\ stale' = IF phase[h[1]] = "freed" THEN stale \union {h} ELSE stale
  /\ UNCHANGED leaseVars

\* Every other step of the consumer.
Consume ==
  /\ \/ Load \/ EndLoad \/ Drain \/ EndDrain
     \/ PopDoneTransfers \/ TakeFailed \/ ClearFailed \/ EndFinished
     \/ LearnBlockSize \/ EndHandshake \/ DoneCallback \/ Callback
     \/ \E h \in Handles : XferError(h)
  /\ UNCHANGED <<leaseVars, stale>>

TransferNext ==
  \/ Produce
  \/ \E S \in SUBSET Reqs : Decode(S)
  \/ \E h \in Handles : EndRead(h)
  \/ Consume

TransferSpec == TransferInit /\ [][TransferNext]_transferVars

-----------------------------------------------------------------------------
(* Properties *)

\* The notification that frees a request's blocks leaves with the end of the
\* read, on every path through the consumer: whatever fails on the two threads,
\* a read is overtaken by the release of its blocks only after the whole lease
\* has run out, and what the engine takes as loaded is then all it can blame.
LoadedIsFresh ==
  \A h \in stale : status[h[1]] = "loaded" => Lease!Expired(h[1])
=============================================================================
