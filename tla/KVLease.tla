------------------------------ MODULE KVLease ------------------------------
(***************************************************************************)
(* What a prefill (producer) instance promises about the KV blocks of a    *)
(* request it has finished: the blocks stay in place until every reader of *)
(* the decode instance has read them, or until the lease that started when *)
(* the request finished has run out.  The module says nothing of           *)
(* schedulers, workers, metadata or notifications.                         *)
(***************************************************************************)
EXTENDS Naturals

CONSTANTS
  Reqs,      \* requests
  Ranks,     \* worker ranks of the producer, each with its own blocks
  Readers,   \* readers of one rank
  Timeout    \* length of a lease

VARIABLES
  phase,     \* "prefill", "dropped", "leased" or "freed"
  deadline,  \* when the lease of a request runs out
  read,      \* read[w]: the <<request, reader>> pairs that have read rank w
  clock

leaseVars == <<phase, deadline, read, clock>>

Init ==
  /\ phase = [r \in Reqs |-> "prefill"]
  /\ deadline = [r \in Reqs |-> 0]
  /\ read = [w \in Ranks |-> {}]
  /\ clock = 0

AllRead(r) == \A w \in Ranks : {r} \X Readers \subseteq read[w]

Expired(r) == clock >= deadline[r]

\* A request ends without a lease: nobody will read its blocks.
Drop(r) ==
  /\ phase[r] = "prefill"
  /\ phase' = [phase EXCEPT ![r] = "dropped"]
  /\ UNCHANGED <<deadline, read, clock>>

\* The requests of L finish and are leased; the blocks of those of F return
\* to the pool.
LeaseAndFree(L, F) ==
  /\ \A r \in L : phase[r] = "prefill"
  /\ \A r \in F : phase[r] = "leased" /\ (AllRead(r) \/ Expired(r))
  /\ phase' = [r \in Reqs |-> IF r \in L THEN "leased"
                              ELSE IF r \in F THEN "freed" ELSE phase[r]]
  /\ deadline' = [r \in Reqs |-> IF r \in L THEN clock + Timeout
                                 ELSE deadline[r]]
  /\ UNCHANGED <<read, clock>>

\* A reader has read the blocks that rank w holds for r.
Read(w, r, d) ==
  /\ phase[r] \in {"leased", "freed"}
  /\ read' = [read EXCEPT ![w] = @ \union {<<r, d>>}]
  /\ UNCHANGED <<phase, deadline, clock>>

Tick ==
  /\ clock' = clock + 1
  /\ UNCHANGED <<phase, deadline, read>>

Next ==
  \/ \E r \in Reqs : Drop(r)
  \/ \E L, F \in SUBSET Reqs : LeaseAndFree(L, F)
  \/ \E w \in Ranks, r \in Reqs, d \in Readers : Read(w, r, d)
  \/ Tick

Spec == Init /\ [][Next]_leaseVars
=============================================================================
