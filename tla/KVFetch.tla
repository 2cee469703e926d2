------------------------------ MODULE KVFetch ------------------------------
(***************************************************************************)
(* What a decode (consumer) worker promises the engine and the producer    *)
(* about the KV blocks of the requests it is handed: each is read from     *)
(* every producer rank or from none, at most once; a rank is told of it    *)
(* when its blocks have been read; and the engine has the request back     *)
(* only when no read can write to its blocks any more, as loaded only when *)
(* all of them are there.  The module says nothing of threads, handshakes, *)
(* queues or metadata, nor of what fails.                                  *)
(***************************************************************************)

CONSTANTS
  Reqs,   \* requests
  Ranks   \* producer ranks that hold a part of each request's blocks

VARIABLES
  status,  \* "new", "waiting", "cached", "loaded" or "recompute"
  read,    \* read[<<r, p>>]: "none", "PROC", "DONE" or "ERR"
  told     \* <<request, rank>>: producer ranks told of a request

fetchVars == <<status, read, told>>

Handles == Reqs \X Ranks

Init ==
  /\ status = [r \in Reqs |-> "new"]
  /\ read = [h \in Handles |-> "none"]
  /\ told = {}

\* The engine hands over the requests of W, which wait for their blocks, and
\* those of C, which need none.
HandOver(W, C) ==
  /\ W \intersect C = {}
  /\ \A r \in W \union C : status[r] = "new"
  /\ status' = [r \in Reqs |-> IF r \in W THEN "waiting"
                               ELSE IF r \in C THEN "cached" ELSE status[r]]
  /\ UNCHANGED <<read, told>>

\* The reads of a waiting request are posted, to all the ranks.
Post(r) ==
  /\ status[r] = "waiting"
  /\ \A p \in Ranks : read[<<r, p>>] = "none"
  /\ read' = [h \in Handles |-> IF h[1] = r THEN "PROC" ELSE read[h]]
  /\ UNCHANGED <<status, told>>

\* The ranks of P are told of a request that needs none of their blocks.
Tell(r, P) ==
  /\ status[r] = "cached"
  /\ told' = told \union ({r} \X P)
  /\ UNCHANGED <<status, read>>

\* A read completes and its rank is told, in one.
Complete(h) ==
  /\ read[h] = "PROC"
  /\ read' = [read EXCEPT ![h] = "DONE"]
  /\ told' = told \union {h}
  /\ UNCHANGED status

Fail(h) ==
  /\ read[h] = "PROC"
  /\ read' = [read EXCEPT ![h] = "ERR"]
  /\ UNCHANGED <<status, told>>

\* The engine has the requests of L back as loaded, and those of B to be
\* computed again.
Return(L, B) ==
  /\ L \intersect B = {}
  /\ \A r \in L \union B : /\ status[r] = "waiting"
                           /\ \A p \in Ranks : read[<<r, p>>] # "PROC"
  /\ \A r \in L, p \in Ranks : read[<<r, p>>] = "DONE"
  /\ status' = [r \in Reqs |-> IF r \in L THEN "loaded"
                               ELSE IF r \in B THEN "recompute" ELSE status[r]]
  /\ UNCHANGED <<read, told>>

Next ==
  \/ \E W, C \in SUBSET Reqs : HandOver(W, C)
  \/ \E r \in Reqs : Post(r) \/ \E P \in SUBSET Ranks : Tell(r, P)
  \/ \E h \in Handles : Complete(h) \/ Fail(h)
  \/ \E L, B \in SUBSET Reqs : Return(L, B)

Spec == Init /\ [][Next]_fetchVars
=============================================================================
