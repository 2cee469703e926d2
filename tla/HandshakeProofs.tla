--------------------------- MODULE HandshakeProofs ---------------------------
(***************************************************************************)
(* Theorems about Handshake, for every sequence of starts of the producer, *)
(* every pair of tensor-parallel sizes and any number of failures.         *)
(***************************************************************************)
EXTENDS Handshake, SequenceTheorems, TLAPS

-----------------------------------------------------------------------------
(* Topology *)

LEMMA StartsType ==
  /\ Starts = 1..Len(Engines) /\ Len(Engines) \in Nat
  /\ \A e \in Starts : Engines[e] \in Config
BY HandshakeAssumption, LenProperties, ElementOfSeq DEF Starts

\* One of the two tensor-parallel sizes is a multiple of the other, or taken
\* to be: the ratio is never zero.
LEMMA TpRatioType ==
  ASSUME NEW c \in Config
  PROVE  TpRatio(c) \in Int /\ TpRatio(c) # 0
<1>1. c.tp \in Nat \ {0} /\ c.remote_tp \in Nat \ {0}
  BY DEF Config
<1>2. ASSUME NEW m \in Nat \ {0}, NEW n \in Nat \ {0}, m >= n
      PROVE  m \div n \in Nat /\ m \div n # 0
  BY <1>2
<1>3. CASE c.tp >= c.remote_tp
  BY <1>1, <1>2, <1>3 DEF TpRatio
<1>4. CASE ~(c.tp >= c.remote_tp)
  BY <1>1, <1>2, <1>4 DEF TpRatio
<1> QED
  BY <1>3, <1>4

\* A worker reads from at least one rank.
LEMMA TargetType ==
  ASSUME NEW c \in Config
  PROVE  /\ TargetRemoteRanks(c) \in Seq(Nat)
         /\ TargetRemoteRanks(c) # <<>>
         /\ Len(TargetRemoteRanks(c)) = IF TpRatio(c) > 0 THEN 1 ELSE -TpRatio(c)
<1>1. c.tp_rank \in Nat /\ TpRatio(c) \in Int /\ TpRatio(c) # 0
  BY TpRatioType DEF Config
<1>2. CASE TpRatio(c) > 0
  <2>1. c.tp_rank \div TpRatio(c) \in Nat
    BY <1>1, <1>2
  <2> QED
    BY <1>2, <2>1 DEF TargetRemoteRanks
<1>3. CASE ~(TpRatio(c) > 0)
  <2> DEFINE n == -TpRatio(c)
  <2>1. n \in Nat \ {0}
    BY <1>1, <1>3
  <2>2. \A i \in 1..n : c.tp_rank * n + i - 1 \in Nat
    <3> HIDE DEF n
    <3>1. c.tp_rank * n \in Nat
      BY <1>1, <2>1
    <3> QED
      BY <2>1, <3>1
  <2>3. TargetRemoteRanks(c) = [i \in 1..n |-> c.tp_rank * n + i - 1]
    BY <1>3 DEF TargetRemoteRanks
  <2> HIDE DEF n
  <2>4. TargetRemoteRanks(c) \in Seq(Nat) /\ Len(TargetRemoteRanks(c)) = n
    BY <2>1, <2>2, <2>3
  <2> QED
    BY <1>3, <2>1, <2>4 DEF n
<1> QED
  BY <1>2, <1>3

-----------------------------------------------------------------------------
(* Type correctness *)

\* The socket is in use while a job runs, which has a rank to ask; an answer
\* that decodes is of that rank.
JobInv ==
  /\ sock # "none" => job.result = "running"
  /\ job.result = "running" => job.todo # <<>>
  /\ job.result # "idle" => job.engine \in Starts
  /\ sock = "answered" => answer = Malformed \/ answer[2] = Head(job.todo)

LEMMA MalformedIsNoAgent == Malformed \notin Agents
BY StartsType DEF Malformed, Agents

\* What AddRemoteAgent works with.
LEMMA AcceptedAnswer ==
  ASSUME TypeOK, JobInv, Received, Accepted
  PROVE  /\ job.result = "running" /\ job.engine \in Starts
         /\ answer = <<job.engine, Head(job.todo)>>
         /\ answer[1] = job.engine /\ answer[2] = Head(job.todo)
         /\ job.todo \in Seq(Nat) /\ job.todo # <<>>
<1>1. answer \in Agents /\ answer[1] = job.engine /\ answer[2] = Head(job.todo)
  BY DEF TypeOK, JobInv, Received, Running, Accepted
<1>2. answer = <<answer[1], answer[2]>>
  BY <1>1 DEF Agents
<1> QED
  BY <1>1, <1>2 DEF TypeOK, JobInv, Received, Running

LEMMA AddType ==
  ASSUME TypeOK, JobInv, AddRemoteAgent
  PROVE  TypeOK' /\ JobInv'
<1> USE DEF producerVars, mainVars, jobVars, handles
<1> DEFINE e == job.engine
           c == Engines[e]
           todo == Tail(job.todo)
<1>1. /\ job.result = "running" /\ e \in Starts /\ answer \in Agents
      /\ answer[1] = e /\ answer = <<e, Head(job.todo)>>
      /\ job.todo \in Seq(Nat) /\ job.todo # <<>>
  BY AcceptedAnswer DEF AddRemoteAgent, TypeOK, Accepted
<1>2. c \in Config /\ TpRatio(c) \in Int /\ TpRatio(c) \in Ratios
  BY <1>1, StartsType, TpRatioType DEF Ratios
<1>3. todo \in Seq(Nat)
  BY <1>1, HeadTailProperties
<1>4. split' \in [Ratios -> {Absent} \union Nat]
  BY <1>1, <1>2 DEF AddRemoteAgent, SplitFor, TypeOK
<1>5. job' = [job EXCEPT !.todo = todo, !.agents = Append(@, answer),
                         !.result = IF todo = <<>> THEN "ok" ELSE "running"]
      /\ sock' = IF todo = <<>> THEN "none" ELSE "ready"
  BY DEF AddRemoteAgent
<1>6. /\ job' \in [engine : {0} \union Starts, todo : Seq(Nat), agents : Seq(Agents),
                   result : {"idle", "running", "ok", "failed"}]
      /\ job'.todo = todo /\ job'.engine = e
      /\ job'.result = IF todo = <<>> THEN "ok" ELSE "running"
  <2>1. Append(job.agents, answer) \in Seq(Agents)
    BY <1>1 DEF TypeOK
  <2> HIDE DEF todo
  <2> QED
    BY <1>1, <1>3, <1>5, <2>1 DEF TypeOK
<1>7. <<answer[1], Head(job.todo)>> \in Agents /\ c.ratio \in Nat
  BY <1>1, <1>2 DEF Config
<1>8. block_sizes' \subseteq Nat /\ dst_handles' \subseteq Agents /\ learnt' \subseteq Starts
  BY <1>1, <1>7 DEF AddRemoteAgent, TypeOK
<1>9. TypeOK'
  BY <1>4, <1>5, <1>6, <1>8 DEF AddRemoteAgent, TypeOK
<1> QED
  BY <1>1, <1>5, <1>6, <1>9 DEF JobInv

LEMMA RaisesType ==
  ASSUME TypeOK, JobInv, AddRemoteAgentRaises
  PROVE  TypeOK' /\ JobInv'
<1> USE DEF producerVars, mainVars, jobVars, handles
<1> DEFINE c == Engines[answer[1]]
<1>1. job.engine \in Starts /\ answer[1] \in Starts
  BY AcceptedAnswer DEF AddRemoteAgentRaises
<1>2. c \in Config /\ TpRatio(c) \in Int /\ TpRatio(c) \in Ratios
  BY <1>1, StartsType, TpRatioType DEF Ratios
<1>3. SplitFor(c) \in [Ratios -> {Absent} \union Nat]
  BY <1>2 DEF SplitFor, TypeOK
<1>4. split' \in [Ratios -> {Absent} \union Nat]
  <2>1. ASSUME NEW n \in 0..(-TpRatio(c) - 1),
               split' = [split EXCEPT ![TpRatio(c)] = n]
        PROVE  split' \in [Ratios -> {Absent} \union Nat]
    BY <1>2, <2>1 DEF TypeOK
  <2> HIDE DEF c
  <2> QED
    BY <1>3, <2>1 DEF AddRemoteAgentRaises, TypeOK, c
<1>5. faults' \in 0..MaxFaults
  BY HandshakeAssumption DEF AddRemoteAgentRaises, TypeOK
<1>6. learnt' \subseteq Starts /\ dst_handles' \subseteq Agents
  <2>1. <<answer[1], Head(job.todo)>> \in Agents
    BY AcceptedAnswer DEF AddRemoteAgentRaises, TypeOK, Accepted
  <2> QED
    BY <1>1, <2>1 DEF AddRemoteAgentRaises, TypeOK
<1> QED
  BY <1>1, <1>4, <1>5, <1>6 DEF AddRemoteAgentRaises, Fails, TypeOK, JobInv

LEMMA TypeNext ==
  ASSUME TypeOK, JobInv, [Next]_vars
  PROVE  TypeOK' /\ JobInv'
<1> USE DEF producerVars, mainVars, jobVars, handles, TypeOK, JobInv
<1>1. CASE Start
  BY <1>1, StartsType DEF Start
<1>2. CASE Stop
  BY <1>2 DEF Stop
<1>3. CASE Answer
  <2>1. serving \in Starts
    BY <1>3, StartsType DEF Answer
  <2>2. Head(job.todo) \in Nat
    BY <1>3, HeadTailProperties DEF Answer
  <2>3. \/ answer' = Malformed
        \/ answer' \in Agents /\ answer'[2] = Head(job.todo)
    <3>1. <<serving, Head(job.todo)>> \in Agents
      BY <2>1, <2>2 DEF Agents
    <3>2. answer' = <<serving, Head(job.todo)>> \/ answer' = Malformed
      BY <1>3 DEF Answer
    <3>3. <<serving, Head(job.todo)>>[2] = Head(job.todo)
      OBVIOUS
    <3> QED
      BY <3>1, <3>2, <3>3
  <2> QED
    BY <1>3, <2>3 DEF Answer
<1>4. ASSUME NEW e \in Starts, Ask(e) PROVE TypeOK' /\ JobInv'
  BY <1>4 DEF Ask
<1>5. CASE Submit
  <2>1. asking \in Starts
    BY <1>5 DEF Submit
  <2>2. queue' \in Seq(Starts) /\ futures' \subseteq Starts /\ failed' \subseteq Starts
    <3>1. Append(queue, asking) \in Seq(Starts)
      BY <2>1, AppendProperties
    <3> QED
      BY <1>5, <2>1, <3>1 DEF Submit, HangOnFuture
  <2> QED
    BY <1>5, <2>2 DEF Submit
<1>6. CASE Begin
  <2>1. Head(queue) \in Starts /\ Tail(queue) \in Seq(Starts)
    BY <1>6, HeadTailProperties DEF Begin
  <2>2. /\ TargetRemoteRanks(Engines[Head(queue)]) \in Seq(Nat)
        /\ TargetRemoteRanks(Engines[Head(queue)]) # <<>>
    BY <2>1, StartsType, TargetType
  <2> QED
    BY <1>6, <2>1, <2>2 DEF Begin
<1>7. CASE Send
  BY <1>7 DEF Send
<1>8. CASE ReceiveTimeout
  <2>1. faults' \in 0..MaxFaults
    BY <1>8, HandshakeAssumption DEF ReceiveTimeout
  <2> QED
    BY <1>8, <2>1 DEF ReceiveTimeout, Fails, Running
<1>9. CASE Reject
  BY <1>9 DEF Reject, Fails, Received, Running
<1>10. CASE DoneCallback
  <2>1. job.engine \in Starts
    BY <1>10 DEF DoneCallback
  <2>2. remote_agents' \in [Starts -> Seq(Agents)]
    BY <1>10, <2>1 DEF DoneCallback
  <2>3. <<>> \in Seq(Nat) /\ <<>> \in Seq(Agents)
    BY EmptySeq
  <2> QED
    BY <1>10, <2>1, <2>2, <2>3 DEF DoneCallback, FailWaiting, Idle
<1>11. CASE Report
  BY <1>11 DEF Report
<1>12. CASE UNCHANGED vars
  BY <1>12 DEF vars
<1> QED
  BY <1>1, <1>2, <1>3, <1>4, <1>5, <1>6, <1>7, <1>8, <1>9, <1>10, <1>11, <1>12,
     AddType, RaisesType
  DEF Next, Executor

\* The dictionaries, the job and its socket keep their types.
THEOREM TypeCorrect == Spec => [](TypeOK /\ JobInv)
<1>1. Init => TypeOK /\ JobInv
  BY HandshakeAssumption, EmptySeq, StartsType DEF Init, TypeOK, JobInv, Idle
<1>2. TypeOK /\ JobInv /\ [Next]_vars => TypeOK' /\ JobInv'
  BY TypeNext
<1> QED
  BY <1>1, <1>2, PTL DEF Spec

-----------------------------------------------------------------------------
(* One handshake at a time for an engine *)

\* The lock "protects _handshake_futures and _remote_agents": an engine that
\* is known has no handshake under way, so the dictionaries its reads use are
\* not built again, in whatever order main thread, executor and callback run.
THEOREM KnownSettled == Spec => []KnownIsSettled
<1> USE DEF producerVars, mainVars, jobVars, handles, KnownIsSettled, Unknown
<1>1. Init => KnownIsSettled
  BY DEF Init
<1>2. TypeOK /\ KnownIsSettled /\ [Next]_vars => KnownIsSettled'
  <2> SUFFICES ASSUME TypeOK, KnownIsSettled, [Next]_vars
               PROVE  KnownIsSettled'
    OBVIOUS
  <2>1. CASE Submit
    BY <2>1 DEF Submit
  <2>2. CASE DoneCallback
    BY <2>2 DEF DoneCallback, TypeOK
  <2>3. CASE UNCHANGED <<remote_agents, futures>>
    BY <2>3
  <2> QED
    BY <2>1, <2>2, <2>3
    DEF Next, Executor, vars, Start, Stop, Answer, Ask, Report, ReceiveTimeout, Begin,
        Send, Reject, AddRemoteAgent, AddRemoteAgentRaises
<1> QED
  BY <1>1, <1>2, TypeCorrect, PTL DEF Spec

-----------------------------------------------------------------------------
(* What a handshake that succeeded leaves behind *)

\* The local side is ready for the reads from start e.
LocalReady(e) ==
  /\ TpRatio(Engines[e]) < 0 /\ ~Engines[e].mla
       => split[TpRatio(Engines[e])] = -TpRatio(Engines[e])
  /\ Engines[e].ratio \in block_sizes

\* A job asks rank after rank, and those it has asked are agents of its start.
Progress ==
  LET ranks == TargetRemoteRanks(Engines[job.engine])
      n     == Len(job.agents)
  IN  /\ n + Len(job.todo) = Len(ranks)
      /\ \A i \in 1..Len(job.todo) : job.todo[i] = ranks[n + i]
      /\ \A i \in 1..n : /\ job.agents[i] = <<job.engine, ranks[i]>>
                         /\ job.agents[i] \in dst_handles
      /\ n > 0 => LocalReady(job.engine)
      /\ job.result = "ok" => job.todo = <<>>

\* A list of split regions is whole, or it is not there.
SplitWhole == \A r \in Ratios : split[r] \in {Absent, -r}

HandshakeInv ==
  /\ SplitWhole
  /\ job.result \in {"running", "ok"} => Progress
  /\ ReadyIsUsable

\* Nothing a worker has prepared is ever taken away: what it can read stays so.
LEMMA UsableStays ==
  ASSUME TypeOK, SplitWhole,
         dst_handles \subseteq dst_handles', block_sizes \subseteq block_sizes',
         \A r \in Ratios : split[r] = Absent \/ split'[r] = split[r],
         NEW e \in Starts
  PROVE  /\ LocalReady(e) => LocalReady(e)'
         /\ Usable(e) /\ remote_agents'[e] = remote_agents[e] => Usable(e)'
<1> DEFINE c == Engines[e]
<1>1. c \in Config /\ TpRatio(c) \in Int /\ TpRatio(c) \in Ratios
  BY StartsType, TpRatioType DEF Ratios
<1>2. Len(TargetRemoteRanks(c)) = IF TpRatio(c) > 0 THEN 1 ELSE -TpRatio(c)
  BY <1>1, TargetType
<1>3. TpRatio(c) < 0 => -TpRatio(c) # Absent
  BY <1>1 DEF Absent
<1>4. TpRatio(c) < 0 /\ split[TpRatio(c)] = -TpRatio(c)
        => split'[TpRatio(c)] = -TpRatio(c)
  BY <1>1, <1>3
<1> HIDE DEF c
<1>5. LocalReady(e) => LocalReady(e)'
  BY <1>4 DEF LocalReady, c
<1>6. TpRatio(c) < 0 => Len(TargetRemoteRanks(c)) = -TpRatio(c)
  BY <1>1, <1>2
<1>7. Usable(e) /\ remote_agents'[e] = remote_agents[e] => Usable(e)'
  BY <1>4, <1>6 DEF Usable, c
<1> QED
  BY <1>5, <1>7

\* SplitFor only ever puts a whole list where there was none.
LEMMA SplitForWhole ==
  ASSUME TypeOK, SplitWhole, NEW c \in Config, TpRatio(c) \in Ratios,
         split' = SplitFor(c)
  PROVE  /\ SplitWhole'
         /\ \A r \in Ratios : split[r] = Absent \/ split'[r] = split[r]
         /\ TpRatio(c) < 0 /\ ~c.mla => split'[TpRatio(c)] = -TpRatio(c)
BY TpRatioType DEF SplitFor, SplitWhole, TypeOK

LEMMA AddReady ==
  ASSUME TypeOK, JobInv, HandshakeInv, AddRemoteAgent
  PROVE  HandshakeInv'
<1> USE DEF producerVars, mainVars, jobVars, handles
<1>0. SUFFICES ASSUME NEW e \in Starts, e = job.engine
               PROVE  HandshakeInv'
  BY AcceptedAnswer DEF AddRemoteAgent
<1> DEFINE c == Engines[e]
           ranks == TargetRemoteRanks(c)
           n == Len(job.agents)
<1>1. /\ job.result = "running" /\ job.engine = e
      /\ answer = <<e, Head(job.todo)>> /\ answer[1] = e
      /\ job.todo \in Seq(Nat) /\ job.todo # <<>>
  BY <1>0, AcceptedAnswer DEF AddRemoteAgent
<1>2. c \in Config /\ TpRatio(c) \in Int /\ TpRatio(c) \in Ratios
  BY StartsType, TpRatioType DEF Ratios
<1>3. ranks \in Seq(Nat) /\ job.agents \in Seq(Agents) /\ n \in Nat
  BY <1>2, TargetType DEF TypeOK
<1>4. Progress /\ SplitWhole /\ ReadyIsUsable
  BY <1>1 DEF HandshakeInv
<1>5. split' = SplitFor(c)
  BY <1>1 DEF AddRemoteAgent
<1>6. /\ SplitWhole'
      /\ \A r \in Ratios : split[r] = Absent \/ split'[r] = split[r]
      /\ TpRatio(c) < 0 /\ ~c.mla => split'[TpRatio(c)] = -TpRatio(c)
  BY <1>2, <1>4, <1>5, SplitForWhole
<1>7. /\ dst_handles' = dst_handles \union {answer}
      /\ c.ratio \in block_sizes' /\ block_sizes \subseteq block_sizes'
      /\ remote_agents' = remote_agents
  BY <1>1 DEF AddRemoteAgent
<1>8. ReadyIsUsable'
  BY <1>4, <1>6, <1>7, UsableStays DEF ReadyIsUsable, Unknown
<1>9. /\ job'.engine = e /\ job'.todo = Tail(job.todo)
      /\ job'.agents = Append(job.agents, answer)
      /\ job'.result = "ok" => Tail(job.todo) = <<>>
  BY <1>1 DEF AddRemoteAgent, TypeOK
<1>10. LocalReady(e)'
  BY <1>6, <1>7 DEF LocalReady
<1> HIDE DEF c, ranks, n
<1>11. /\ n + Len(job.todo) = Len(ranks)
       /\ \A i \in 1..Len(job.todo) : job.todo[i] = ranks[n + i]
       /\ \A i \in 1..n : job.agents[i] = <<e, ranks[i]>> /\ job.agents[i] \in dst_handles
  BY <1>1, <1>4 DEF Progress, c, ranks, n
<1>12. /\ Len(job.todo) \in Nat \ {0} /\ Len(Tail(job.todo)) = Len(job.todo) - 1
       /\ \A i \in 1..Len(Tail(job.todo)) : Tail(job.todo)[i] = job.todo[i + 1]
       /\ Head(job.todo) = job.todo[1]
  BY <1>1, HeadTailProperties, EmptySeq, LenProperties
<1>13. /\ Len(job'.agents) = n + 1
       /\ \A i \in 1..n : job'.agents[i] = job.agents[i]
       /\ job'.agents[n + 1] = answer
  BY <1>3, <1>9 DEF n
<1>14. n + 1 + Len(job'.todo) = Len(ranks)
  <2>1. ASSUME NEW k \in Nat, NEW l \in Nat PROVE k + 1 + (l - 1) = k + l
    BY <2>1
  <2>2. n + 1 + (Len(job.todo) - 1) = n + Len(job.todo)
    BY <1>3, <1>12, <2>1
  <2> QED
    BY <1>9, <1>11, <1>12, <2>2
<1>15. ASSUME NEW i \in 1..Len(job'.todo)
       PROVE  job'.todo[i] = ranks[n + 1 + i]
  <2>1. i + 1 \in 1..Len(job.todo) /\ n + (i + 1) = n + 1 + i
    BY <1>3, <1>9, <1>12, <1>15
  <2> QED
    BY <1>9, <1>11, <1>12, <2>1
<1>16. ASSUME NEW i \in 1..(n + 1)
       PROVE  job'.agents[i] = <<e, ranks[i]>> /\ job'.agents[i] \in dst_handles'
  <2>1. CASE i = n + 1
    <3>1. job.todo[1] = ranks[n + 1]
      BY <1>11, <1>12
    <3> QED
      BY <1>1, <1>7, <1>12, <1>13, <2>1, <3>1
  <2>2. CASE i # n + 1
    <3>1. i \in 1..n
      BY <1>3, <1>16, <2>2
    <3> QED
      BY <1>7, <1>11, <1>13, <3>1
  <2> QED
    BY <2>1, <2>2
<1>17. Progress'
  <2>1. TargetRemoteRanks(Engines[job'.engine]) = ranks
    BY <1>9 DEF ranks, c
  <2> QED
    BY <1>9, <1>10, <1>13, <1>14, <1>15, <1>16, <2>1 DEF Progress
<1> QED
  BY <1>6, <1>8, <1>17 DEF HandshakeInv

LEMMA RaisesReady ==
  ASSUME TypeOK, JobInv, HandshakeInv, ~SplitFails, AddRemoteAgentRaises
  PROVE  HandshakeInv'
<1> USE DEF producerVars, mainVars, jobVars, handles
<1> DEFINE c == Engines[answer[1]]
<1>1. job.engine \in Starts /\ answer[1] \in Starts
  BY AcceptedAnswer DEF AddRemoteAgentRaises
<1>2. c \in Config /\ TpRatio(c) \in Ratios
  BY <1>1, StartsType DEF Ratios
<1>3. SplitWhole /\ ReadyIsUsable
  BY DEF HandshakeInv
<1>4. split' = split \/ split' = SplitFor(c)
  BY DEF AddRemoteAgentRaises
<1>5. SplitWhole' /\ \A r \in Ratios : split[r] = Absent \/ split'[r] = split[r]
  BY <1>2, <1>3, <1>4, SplitForWhole DEF SplitWhole
<1>6. ReadyIsUsable'
  <2>1. /\ dst_handles \subseteq dst_handles'
        /\ UNCHANGED <<block_sizes, remote_agents>>
    BY DEF AddRemoteAgentRaises
  <2> QED
    BY <1>3, <1>5, <2>1, UsableStays DEF ReadyIsUsable, Unknown
<1>7. job'.result = "failed"
  BY DEF AddRemoteAgentRaises, Fails, TypeOK
<1> QED
  BY <1>5, <1>6, <1>7 DEF HandshakeInv

LEMMA BeginReady ==
  ASSUME TypeOK, HandshakeInv, Begin
  PROVE  HandshakeInv'
<1> USE DEF producerVars, mainVars, jobVars, handles
<1>1. Head(queue) \in Starts
  BY HeadTailProperties DEF Begin, TypeOK
<1>2. TargetRemoteRanks(Engines[Head(queue)]) \in Seq(Nat)
  BY <1>1, StartsType, TargetType
<1>3. /\ job'.engine = Head(queue) /\ job'.agents = <<>>
      /\ job'.todo = TargetRemoteRanks(Engines[Head(queue)])
      /\ job'.result = "running"
  BY DEF Begin
<1>4. Progress'
  BY <1>2, <1>3, EmptySeq, LenProperties DEF Progress
<1>5. SplitWhole' /\ ReadyIsUsable'
  BY DEF HandshakeInv, Begin, SplitWhole, ReadyIsUsable, Unknown, Usable
<1> QED
  BY <1>4, <1>5 DEF HandshakeInv

LEMMA DoneReady ==
  ASSUME TypeOK, JobInv, HandshakeInv, DoneCallback
  PROVE  HandshakeInv'
<1> USE DEF producerVars, mainVars, jobVars, handles
<1>0. SUFFICES ASSUME NEW e \in Starts, e = job.engine
               PROVE  HandshakeInv'
  BY DEF DoneCallback, JobInv
<1> DEFINE ranks == TargetRemoteRanks(Engines[e])
<1>1. UNCHANGED <<split, block_sizes, dst_handles>>
  BY DEF DoneCallback
<1>2. SplitWhole /\ SplitWhole' /\ ReadyIsUsable
  BY <1>1 DEF HandshakeInv, SplitWhole
<1>3. ASSUME NEW x \in Starts, remote_agents'[x] = remote_agents[x], ~Unknown(x)'
      PROVE  Usable(x)'
  BY <1>1, <1>2, <1>3 DEF ReadyIsUsable, Unknown, Usable
<1>4. ASSUME job.result = "ok", ~Unknown(e)'
      PROVE  Usable(e)'
  <2>1. remote_agents'[e] = job.agents
    BY <1>0, <1>4 DEF DoneCallback, TypeOK
  <2>2. Progress /\ job.agents # <<>>
    BY <1>4, <2>1 DEF HandshakeInv, Unknown
  <2>3. /\ Engines[e] \in Config /\ TpRatio(Engines[e]) \in Int
        /\ ranks \in Seq(Nat) /\ Len(ranks) \in Nat
        /\ Len(ranks) = IF TpRatio(Engines[e]) > 0 THEN 1 ELSE -TpRatio(Engines[e])
    <3>1. Engines[e] \in Config
      BY StartsType
    <3> QED
      BY <3>1, TpRatioType, TargetType, LenProperties
  <2>4. /\ job.agents \in Seq(Agents) /\ Len(job.agents) \in Nat
        /\ Len(job.agents) > 0
    BY <2>2, EmptySeq, LenProperties DEF TypeOK
  <2> HIDE DEF ranks
  <2>5. job.todo = <<>> /\ Len(job.agents) = Len(ranks) /\ LocalReady(e)
    <3>1. /\ job.todo = <<>> /\ Len(job.agents) + Len(job.todo) = Len(ranks)
          /\ LocalReady(e)
      BY <1>0, <1>4, <2>2, <2>4 DEF Progress, ranks
    <3>2. Len(<<>>) = 0
      BY EmptySeq
    <3> QED
      BY <2>4, <3>1, <3>2
  <2>6. \A i \in 1..Len(ranks) : /\ job.agents[i] = <<e, ranks[i]>>
                                 /\ job.agents[i] \in dst_handles
    BY <1>0, <2>2, <2>5 DEF Progress, ranks
  <2>7. DOMAIN ranks = 1..Len(ranks) /\ DOMAIN job.agents = 1..Len(ranks)
    BY <2>3, <2>4, <2>5
  <2>8. job.agents = [i \in DOMAIN ranks |-> <<e, ranks[i]>>]
    <3>1. job.agents = [i \in DOMAIN job.agents |-> job.agents[i]]
      BY <2>4
    <3> QED
      BY <2>6, <2>7, <3>1
  <2>9. TpRatio(Engines[e]) < 0 => Len(ranks) = -TpRatio(Engines[e])
    BY <2>3
  <2> QED
    BY <1>1, <2>1, <2>5, <2>6, <2>7, <2>8, <2>9 DEF Usable, LocalReady, ranks
<1>5. ReadyIsUsable'
  <2> SUFFICES ASSUME NEW x \in Starts, ~Unknown(x)'
               PROVE  Usable(x)'
    BY DEF ReadyIsUsable
  <2>1. CASE job.result = "ok" /\ x = e
    BY <1>4, <2>1
  <2>2. CASE ~(job.result = "ok" /\ x = e)
    <3>1. remote_agents'[x] = remote_agents[x]
      BY <1>0, <2>2 DEF DoneCallback, TypeOK
    <3> QED
      BY <1>3, <3>1
  <2> QED
    BY <2>1, <2>2
<1>6. job'.result = "idle"
  BY DEF DoneCallback, Idle
<1> QED
  BY <1>2, <1>5, <1>6 DEF HandshakeInv

LEMMA ReadyNext ==
  ASSUME TypeOK, JobInv, HandshakeInv, ~SplitFails, [Next]_vars
  PROVE  HandshakeInv'
<1> USE DEF producerVars, mainVars, jobVars, handles
<1>1. CASE ReceiveTimeout \/ Reject
  <2>1. UNCHANGED <<split, block_sizes, dst_handles, remote_agents>>
    BY <1>1 DEF ReceiveTimeout, Reject
  <2>2. job'.result = "failed"
    BY <1>1 DEF ReceiveTimeout, Reject, Fails, TypeOK
  <2> QED
    BY <2>1, <2>2 DEF HandshakeInv, SplitWhole, ReadyIsUsable, Unknown, Usable
<1>2. CASE UNCHANGED <<job, split, block_sizes, dst_handles, remote_agents>>
  BY <1>2
  DEF HandshakeInv, SplitWhole, Progress, LocalReady, ReadyIsUsable, Unknown, Usable
<1>3. CASE AddRemoteAgent \/ AddRemoteAgentRaises \/ Begin \/ DoneCallback
  BY <1>3, AddReady, RaisesReady, BeginReady, DoneReady
<1> QED
  BY <1>1, <1>2, <1>3
  DEF Next, Executor, vars, Start, Stop, Answer, Ask, Submit, Report, Send

\* "Ensure engine id matches": if preparing a local region does not fail half
\* way, whatever else fails and however often the producer restarts, an engine
\* the main thread takes as known can be read from, rank by rank, and every
\* agent it reads through is of that very start.
THEOREM ReadyUsable == ~SplitFails => (Spec => []ReadyIsUsable)
<1> SUFFICES ASSUME ~SplitFails PROVE Spec => []ReadyIsUsable
  OBVIOUS
<1>1. Init => HandshakeInv
  BY DEF Init, Idle, HandshakeInv, SplitWhole, ReadyIsUsable, Unknown
<1>2. TypeOK /\ JobInv /\ HandshakeInv /\ [Next]_vars => HandshakeInv'
  BY ReadyNext
<1>3. HandshakeInv => ReadyIsUsable
  BY DEF HandshakeInv
<1> QED
  BY <1>1, <1>2, <1>3, TypeCorrect, PTL DEF Spec
=============================================================================
