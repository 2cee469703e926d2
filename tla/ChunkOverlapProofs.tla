------------------------- MODULE ChunkOverlapProofs -------------------------
(***************************************************************************)
(* Theorems about ChunkOverlap, for every number of requests, consumers,   *)
(* registrations and steps in flight: it behaves as HostSave, whose        *)
(* theorems carry over, announcements are numbered in turn, and none waits *)
(* for a consumer while one is known.                                      *)
(***************************************************************************)
EXTENDS ChunkOverlap, HostSaveProofs, WellFoundedInduction

-----------------------------------------------------------------------------
(* Refinement *)

\* Registrations and announcements change nothing of what is scheduled, copied
\* and held: whatever HostSave promises is kept with chunk overlap too.
THEOREM OverlapIsHostSave == OverlapSpec => Spec
<1>1. OverlapInit => Init
  BY DEF OverlapInit
<1>2. [OverlapNext]_overlapVars => [Next]_vars
  <2> SUFFICES ASSUME [OverlapNext]_overlapVars PROVE [Next]_vars
    OBVIOUS
  <2>1. ASSUME NEW reg \in Registration, Register(reg) PROVE UNCHANGED vars
    BY <2>1 DEF Register
  <2>2. ASSUME NEW n \in [Reqs -> 0..Budget], ScheduleDrain(n) PROVE Next
    BY <2>2 DEF ScheduleDrain, Next
  <2>3. ASSUME NEW r \in Reqs, PreemptOverlap(r) \/ AbortOverlap(r) PROVE Next
    BY <2>3 DEF PreemptOverlap, AbortOverlap, Next
  <2>4. CASE EndStep
    BY <2>4 DEF EndStep, Next
  <2>5. ASSUME NEW raising, SaveAndAnnounce(raising) PROVE Next
    BY <2>5 DEF SaveAndAnnounce, Next
  <2>6. CASE UNCHANGED overlapVars
    BY <2>6 DEF overlapVars
  <2> QED
    BY <2>1, <2>2, <2>3, <2>4, <2>5, <2>6 DEF OverlapNext
<1> QED
  BY <1>1, <1>2, PTL DEF OverlapSpec, Spec

-----------------------------------------------------------------------------
(* The turns of _register_consumers *)

\* A set of numbers has a least one.
LEMMA LeastNumber ==
  ASSUME NEW T, T \subseteq Nat, T # {}
  PROVE  \E x \in T : \A y \in T : x <= y
<1>1. PICK x \in T : \A y \in T : ~(<<y, x>> \in OpToRel(<, Nat))
  BY NatLessThanWellFounded, WFMin, Zenon
<1>2. \A y, z \in Nat : <<y, z>> \in OpToRel(<, Nat) <=> y < z
  BY DEF OpToRel
<1>3. \A y \in T : ~(y < x)
  BY <1>1, <1>2
<1> QED
  BY <1>3

\* after is what the first n turns make of st.
Turns(after, n, st, regs, raising) ==
  after = [i \in 0..n |->
             IF i = 0 THEN st ELSE Registered(after[i - 1], regs[i], i \in raising)]

LEMMA TurnsExist ==
  ASSUME NEW st, NEW regs, NEW raising, NEW n \in Nat
  PROVE  \E after : Turns(after, n, st, regs, raising)
<1> DEFINE T == {m \in Nat : ~ \E after : Turns(after, m, st, regs, raising)}
<1> SUFFICES ASSUME T # {} PROVE FALSE
  OBVIOUS
<1>1. PICK m \in T : \A y \in T : m <= y
  BY LeastNumber
<1>2. CASE m = 0
  <2> DEFINE after == [i \in 0..0 |-> st]
  <2>1. after = [i \in 0..0 |-> IF i = 0 THEN st
                                ELSE Registered(after[i - 1], regs[i], i \in raising)]
    OBVIOUS
  <2> QED
    BY <1>1, <1>2, <2>1 DEF Turns
<1>3. CASE m # 0
  <2>1. m \in Nat /\ m - 1 \in Nat /\ m - 1 \notin T
    BY <1>1, <1>3
  <2>2. PICK b : Turns(b, m - 1, st, regs, raising)
    BY <2>1
  <2> DEFINE after == [i \in 0..m |->
                         IF i = m THEN Registered(b[m - 1], regs[m], m \in raising)
                         ELSE b[i]]
  <2>3. \A i \in 0..m : i = m \/ i \in 0..(m - 1)
    BY <2>1
  <2>4. \A i \in 0..(m - 1) :
           b[i] = IF i = 0 THEN st ELSE Registered(b[i - 1], regs[i], i \in raising)
    BY <2>2 DEF Turns
  <2>5. \A i \in 0..(m - 1) : i \in 0..m /\ after[i] = b[i]
    BY <2>1
  <2>6. ASSUME NEW i \in 0..m
        PROVE  after[i] = IF i = 0 THEN st
                          ELSE Registered(after[i - 1], regs[i], i \in raising)
    <3>1. CASE i = m
      <4>1. after[i] = Registered(b[i - 1], regs[i], i \in raising)
        BY <2>1, <3>1
      <4>2. after[i - 1] = b[i - 1] /\ i # 0
        BY <1>3, <2>1, <2>5, <3>1
      <4> HIDE DEF after
      <4> QED
        BY <4>1, <4>2
    <3>2. CASE i = 0
      BY <1>3, <2>1, <2>4, <2>5, <3>2
    <3>3. CASE i # m /\ i # 0
      <4>1. i \in 0..(m - 1) /\ i - 1 \in 0..(m - 1)
        BY <2>1, <3>3
      <4>2. after[i] = b[i] /\ after[i - 1] = b[i - 1]
        BY <2>5, <4>1
      <4>3. b[i] = Registered(b[i - 1], regs[i], i \in raising)
        BY <2>4, <3>3, <4>1
      <4> HIDE DEF after
      <4> QED
        BY <3>3, <4>2, <4>3
    <3> QED
      BY <3>1, <3>2, <3>3
  <2>7. after = [i \in 0..m |-> after[i]]
    OBVIOUS
  <2>8. Turns(after, m, st, regs, raising)
    <3> HIDE DEF after
    <3> QED
      BY <2>6, <2>7 DEF Turns
  <2> QED
    BY <1>1, <2>8
<1> QED
  BY <1>2, <1>3

\* So what the turns make of the worker's state satisfies their recursion.
LEMMA RegisteredByTurns ==
  ASSUME NEW st, NEW regs, NEW raising, Len(regs) \in Nat
  PROVE  \E after : /\ RegisterConsumers(st, regs, raising) = after[Len(regs)]
                    /\ after[0] = st
                    /\ \A i \in 1..Len(regs) :
                         after[i] = Registered(after[i - 1], regs[i], i \in raising)
<1> DEFINE a == CHOOSE f : Turns(f, Len(regs), st, regs, raising)
<1>1. Turns(a, Len(regs), st, regs, raising)
  BY TurnsExist
<1>2. RegisterConsumers(st, regs, raising) = a[Len(regs)]
  BY DEF RegisterConsumers, Turns
<1> HIDE DEF a
<1>3. \A i \in 0..Len(regs) :
         a[i] = IF i = 0 THEN st ELSE Registered(a[i - 1], regs[i], i \in raising)
  BY <1>1 DEF Turns
<1>4. 0 \in 0..Len(regs) /\ \A i \in 1..Len(regs) : i \in 0..Len(regs) /\ i # 0
  OBVIOUS
<1>5. a[0] = st
  BY <1>3, <1>4
<1>6. \A i \in 1..Len(regs) : a[i] = Registered(a[i - 1], regs[i], i \in raising)
  BY <1>3, <1>4
<1> QED
  BY <1>2, <1>5, <1>6

-----------------------------------------------------------------------------
(* The worker's state *)

ChunkType ==
  [req : Reqs, idx : Nat, is_last : BOOLEAN, blocks : SUBSET Nat, run : Nat]

WorkerType ==
  [agents : Seq(1..MaxStarts), engine_by_req : [Reqs -> 0..MaxStarts],
   pending : [Reqs -> Seq(ChunkType)], sent : [Reqs -> Seq(ChunkType)]]

\* A request is mapped only to an engine whose agent was added.
MappedAreAdded(st) ==
  \A r \in Reqs : st.engine_by_req[r] # 0 => st.engine_by_req[r] \in ToSet(st.agents)

WorkerOK(st) == st \in WorkerType /\ MappedAreAdded(st)

LEMMA RegisteredOK ==
  ASSUME NEW st, WorkerOK(st), NEW reg \in Registration, NEW raises
  PROVE  /\ WorkerOK(Registered(st, reg, raises))
         /\ Registered(st, reg, raises).pending = st.pending
         /\ Registered(st, reg, raises).sent = st.sent
<1> DEFINE new == Registered(st, reg, raises)
           known == reg.engine \in ToSet(st.agents)
<1>1. /\ st \in WorkerType /\ st.agents \in Seq(1..MaxStarts)
      /\ st.engine_by_req \in [Reqs -> 0..MaxStarts]
      /\ reg.engine \in 1..MaxStarts
  BY DEF WorkerOK, WorkerType, Registration
<1>2. CASE ~known /\ raises
  <2>1. new = st
    BY <1>2 DEF Registered
  <2> QED
    BY <2>1
<1>3. CASE ~(~known /\ raises)
  <2> DEFINE a == IF known THEN st.agents ELSE Append(st.agents, reg.engine)
             e == [r \in Reqs |-> IF r \in reg.req_ids THEN reg.engine
                                  ELSE st.engine_by_req[r]]
  <2>1. new = [st EXCEPT !.agents = a, !.engine_by_req = e]
    BY <1>3 DEF Registered
  <2>2. a \in Seq(1..MaxStarts) /\ e \in [Reqs -> 0..MaxStarts]
    <3>1. Append(st.agents, reg.engine) \in Seq(1..MaxStarts)
      BY <1>1, AppendProperties
    <3>2. a \in Seq(1..MaxStarts)
      BY <1>1, <3>1
    <3>3. reg.engine \in 0..MaxStarts
      BY <1>1, OverlapAssumption
    <3> QED
      BY <1>1, <3>2, <3>3
  <2>3. ToSet(st.agents) \subseteq ToSet(a) /\ reg.engine \in ToSet(a)
    <3>1. CASE known
      BY <3>1
    <3>2. CASE ~known
      <4>1. /\ Len(a) = Len(st.agents) + 1 /\ Len(st.agents) \in Nat
            /\ \A i \in 1..Len(st.agents) : a[i] = st.agents[i]
            /\ a[Len(st.agents) + 1] = reg.engine
            /\ DOMAIN a = 1..Len(a) /\ DOMAIN st.agents = 1..Len(st.agents)
        BY <1>1, <2>2, <3>2, AppendProperties
      <4>2. \A i \in DOMAIN st.agents : i \in DOMAIN a /\ a[i] = st.agents[i]
        BY <4>1
      <4>3. Len(st.agents) + 1 \in DOMAIN a
        BY <4>1
      <4> HIDE DEF a
      <4> QED
        BY <4>1, <4>2, <4>3 DEF ToSet
    <3> QED
      BY <3>1, <3>2
  <2> HIDE DEF a
  <2>4. \A r \in Reqs : e[r] # 0 => e[r] \in ToSet(a)
    BY <2>3 DEF WorkerOK, MappedAreAdded
  <2> HIDE DEF e
  <2>5. /\ new.agents = a /\ new.engine_by_req = e /\ new.pending = st.pending
        /\ new.sent = st.sent /\ new \in WorkerType
    BY <1>1, <2>1, <2>2 DEF WorkerType
  <2> QED
    BY <2>4, <2>5 DEF WorkerOK, MappedAreAdded
<1> QED
  BY <1>2, <1>3

LEMMA RegisterConsumersOK ==
  ASSUME NEW st, WorkerOK(st), NEW regs \in Seq(Registration), NEW raising
  PROVE  /\ WorkerOK(RegisterConsumers(st, regs, raising))
         /\ RegisterConsumers(st, regs, raising).pending = st.pending
         /\ RegisterConsumers(st, regs, raising).sent = st.sent
<1>1. Len(regs) \in Nat /\ \A i \in 1..Len(regs) : regs[i] \in Registration
  OBVIOUS
<1>2. PICK after : /\ RegisterConsumers(st, regs, raising) = after[Len(regs)]
                   /\ after[0] = st
                   /\ \A i \in 1..Len(regs) :
                        after[i] = Registered(after[i - 1], regs[i], i \in raising)
  BY <1>1, RegisteredByTurns
<1> DEFINE Good(i) == /\ WorkerOK(after[i]) /\ after[i].pending = st.pending
                      /\ after[i].sent = st.sent
           T == {i \in 0..Len(regs) : ~Good(i)}
<1>3. ASSUME T # {} PROVE FALSE
  <2>0. T \subseteq Nat
    BY <1>1
  <2>1. PICK i \in T : \A j \in T : i <= j
    <3> HIDE DEF T
    <3> QED
      BY <1>3, <2>0, LeastNumber
  <2>2. i # 0
    BY <1>2, <2>1
  <2>3. i \in 1..Len(regs) /\ i - 1 \in 0..Len(regs) /\ ~(i <= i - 1)
    BY <1>1, <2>1, <2>2
  <2>4. Good(i - 1)
    BY <2>1, <2>3
  <2>5. after[i] = Registered(after[i - 1], regs[i], i \in raising)
    BY <1>2, <2>3
  <2>6. Good(i)
    BY <1>1, <2>3, <2>4, <2>5, RegisteredOK
  <2> QED
    BY <2>1, <2>6
<1>4. Good(Len(regs))
  BY <1>1, <1>3
<1> QED
  BY <1>2, <1>4

\* A consumer is resolved for every request as soon as there is one.
LEMMA ResolvedIffKnown ==
  ASSUME NEW st, WorkerOK(st), NEW r \in Reqs
  PROVE  Resolve(st, r) # 0 <=> st.agents # <<>>
<1>1. /\ st.agents \in Seq(1..MaxStarts) /\ Len(st.agents) \in Nat
      /\ DOMAIN st.agents = 1..Len(st.agents)
      /\ st.engine_by_req[r] \in Nat
      /\ st.engine_by_req[r] # 0 => st.engine_by_req[r] \in ToSet(st.agents)
  BY OverlapAssumption DEF WorkerOK, WorkerType, MappedAreAdded
<1>2. CASE st.agents = <<>>
  <2>1. ToSet(st.agents) = {}
    BY <1>2 DEF ToSet
  <2> QED
    BY <1>1, <1>2, <2>1 DEF Resolve
<1>3. CASE st.agents # <<>>
  <2>1. Len(st.agents) \in 1..Len(st.agents)
    BY <1>1, <1>3
  <2>2. Last(st.agents) \in 1..MaxStarts
    BY <1>1, <2>1, ElementOfSeq DEF Last
  <2>3. Last(st.agents) # 0
    BY <2>2
  <2> QED
    BY <1>1, <1>3, <2>3 DEF Resolve
<1> QED
  BY <1>2, <1>3

\* The chunks _notify_chunk_ready has for r.
ChunksFor(r, chunks) == SetToSeq({c \in chunks : c.req = r})

\* Nothing is sent while no consumer is known, and nothing is kept once one is.
Appended(st, new, chunks) ==
  \A r \in Reqs :
    IF new.agents = <<>>
    THEN /\ new.sent[r] = st.sent[r]
         /\ new.pending[r] = st.pending[r] \o ChunksFor(r, chunks)
    ELSE /\ new.sent[r] = (st.sent[r] \o st.pending[r]) \o ChunksFor(r, chunks)
         /\ new.pending[r] = <<>>

\* What save_kv_to_host makes of what is sent and pending for a request.
LEMMA AnnounceFor ==
  ASSUME NEW st, WorkerOK(st), NEW regs \in Seq(Registration), NEW raising,
         NEW chunks, \A r \in Reqs : ChunksFor(r, chunks) \in Seq(ChunkType),
         NEW new, new = Notify(Flush(RegisterConsumers(st, regs, raising)), chunks)
  PROVE  /\ WorkerOK(new)
         /\ Appended(st, new, chunks)
<1> DEFINE s1 == RegisterConsumers(st, regs, raising)
           s2 == Flush(s1)
<1>1. WorkerOK(s1) /\ s1.pending = st.pending /\ s1.sent = st.sent
  BY RegisterConsumersOK
<1> HIDE DEF s1
<1>2. /\ s1 \in WorkerType /\ s1.sent \in [Reqs -> Seq(ChunkType)]
      /\ s1.pending \in [Reqs -> Seq(ChunkType)]
  BY <1>1 DEF WorkerOK, WorkerType
<1>3. \A r \in Reqs : s1.sent[r] \o s1.pending[r] \in Seq(ChunkType)
  BY <1>2, ConcatProperties
<1>4. /\ WorkerOK(s2) /\ s2.agents = s1.agents
      /\ \A r \in Reqs : IF s1.agents = <<>>
                         THEN s2.sent[r] = s1.sent[r] /\ s2.pending[r] = s1.pending[r]
                         ELSE /\ s2.sent[r] = s1.sent[r] \o s1.pending[r]
                              /\ s2.pending[r] = <<>>
  <2> DEFINE ready == {r \in Reqs : s1.agents # <<>> /\ Resolve(s1, r) # 0}
             p == [r \in Reqs |-> IF r \in ready THEN <<>> ELSE s1.pending[r]]
             q == [r \in Reqs |-> IF r \in ready THEN s1.sent[r] \o s1.pending[r]
                                  ELSE s1.sent[r]]
  <2>1. s2 = [s1 EXCEPT !.sent = q, !.pending = p]
    BY DEF Flush
  <2>2. \A r \in Reqs : r \in ready <=> s1.agents # <<>>
    BY <1>1, ResolvedIffKnown
  <2> HIDE DEF ready
  <2>3. p \in [Reqs -> Seq(ChunkType)] /\ q \in [Reqs -> Seq(ChunkType)]
    BY <1>2, <1>3
  <2>4. \A r \in Reqs : IF s1.agents = <<>>
                        THEN q[r] = s1.sent[r] /\ p[r] = s1.pending[r]
                        ELSE q[r] = s1.sent[r] \o s1.pending[r] /\ p[r] = <<>>
    BY <2>2
  <2> HIDE DEF p, q, s2
  <2>5. /\ s2 \in WorkerType /\ s2.agents = s1.agents /\ s2.sent = q /\ s2.pending = p
        /\ s2.engine_by_req = s1.engine_by_req
    BY <1>2, <2>1, <2>3 DEF WorkerType, s2
  <2>6. WorkerOK(s2)
    BY <1>1, <2>5 DEF WorkerOK, MappedAreAdded
  <2> QED
    BY <2>4, <2>5, <2>6
<1> HIDE DEF s2
<1>5. /\ s2 \in WorkerType /\ s2.sent \in [Reqs -> Seq(ChunkType)]
      /\ s2.pending \in [Reqs -> Seq(ChunkType)]
  BY <1>4 DEF WorkerOK, WorkerType
<1>6. \A r \in Reqs : /\ s2.sent[r] \o ChunksFor(r, chunks) \in Seq(ChunkType)
                      /\ s2.pending[r] \o ChunksFor(r, chunks) \in Seq(ChunkType)
  BY <1>5, ConcatProperties
<1> DEFINE p == [r \in Reqs |-> IF Resolve(s2, r) # 0 THEN s2.pending[r]
                                ELSE s2.pending[r] \o ChunksFor(r, chunks)]
           q == [r \in Reqs |-> IF Resolve(s2, r) # 0
                                THEN s2.sent[r] \o ChunksFor(r, chunks)
                                ELSE s2.sent[r]]
<1>7. new = [s2 EXCEPT !.sent = q, !.pending = p]
  BY DEF Notify, ChunksFor, s2, s1
<1>8. p \in [Reqs -> Seq(ChunkType)] /\ q \in [Reqs -> Seq(ChunkType)]
  BY <1>5, <1>6
<1>9. \A r \in Reqs :
        IF s2.agents = <<>>
        THEN q[r] = s2.sent[r] /\ p[r] = s2.pending[r] \o ChunksFor(r, chunks)
        ELSE q[r] = s2.sent[r] \o ChunksFor(r, chunks) /\ p[r] = s2.pending[r]
  BY <1>4, ResolvedIffKnown
<1> HIDE DEF p, q
<1>10. /\ new \in WorkerType /\ new.agents = s2.agents /\ new.sent = q
       /\ new.pending = p /\ new.engine_by_req = s2.engine_by_req
  BY <1>5, <1>7, <1>8 DEF WorkerType
<1>11. WorkerOK(new)
  BY <1>4, <1>10 DEF WorkerOK, MappedAreAdded
<1>12. ASSUME NEW r \in Reqs
       PROVE  IF new.agents = <<>>
              THEN /\ new.sent[r] = st.sent[r]
                   /\ new.pending[r] = st.pending[r] \o ChunksFor(r, chunks)
              ELSE /\ new.sent[r] = (st.sent[r] \o st.pending[r]) \o ChunksFor(r, chunks)
                   /\ new.pending[r] = <<>>
  BY <1>1, <1>4, <1>9, <1>10
<1> QED
  BY <1>11, <1>12 DEF Appended

-----------------------------------------------------------------------------
(* A step has at most one chunk of a request *)

LEMMA SeqOfNone == SetToSeq({}) = <<>>
<1> DEFINE F == {f \in [1..Cardinality({}) -> {}] : IsInjective(f)}
<1>1. Cardinality({}) = 0
  BY FS_EmptySet
<1>2. \A f \in [1..0 -> {}] : f = <<>>
  <2> SUFFICES ASSUME NEW f \in [1..0 -> {}] PROVE f = <<>>
    OBVIOUS
  <2>1. f \in Seq({}) /\ DOMAIN f = 1..0
    BY SeqDef
  <2>2. Len(f) = 0
    BY <2>1, LenProperties
  <2> QED
    BY <2>1, <2>2, EmptySeq
<1>3. \E f \in [1..0 -> {}] : IsInjective(f)
  <2>1. [x \in 1..0 |-> x] \in [1..0 -> {}]
    OBVIOUS
  <2>2. IsInjective([x \in 1..0 |-> x])
    BY DEF IsInjective
  <2> QED
    BY <2>1, <2>2
<1>4. SetToSeq({}) \in [1..0 -> {}]
  BY <1>1, <1>3 DEF SetToSeq
<1> QED
  BY <1>2, <1>4

LEMMA SeqOfOne ==
  ASSUME NEW x
  PROVE  SetToSeq({x}) = <<x>>
<1>1. Cardinality({x}) = 1
  BY FS_Singleton
<1>2. \E f \in [1..1 -> {x}] : IsInjective(f)
  <2>1. [i \in 1..1 |-> x] \in [1..1 -> {x}]
    OBVIOUS
  <2>2. IsInjective([i \in 1..1 |-> x])
    BY DEF IsInjective
  <2> QED
    BY <2>1, <2>2
<1>3. SetToSeq({x}) \in [1..1 -> {x}]
  BY <1>1, <1>2 DEF SetToSeq
<1>4. /\ SetToSeq({x}) \in Seq({x}) /\ <<x>> \in Seq({x})
      /\ DOMAIN SetToSeq({x}) = 1..1 /\ SetToSeq({x})[1] = x
  <2>1. <<x>> \in Seq({x})
    OBVIOUS
  <2> DEFINE f == SetToSeq({x})
  <2>2. f \in [1..1 -> {x}]
    BY <1>3
  <2> HIDE DEF f
  <2>3. f \in UNION {[1..n -> {x}] : n \in Nat}
    BY <2>2
  <2>4. f \in Seq({x})
    BY <2>3, SeqDef, Zenon
  <2>5. DOMAIN f = 1..1 /\ f[1] = x
    BY <2>2
  <2> QED
    BY <2>1, <2>4, <2>5 DEF f
<1>5. Len(SetToSeq({x})) = 1
  BY <1>4, LenProperties
<1> QED
  BY <1>4, <1>5, SeqEqual

\* The message _notify_chunk_ready sends for chunk s of step i.
Message(r, i, s) ==
  [req |-> r, idx |-> s.idx, is_last |-> s.is_last, blocks |-> s.blocks,
   run |-> inflight[i].run[r]]

LEMMA ChunkOfStep ==
  ASSUME HostType, NEW i \in Steps, NEW r \in Reqs,
         \A s, t \in ChunksOf(r, i) : s = t
  PROVE  \/ ChunksOf(r, i) = {} /\ ChunksFor(r, Chunks(inflight[i])) = <<>>
         \/ \E s \in SaveType :
              /\ ChunksOf(r, i) = {s} /\ Message(r, i, s) \in ChunkType
              /\ ChunksFor(r, Chunks(inflight[i])) = <<Message(r, i, s)>>
<1> DEFINE C == {c \in Chunks(inflight[i]) : c.req = r}
<1>1. C = {Message(r, i, s) : s \in ChunksOf(r, i)}
  BY DEF Chunks, ChunksOf, Message
<1>2. CASE ChunksOf(r, i) = {}
  BY <1>1, <1>2, SeqOfNone DEF ChunksFor
<1>3. CASE ChunksOf(r, i) # {}
  <2>1. PICK s \in ChunksOf(r, i) : ChunksOf(r, i) = {s}
    BY <1>3
  <2>2. s \in SaveType /\ inflight[i].run[r] \in Nat
    BY StepTyped DEF ChunksOf, StepType
  <2>3. Message(r, i, s) \in ChunkType
    BY <2>2 DEF Message, ChunkType, SaveType
  <2>4. C = {Message(r, i, s)}
    BY <1>1, <2>1
  <2> HIDE DEF C
  <2>5. SetToSeq(C) = <<Message(r, i, s)>>
    BY <2>4, SeqOfOne
  <2> QED
    BY <2>1, <2>2, <2>3, <2>5 DEF ChunksFor, C
<1> QED
  BY <1>2, <1>3

-----------------------------------------------------------------------------
(* The invariant *)

MetaType == [registrations : Seq(Registration), empty : BOOLEAN]

OverlapType ==
  /\ HostType
  /\ registrations \in Seq(Registration)
  /\ metadata \in Seq(MetaType) /\ Len(metadata) = Len(inflight)
  /\ WorkerOK(State)

\* How much of what was announced of r is of earlier starts.
Old(r) == Len(Announcements(r)) - Len(announced[r])

\* Message c is of save s.
Tells(c, s) == c.idx = s.idx /\ c.is_last = s.is_last /\ c.blocks = s.blocks

\* The steps in flight are of starts that come one after the other, and each
\* has at most one chunk of r; once a chunk of the latest start is announced
\* no step of an earlier one is left.
StartsInv(r) ==
  /\ status[r] = "waiting" => announced[r] = <<>>
  /\ \A i \in Steps :
       /\ inflight[i].run[r] <= run[r]
       /\ \A s, t \in ChunksOf(r, i) : s = t
       /\ metadata[i].empty => ChunksOf(r, i) = {}
       /\ \A j \in Steps : i < j => inflight[i].run[r] <= inflight[j].run[r]
       /\ Live(r) /\ announced[r] # <<>> /\ i > executed => Own(r, i)
  /\ \A i \in DOMAIN Announcements(r) : Announcements(r)[i].run <= run[r]

OrderInv(r) ==
  Live(r) =>
    /\ Old(r) >= 0
    /\ \A i \in DOMAIN Announcements(r) :
         Announcements(r)[i].run = run[r] <=> i > Old(r)
    /\ \A i \in DOMAIN announced[r] :
         Tells(Announcements(r)[Old(r) + i], announced[r][i])

OverlapInv ==
  /\ OverlapType
  /\ \A r \in Reqs : StartsInv(r) /\ OrderInv(r)
  /\ NothingStuck

LEMMA AnnouncementsTyped ==
  ASSUME OverlapType, NEW r \in Reqs
  PROVE  /\ sent[r] \in Seq(ChunkType) /\ pending[r] \in Seq(ChunkType)
         /\ Announcements(r) \in Seq(ChunkType)
         /\ Len(Announcements(r)) \in Nat
         /\ DOMAIN Announcements(r) = 1..Len(Announcements(r))
         /\ \A i \in DOMAIN Announcements(r) : Announcements(r)[i].run \in Nat
         /\ announced[r] \in Seq(SaveType) /\ Len(announced[r]) \in Nat
<1>1. sent[r] \in Seq(ChunkType) /\ pending[r] \in Seq(ChunkType)
  BY DEF OverlapType, WorkerOK, WorkerType, State
<1>2. Announcements(r) \in Seq(ChunkType)
  BY <1>1, ConcatProperties DEF Announcements
<1>3. \A i \in 1..Len(Announcements(r)) : Announcements(r)[i] \in ChunkType
  BY <1>2, ElementOfSeq
<1>4. announced[r] \in Seq(SaveType)
  BY DEF OverlapType, HostType
<1> QED
  BY <1>1, <1>2, <1>3, <1>4, LenProperties DEF ChunkType

LEMMA InitOverlap == OverlapInit => OverlapInv
<1> SUFFICES ASSUME OverlapInit PROVE OverlapInv
  OBVIOUS
<1>1. HostType
  BY InitType DEF OverlapInit
<1>2. WorkerOK(State)
  BY OverlapAssumption DEF OverlapInit, State, WorkerOK, WorkerType, MappedAreAdded
<1>3. /\ registrations \in Seq(Registration) /\ metadata \in Seq(MetaType)
      /\ Len(metadata) = Len(inflight)
  BY DEF OverlapInit, Init
<1>4. OverlapType
  BY <1>1, <1>2, <1>3 DEF OverlapType
<1>5. ASSUME NEW r \in Reqs PROVE StartsInv(r) /\ OrderInv(r)
  <2>1. /\ status[r] = "waiting" /\ announced[r] = <<>> /\ inflight = <<>>
        /\ sent[r] = <<>> /\ pending[r] = <<>>
    BY DEF OverlapInit, Init
  <2>2. Announcements(r) = <<>>
    BY <2>1, ConcatEmptySeq, AnnouncementsTyped, <1>4 DEF Announcements
  <2>3. Steps = {} /\ ~Live(r)
    BY <2>1 DEF Steps, Live
  <2> QED
    BY <2>1, <2>2, <2>3 DEF StartsInv, OrderInv
<1>6. NothingStuck
  BY DEF OverlapInit, NothingStuck
<1> QED
  BY <1>4, <1>5, <1>6 DEF OverlapInv

-----------------------------------------------------------------------------
(* Steps of the scheduler's process *)

\* A step that starts no request and changes no announcement of a live one.
LEMMA OverlapUndisturbed ==
  ASSUME NEW r \in Reqs, StartsInv(r), OrderInv(r),
         inflight' = inflight, metadata' = metadata,
         \A i \in Steps : i > executed' => i > executed,
         run'[r] = run[r], Announcements(r)' = Announcements(r),
         status'[r] = "waiting" => announced'[r] = <<>>,
         Live(r)' => Live(r) /\ announced'[r] = announced[r]
  PROVE  StartsInv(r)' /\ OrderInv(r)'
<1>1. /\ Steps' = Steps
      /\ \A i \in Steps : ChunksOf(r, i)' = ChunksOf(r, i) /\ (Own(r, i)' <=> Own(r, i))
  BY DEF Steps, ChunksOf, Own
<1>2. StartsInv(r)'
  BY <1>1 DEF StartsInv
<1>3. Live(r)' => Old(r)' = Old(r)
  BY <1>1 DEF Old
<1>4. OrderInv(r)'
  BY <1>1, <1>3 DEF OrderInv
<1> QED
  BY <1>2, <1>4

LEMMA DrainInv ==
  ASSUME OverlapInv, HostType', NEW n \in [Reqs -> 0..Budget], ScheduleDrain(n)
  PROVE  OverlapInv'
<1>1. OverlapType /\ HostType /\ Schedule(n)
  BY DEF OverlapInv, OverlapType, ScheduleDrain
<1> DEFINE meta == [registrations |-> registrations, empty |-> \A r \in Reqs : n[r] = 0]
           need == reqs_need_save \union
                   {r \in Reqs : status[r] = "waiting" /\ n[r] > 0}
<1>2. /\ metadata' = Append(metadata, meta) /\ registrations' = <<>>
      /\ agents' = agents /\ engine_by_req' = engine_by_req /\ pending' = pending
      /\ sent' = sent
  BY DEF ScheduleDrain, notifVars
<1>3. /\ Len(inflight) \in Nat /\ Len(inflight') = Len(inflight) + 1
      /\ \A i \in Steps : inflight'[i] = inflight[i]
      /\ Added.run = run' /\ Added.saves = Saves(n, need)
  BY <1>1, ScheduleSteps
<1>4. meta \in MetaType
  BY <1>1 DEF OverlapType, MetaType
<1>5. /\ metadata' \in Seq(MetaType) /\ Len(metadata') = Len(inflight')
      /\ \A i \in Steps : metadata'[i] = metadata[i]
      /\ metadata'[Len(inflight) + 1] = meta
  <2>1. metadata \in Seq(MetaType) /\ Len(metadata) = Len(inflight)
    BY <1>1 DEF OverlapType
  <2> HIDE DEF meta
  <2> QED
    BY <1>2, <1>3, <1>4, <2>1, AppendProperties DEF Steps
<1>6. State' = State
  BY <1>2 DEF State
<1>7. OverlapType'
  <2>1. WorkerOK(State)'
    BY <1>1, <1>6 DEF OverlapType, WorkerOK, MappedAreAdded
  <2> QED
    BY <1>2, <1>5, <2>1 DEF OverlapType
<1>8. PICK m \in Nat : m = Len(inflight)
  BY <1>3
<1>9. /\ Steps = 1..m /\ Steps' = 1..(m + 1) /\ inflight'[m + 1] = Added
      /\ executed \in 0..m /\ executed' = executed /\ announced' = announced
  BY <1>1, <1>3, <1>8 DEF Steps, Added, HostType, Schedule
<1>10. \A i \in Steps' : i \in Steps \/ i = m + 1
  BY <1>9
<1>11. ASSUME NEW r \in Reqs
       PROVE  StartsInv(r)' /\ OrderInv(r)'
  <2>1. StartsInv(r) /\ OrderInv(r)
    BY DEF OverlapInv
  <2>2. run[r] \in Nat /\ run'[r] \in Nat
    BY <1>1 DEF HostType
  <2>3. \/ run'[r] = run[r] /\ status'[r] = status[r]
        \/ run'[r] = run[r] + 1 /\ status[r] = "waiting" /\ status'[r] = "running"
    BY <1>1 DEF Schedule, HostType
  <2>4. Announcements(r)' = Announcements(r) /\ Old(r)' = Old(r)
    BY <1>2, <1>9 DEF Announcements, Old
  <2>5. \A i \in Steps : ChunksOf(r, i)' = ChunksOf(r, i) /\ inflight[i].run[r] \in Nat
    BY <1>1, <1>3, StepTyped DEF ChunksOf
  <2>6. ChunksOf(r, m + 1)' = {s \in Saves(n, need) : s.req = r}
    BY <1>3, <1>9 DEF ChunksOf
  <2>7. \A s, t \in ChunksOf(r, m + 1)' : s = t
    BY <2>6 DEF Saves
  <2>8. metadata'[m + 1].empty => ChunksOf(r, m + 1)' = {}
    <3>1. (\A q \in Reqs : n[q] = 0) => Saves(n, need) = {}
      <4>1. need \subseteq Reqs
        BY <1>1 DEF HostType
      <4> HIDE DEF need
      <4> QED
        BY <4>1 DEF Saves
    <3>2. metadata'[m + 1] = meta
      <4> HIDE DEF meta
      <4> QED
        BY <1>5, <1>8
    <3>3. meta.empty = \A q \in Reqs : n[q] = 0
      OBVIOUS
    <3> QED
      BY <2>6, <3>1, <3>2, <3>3
  <2>9. inflight'[m + 1].run[r] = run'[r]
    BY <1>3, <1>9
  <2>10. ASSUME NEW i \in Steps'
         PROVE  /\ inflight'[i].run[r] <= run'[r]
                /\ \A s, t \in ChunksOf(r, i)' : s = t
                /\ metadata'[i].empty => ChunksOf(r, i)' = {}
                /\ \A j \in Steps' : i < j => inflight'[i].run[r] <= inflight'[j].run[r]
                /\ Live(r)' /\ announced'[r] # <<>> /\ i > executed' => Own(r, i)'
    <3>1. CASE i \in Steps
      <4>1. /\ inflight'[i] = inflight[i] /\ ChunksOf(r, i)' = ChunksOf(r, i)
            /\ metadata'[i] = metadata[i] /\ inflight[i].run[r] <= run[r]
            /\ \A s, t \in ChunksOf(r, i) : s = t
            /\ metadata[i].empty => ChunksOf(r, i) = {}
        BY <1>3, <1>5, <2>1, <2>5, <3>1 DEF StartsInv
      <4>2. inflight'[i].run[r] <= run'[r]
        BY <2>2, <2>3, <2>5, <3>1, <4>1
      <4>3. ASSUME NEW j \in Steps', i < j
            PROVE  inflight'[i].run[r] <= inflight'[j].run[r]
        <5>1. CASE j \in Steps
          BY <1>3, <2>1, <3>1, <4>3, <5>1 DEF StartsInv
        <5>2. CASE j = m + 1
          BY <2>9, <4>2, <5>2
        <5> QED
          BY <1>10, <5>1, <5>2
      <4>4. ASSUME Live(r)', announced'[r] # <<>>, i > executed' PROVE Own(r, i)'
        <5>1. status[r] # "waiting"
          BY <1>9, <2>1, <4>4 DEF StartsInv
        <5>2. Live(r) /\ run'[r] = run[r]
          BY <2>3, <4>4, <5>1 DEF Live
        <5>3. Own(r, i)
          BY <1>9, <2>1, <3>1, <4>4, <5>2 DEF StartsInv
        <5> QED
          BY <4>1, <5>2, <5>3 DEF Own
      <4> QED
        BY <4>1, <4>2, <4>3, <4>4
    <3>2. CASE i = m + 1
      <4>1. \A j \in Steps' : ~(i < j)
        BY <1>9, <3>2
      <4>2. Own(r, i)'
        BY <2>9, <3>2 DEF Own
      <4> QED
        BY <2>2, <2>7, <2>8, <2>9, <3>2, <4>1, <4>2
    <3> QED
      BY <1>10, <3>1, <3>2
  <2>11. \A i \in DOMAIN Announcements(r) : /\ Announcements(r)[i].run \in Nat
                                           /\ Announcements(r)[i].run <= run[r]
    BY <1>1, <2>1, AnnouncementsTyped DEF StartsInv
  <2>12. StartsInv(r)'
    <3>1. status'[r] = "waiting" => announced'[r] = <<>>
      BY <1>9, <2>1, <2>3 DEF StartsInv
    <3>2. \A i \in DOMAIN Announcements(r)' : Announcements(r)'[i].run <= run'[r]
      BY <2>2, <2>3, <2>4, <2>11
    <3> QED
      BY <2>10, <3>1, <3>2 DEF StartsInv
  <2>13. OrderInv(r)'
    <3>1. CASE run'[r] = run[r] /\ status'[r] = status[r]
      BY <1>9, <2>1, <2>4, <3>1 DEF OrderInv, Live
    <3>2. CASE run'[r] = run[r] + 1 /\ status[r] = "waiting"
      <4>1. announced[r] = <<>> /\ announced'[r] = <<>>
        BY <1>9, <2>1, <3>2 DEF StartsInv
      <4>2. /\ Len(Announcements(r)) \in Nat
            /\ DOMAIN Announcements(r) = 1..Len(Announcements(r))
        BY <1>1, AnnouncementsTyped
      <4>3. Old(r) = Len(Announcements(r))
        BY <4>1, <4>2 DEF Old
      <4>4. \A i \in DOMAIN Announcements(r) :
               Announcements(r)[i].run # run'[r] /\ ~(i > Old(r))
        BY <2>2, <2>11, <3>2, <4>2, <4>3
      <4>5. DOMAIN announced'[r] = {}
        BY <4>1
      <4> QED
        BY <2>4, <4>2, <4>3, <4>4, <4>5 DEF OrderInv
    <3> QED
      BY <2>3, <3>1, <3>2
  <2> QED
    BY <2>12, <2>13
<1>12. NothingStuck'
  BY <1>2 DEF OverlapInv, NothingStuck
<1> QED
  BY <1>7, <1>11, <1>12 DEF OverlapInv

LEMMA EndStepInv ==
  ASSUME OverlapInv, HostType', EndStep
  PROVE  OverlapInv'
<1>1. OverlapType /\ HostType /\ UpdateFromOutput /\ metadata' = Tail(metadata)
  BY DEF OverlapInv, OverlapType, EndStep
<1>2. /\ registrations' = registrations /\ agents' = agents
      /\ engine_by_req' = engine_by_req /\ pending' = pending /\ sent' = sent
      /\ run' = run /\ announced' = announced
      /\ executed' = executed - 1 /\ executed \in Nat /\ executed > 0
  BY <1>1 DEF EndStep, listenerVars, notifVars, UpdateFromOutput, HostType
<1>3. PICK m \in Nat :
        /\ Steps = 1..(m + 1) /\ Steps' = 1..m
        /\ \A i \in 1..m : inflight'[i] = inflight[i + 1] /\ metadata'[i] = metadata[i + 1]
        /\ metadata' \in Seq(MetaType) /\ Len(metadata') = Len(inflight')
  <2>1. /\ inflight \in Seq(StepType) /\ executed \in 0..Len(inflight)
        /\ inflight' = Tail(inflight)
        /\ metadata \in Seq(MetaType) /\ Len(metadata) = Len(inflight)
    BY <1>1 DEF HostType, UpdateFromOutput, OverlapType
  <2>2. /\ inflight # <<>> /\ metadata # <<>> /\ Len(inflight) \in Nat
        /\ Len(inflight) > 0
    BY <1>2, <2>1
  <2>3. /\ Len(inflight') = Len(inflight) - 1
        /\ \A i \in 1..Len(inflight') : inflight'[i] = inflight[i + 1]
        /\ metadata' \in Seq(MetaType) /\ Len(metadata') = Len(metadata) - 1
        /\ \A i \in 1..Len(metadata') : metadata'[i] = metadata[i + 1]
    BY <1>1, <2>1, <2>2, HeadTailProperties
  <2>4. Len(inflight) - 1 \in Nat /\ (Len(inflight) - 1) + 1 = Len(inflight)
    BY <2>2
  <2> QED
    BY <2>1, <2>3, <2>4 DEF Steps
<1>4. State' = State
  BY <1>2 DEF State
<1>5. OverlapType'
  <2>1. WorkerOK(State)'
    BY <1>1, <1>4 DEF OverlapType, WorkerOK, MappedAreAdded
  <2> QED
    BY <1>1, <1>2, <1>3, <2>1 DEF OverlapType
<1>6. \A i \in Steps' : i \in Nat /\ i + 1 \in Steps
  BY <1>3
<1>7. ASSUME NEW r \in Reqs PROVE StartsInv(r)' /\ OrderInv(r)'
  <2>1. StartsInv(r) /\ OrderInv(r)
    BY DEF OverlapInv
  <2>2. /\ Live(r)' <=> Live(r)
        /\ status'[r] = "waiting" => status[r] = "waiting"
    BY <1>1 DEF UpdateFromOutput, Live
  <2>3. Announcements(r)' = Announcements(r) /\ Old(r)' = Old(r)
    BY <1>2 DEF Announcements, Old
  <2>4. \A i \in Steps' : /\ ChunksOf(r, i)' = ChunksOf(r, i + 1)
                          /\ Own(r, i)' <=> Own(r, i + 1)
                          /\ inflight'[i] = inflight[i + 1]
                          /\ metadata'[i] = metadata[i + 1]
    BY <1>2, <1>3 DEF ChunksOf, Own
  <2>5. ASSUME NEW i \in Steps'
        PROVE  /\ inflight'[i].run[r] <= run'[r]
               /\ \A s, t \in ChunksOf(r, i)' : s = t
               /\ metadata'[i].empty => ChunksOf(r, i)' = {}
               /\ \A j \in Steps' : i < j => inflight'[i].run[r] <= inflight'[j].run[r]
               /\ Live(r)' /\ announced'[r] # <<>> /\ i > executed' => Own(r, i)'
    <3>1. /\ i + 1 \in Steps /\ inflight[i + 1].run[r] <= run[r]
          /\ \A s, t \in ChunksOf(r, i + 1) : s = t
          /\ metadata[i + 1].empty => ChunksOf(r, i + 1) = {}
          /\ Live(r) /\ announced[r] # <<>> /\ i + 1 > executed => Own(r, i + 1)
      BY <1>6, <2>1, <2>5 DEF StartsInv
    <3>2. ASSUME NEW j \in Steps', i < j
          PROVE  inflight'[i].run[r] <= inflight'[j].run[r]
      <4>1. i + 1 \in Steps /\ j + 1 \in Steps /\ i + 1 < j + 1
        BY <1>6, <3>2
      <4> QED
        BY <2>1, <2>4, <4>1 DEF StartsInv
    <3>3. i > executed' <=> i + 1 > executed
      BY <1>2, <1>6
    <3> QED
      BY <1>2, <2>2, <2>4, <3>1, <3>2, <3>3
  <2>6. StartsInv(r)'
    BY <1>2, <2>1, <2>2, <2>3, <2>5 DEF StartsInv
  <2>7. OrderInv(r)'
    BY <1>2, <2>1, <2>2, <2>3 DEF OrderInv
  <2> QED
    BY <2>6, <2>7
<1>8. NothingStuck'
  BY <1>2 DEF OverlapInv, NothingStuck
<1> QED
  BY <1>5, <1>7, <1>8 DEF OverlapInv

LEMMA RegisterInv ==
  ASSUME OverlapInv, HostType', NEW reg \in Registration, Register(reg)
  PROVE  OverlapInv'
<1>1. OverlapType /\ registrations' = Append(registrations, reg)
  BY DEF OverlapInv, Register
<1>2. /\ metadata' = metadata /\ inflight' = inflight /\ executed' = executed
      /\ status' = status /\ run' = run /\ announced' = announced
      /\ agents' = agents /\ engine_by_req' = engine_by_req
      /\ pending' = pending /\ sent' = sent
  BY DEF Register, vars, notifVars
<1>3. registrations' \in Seq(Registration)
  BY <1>1, AppendProperties DEF OverlapType
<1>4. OverlapType'
  <2>1. WorkerOK(State)'
    BY <1>1, <1>2 DEF OverlapType, WorkerOK, MappedAreAdded, State
  <2> QED
    BY <1>1, <1>2, <1>3, <2>1 DEF OverlapType
<1>5. ASSUME NEW r \in Reqs PROVE StartsInv(r)' /\ OrderInv(r)'
  <2>1. StartsInv(r) /\ OrderInv(r)
    BY DEF OverlapInv
  <2>2. /\ Announcements(r)' = Announcements(r)
        /\ Live(r)' => Live(r)
        /\ status'[r] = "waiting" => announced'[r] = <<>>
    BY <1>2, <2>1 DEF Announcements, Live, StartsInv
  <2> QED
    BY <1>2, <2>1, <2>2, OverlapUndisturbed
<1>6. NothingStuck'
  BY <1>2 DEF OverlapInv, NothingStuck
<1> QED
  BY <1>4, <1>5, <1>6 DEF OverlapInv

\* A preempted request has nothing announced of its next start.
LEMMA StopInv ==
  ASSUME OverlapInv, HostType', NEW q \in Reqs, PreemptOverlap(q) \/ AbortOverlap(q)
  PROVE  OverlapInv'
<1>1. OverlapType /\ HostType
  BY DEF OverlapInv, OverlapType
<1>2. /\ registrations' = registrations /\ metadata' = metadata
      /\ inflight' = inflight /\ executed' = executed /\ run' = run
      /\ agents' = agents /\ engine_by_req' = engine_by_req
      /\ pending' = pending /\ sent' = sent
  BY DEF PreemptOverlap, AbortOverlap, Preempt, Abort, listenerVars, notifVars
<1>3. OverlapType'
  <2>1. WorkerOK(State)'
    BY <1>1, <1>2 DEF OverlapType, WorkerOK, MappedAreAdded, State
  <2> QED
    BY <1>1, <1>2, <2>1 DEF OverlapType
<1>4. ASSUME NEW r \in Reqs PROVE StartsInv(r)' /\ OrderInv(r)'
  <2>1. StartsInv(r) /\ OrderInv(r)
    BY DEF OverlapInv
  <2>2. /\ status'[r] = "waiting" => announced'[r] = <<>>
        /\ Live(r)' => Live(r) /\ announced'[r] = announced[r]
    <3>1. CASE PreemptOverlap(q)
      BY <1>1, <2>1, <3>1 DEF PreemptOverlap, Preempt, HostType, StartsInv, Live
    <3>2. CASE AbortOverlap(q)
      BY <1>1, <2>1, <3>2 DEF AbortOverlap, Abort, HostType, StartsInv, Live
    <3> QED
      BY <3>1, <3>2
  <2>3. Announcements(r)' = Announcements(r)
    BY <1>2 DEF Announcements
  <2> QED
    BY <1>2, <2>1, <2>2, <2>3, OverlapUndisturbed
<1>5. NothingStuck'
  BY <1>2 DEF OverlapInv, NothingStuck
<1> QED
  BY <1>3, <1>4, <1>5 DEF OverlapInv

-----------------------------------------------------------------------------
(* Steps of the worker *)

LEMMA Regroup ==
  ASSUME NEW a \in Seq(ChunkType), NEW b \in Seq(ChunkType), NEW d \in Seq(ChunkType)
  PROVE  (a \o b) \o d = a \o (b \o d)
BY ConcatAssociative

LEMMA OneMore ==
  ASSUME NEW a \in Seq(ChunkType), NEW c \in ChunkType
  PROVE  /\ Len(a) \in Nat /\ Len(a \o <<c>>) = Len(a) + 1
         /\ DOMAIN (a \o <<c>>) = 1..(Len(a) + 1)
         /\ \A i \in 1..Len(a) : (a \o <<c>>)[i] = a[i]
         /\ (a \o <<c>>)[Len(a) + 1] = c
<1> DEFINE b == a \o <<c>>
<1>1. Len(a) \in Nat /\ <<c>> \in Seq(ChunkType) /\ Len(<<c>>) = 1 /\ <<c>>[1] = c
  OBVIOUS
<1>2. /\ b \in Seq(ChunkType) /\ Len(b) = Len(a) + Len(<<c>>)
      /\ \A i \in 1..Len(b) : b[i] = IF i <= Len(a) THEN a[i] ELSE <<c>>[i - Len(a)]
  BY <1>1, ConcatProperties
<1> HIDE DEF b
<1>3. Len(b) = Len(a) + 1 /\ DOMAIN b = 1..(Len(a) + 1)
  BY <1>1, <1>2, LenProperties
<1>4. \A i \in 1..Len(a) : i \in 1..Len(b) /\ b[i] = a[i]
  BY <1>1, <1>2, <1>3
<1>5. b[Len(a) + 1] = c
  BY <1>1, <1>2, <1>3
<1> QED
  BY <1>1, <1>3, <1>4, <1>5 DEF b

\* What is said of a request grows at its end, by the chunk of the step.
LEMMA AnnouncesChunk ==
  ASSUME OverlapInv, NEW raising, SaveAndAnnounce(raising)
  PROVE  /\ executed + 1 \in Steps /\ WorkerOK(State)' /\ NothingStuck'
         /\ \A r \in Reqs : Announcements(r)' = Announcements(r) \o
                              ChunksFor(r, Chunks(inflight[executed + 1]))
<1> DEFINE e == executed + 1
           meta == metadata[e]
           chunks == Chunks(inflight[e])
           st == Announce(meta.registrations, raising, chunks)
<1>1. OverlapType /\ HostType /\ NothingStuck
  BY DEF OverlapInv, OverlapType
<1>2. e \in Steps
  BY <1>1 DEF SaveAndAnnounce, SaveKvToHost, HostType, Steps
<1>3. meta \in MetaType
  BY <1>1, <1>2 DEF OverlapType, Steps
<1>4. /\ \A r \in Reqs : meta.empty => ChunksOf(r, e) = {}
      /\ \A r \in Reqs : \A s, t \in ChunksOf(r, e) : s = t
  BY <1>2 DEF OverlapInv, StartsInv
<1>5. IF meta.empty THEN UNCHANGED notifVars
      ELSE /\ agents' = st.agents /\ engine_by_req' = st.engine_by_req
           /\ pending' = st.pending /\ sent' = st.sent
  BY DEF SaveAndAnnounce
<1> HIDE DEF e, meta, st
<1>6. ASSUME NEW r \in Reqs
      PROVE  /\ ChunksFor(r, chunks) \in Seq(ChunkType)
             /\ ChunksOf(r, e) = {} => ChunksFor(r, chunks) = <<>>
  <2>1. CASE ChunksOf(r, e) = {} /\ ChunksFor(r, chunks) = <<>>
    BY <2>1
  <2>2. CASE \E s \in SaveType :
               /\ ChunksOf(r, e) = {s} /\ Message(r, e, s) \in ChunkType
               /\ ChunksFor(r, chunks) = <<Message(r, e, s)>>
    BY <2>2
  <2> QED
    BY <1>1, <1>2, <1>4, <2>1, <2>2, ChunkOfStep
<1> HIDE DEF chunks
<1>7. CASE meta.empty
  <2>1. /\ agents' = agents /\ engine_by_req' = engine_by_req
        /\ pending' = pending /\ sent' = sent
    BY <1>5, <1>7 DEF notifVars
  <2>2. WorkerOK(State)' /\ NothingStuck'
    BY <1>1, <2>1 DEF OverlapType, WorkerOK, MappedAreAdded, State, NothingStuck
  <2>3. ASSUME NEW r \in Reqs
        PROVE  Announcements(r)' = Announcements(r) \o ChunksFor(r, chunks)
    <3>1. ChunksFor(r, chunks) = <<>>
      BY <1>4, <1>6, <1>7
    <3>2. Announcements(r) \in Seq(ChunkType)
      BY <1>1, AnnouncementsTyped
    <3>3. Announcements(r)' = Announcements(r)
      BY <2>1 DEF Announcements
    <3> QED
      BY <3>1, <3>2, <3>3, ConcatEmptySeq
  <2> QED
    BY <1>2, <2>2, <2>3 DEF e, chunks
<1>8. CASE ~meta.empty
  <2>1. /\ agents' = st.agents /\ engine_by_req' = st.engine_by_req
        /\ pending' = st.pending /\ sent' = st.sent
    BY <1>5, <1>8
  <2>2. WorkerOK(State) /\ meta.registrations \in Seq(Registration)
    BY <1>1, <1>3 DEF OverlapType, MetaType
  <2>3. st = Notify(Flush(RegisterConsumers(State, meta.registrations, raising)), chunks)
    BY DEF st, Announce
  <2>4. WorkerOK(st) /\ Appended(State, st, chunks)
    <3>1. \A r \in Reqs : ChunksFor(r, chunks) \in Seq(ChunkType)
      BY <1>6
    <3> QED
      BY <2>2, <2>3, <3>1, AnnounceFor
  <2>5. st = State'
    <3>1. st \in WorkerType
      BY <2>4 DEF WorkerOK
    <3> QED
      BY <2>1, <3>1 DEF State, WorkerType
  <2>6. WorkerOK(State)'
    BY <2>4, <2>5 DEF WorkerOK, MappedAreAdded
  <2>7. NothingStuck'
    BY <2>1, <2>4 DEF NothingStuck, Appended
  <2>8. ASSUME NEW r \in Reqs
        PROVE  Announcements(r)' = Announcements(r) \o ChunksFor(r, chunks)
    <3>1. /\ sent[r] \in Seq(ChunkType) /\ pending[r] \in Seq(ChunkType)
          /\ Announcements(r) \in Seq(ChunkType)
      BY <1>1, AnnouncementsTyped
    <3>2. Announcements(r) = sent[r] \o pending[r]
      BY DEF Announcements
    <3>3. Announcements(r)' = st.sent[r] \o st.pending[r]
      BY <2>1 DEF Announcements
    <3>4. State.sent[r] = sent[r] /\ State.pending[r] = pending[r]
      BY DEF State
    <3>5. CASE st.agents = <<>>
      <4>1. st.sent[r] = sent[r] /\ st.pending[r] = pending[r] \o ChunksFor(r, chunks)
        BY <2>4, <3>4, <3>5 DEF Appended
      <4>2. ChunksFor(r, chunks) \in Seq(ChunkType)
        BY <1>6
      <4>3. (sent[r] \o pending[r]) \o ChunksFor(r, chunks)
              = sent[r] \o (pending[r] \o ChunksFor(r, chunks))
        BY <3>1, <4>2, Regroup
      <4> QED
        BY <3>2, <3>3, <4>1, <4>3
    <3>6. CASE st.agents # <<>>
      <4>1. /\ st.sent[r] = Announcements(r) \o ChunksFor(r, chunks)
            /\ st.pending[r] = <<>>
        BY <2>4, <3>2, <3>4, <3>6 DEF Appended
      <4>2. Announcements(r) \o ChunksFor(r, chunks) \in Seq(ChunkType)
        BY <1>6, <3>1, ConcatProperties
      <4> QED
        BY <3>3, <4>1, <4>2, ConcatEmptySeq
    <3> QED
      BY <3>5, <3>6
  <2> QED
    BY <1>2, <2>6, <2>7, <2>8 DEF e, chunks
<1> QED
  BY <1>7, <1>8

\* So the announcements stay in order.
LEMMA SaveAndAnnounceInv ==
  ASSUME OverlapInv, HostType', NEW raising, SaveAndAnnounce(raising)
  PROVE  OverlapInv'
<1>1. OverlapType /\ HostType /\ SaveKvToHost
  BY DEF OverlapInv, OverlapType, SaveAndAnnounce
<1>2. /\ registrations' = registrations /\ metadata' = metadata
      /\ inflight' = inflight /\ status' = status /\ run' = run
  BY DEF SaveAndAnnounce, SaveKvToHost, listenerVars
<1>3. PICK e \in Steps : e = executed + 1 /\ executed' = e /\ executed \in Nat /\ e \in Nat
  BY <1>1, AnnouncesChunk DEF SaveKvToHost, HostType
<1>4. /\ WorkerOK(State)' /\ NothingStuck'
      /\ \A r \in Reqs : Announcements(r)' = Announcements(r) \o
                           ChunksFor(r, Chunks(inflight[e]))
  BY <1>3, AnnouncesChunk
<1>5. OverlapType'
  BY <1>1, <1>2, <1>4 DEF OverlapType
<1>6. \A i \in Steps : i \in Nat
  BY DEF Steps
<1>7. ASSUME NEW r \in Reqs PROVE StartsInv(r)' /\ OrderInv(r)'
  <2>1. StartsInv(r) /\ OrderInv(r)
    BY DEF OverlapInv
  <2>2. /\ inflight[e].run[r] <= run[r] /\ inflight[e].run[r] \in Nat /\ run[r] \in Nat
        /\ \A i \in Steps : \A s, t \in ChunksOf(r, i) : s = t
    BY <1>1, <2>1, StepTyped DEF StartsInv, HostType
  <2>3. \/ /\ ~Live(r) \/ Pending(r, e) = {}
           /\ status[r] = "waiting" \/ Live(r) => announced'[r] = announced[r]
        \/ Live(r) /\ \E s \in SaveType : /\ Pending(r, e) = {s}
                                          /\ announced'[r] = Append(announced[r], s)
    BY <1>1, <1>3, <2>2, SavedFor
  <2>4. Pending(r, e) = IF Own(r, e) THEN ChunksOf(r, e) ELSE {}
    BY <1>3 DEF Pending
  <2>5. \A i \in Steps : i > executed' => i > executed
    BY <1>3, <1>6
  <2>6. CASE ChunksOf(r, e) = {}
    <3>1. ChunksFor(r, Chunks(inflight[e])) = <<>>
      BY <1>1, <2>2, <2>6, ChunkOfStep
    <3>2. Announcements(r)' = Announcements(r)
      BY <1>1, <1>4, <3>1, AnnouncementsTyped, ConcatEmptySeq
    <3>3. /\ status'[r] = "waiting" => announced'[r] = <<>>
          /\ Live(r)' => Live(r) /\ announced'[r] = announced[r]
      BY <1>2, <2>1, <2>3, <2>4, <2>6 DEF StartsInv, Live
    <3> QED
      BY <1>2, <2>1, <2>5, <3>2, <3>3, OverlapUndisturbed
  <2>7. CASE ChunksOf(r, e) # {}
    <3>1. PICK s \in SaveType :
            /\ ChunksOf(r, e) = {s} /\ Message(r, e, s) \in ChunkType
            /\ ChunksFor(r, Chunks(inflight[e])) = <<Message(r, e, s)>>
      BY <1>1, <2>2, <2>7, ChunkOfStep
    <3> DEFINE c == Message(r, e, s)
    <3>2. c.run = inflight[e].run[r] /\ Tells(c, s)
      BY DEF Message, Tells
    <3> HIDE DEF c
    <3>3. PICK m \in Nat :
            /\ Len(Announcements(r)) = m /\ Len(Announcements(r)') = m + 1
            /\ DOMAIN Announcements(r) = 1..m /\ DOMAIN Announcements(r)' = 1..(m + 1)
            /\ \A i \in 1..m : Announcements(r)'[i] = Announcements(r)[i]
            /\ Announcements(r)'[m + 1] = c
      <4>1. /\ Announcements(r) \in Seq(ChunkType)
            /\ DOMAIN Announcements(r) = 1..Len(Announcements(r))
        BY <1>1, AnnouncementsTyped
      <4>2. c \in ChunkType /\ Announcements(r)' = Announcements(r) \o <<c>>
        BY <1>4, <3>1 DEF c
      <4> DEFINE a == Announcements(r)
                 b == Announcements(r) \o <<c>>
      <4>3. /\ Len(a) \in Nat /\ Len(b) = Len(a) + 1 /\ DOMAIN b = 1..(Len(a) + 1)
            /\ \A i \in 1..Len(a) : b[i] = a[i]
            /\ b[Len(a) + 1] = c
        BY <4>1, <4>2, OneMore
      <4>4. Announcements(r)' = b
        BY <4>2
      <4> HIDE DEF a, b
      <4> QED
        BY <4>1, <4>3, <4>4 DEF a
    <3>4. \A i \in 1..(m + 1) : i \in 1..m \/ i = m + 1
      BY <3>3
    <3>5. \A i \in 1..m : Announcements(r)[i].run \in Nat /\ Announcements(r)[i].run <= run[r]
      BY <1>1, <2>1, <3>3, AnnouncementsTyped DEF StartsInv
    <3>6. \A i \in DOMAIN Announcements(r)' : Announcements(r)'[i].run <= run'[r]
      BY <1>2, <2>2, <3>2, <3>3, <3>4, <3>5
    <3>7. status'[r] = "waiting" => announced'[r] = <<>>
      BY <1>2, <2>1, <2>3 DEF StartsInv, Live
    <3>8. ASSUME Live(r), announced'[r] # <<>>, NEW i \in Steps, i > e
          PROVE  Own(r, i)
      <4>1. CASE announced[r] # <<>>
        BY <1>3, <1>6, <2>1, <3>8, <4>1 DEF StartsInv
      <4>2. CASE announced[r] = <<>>
        <5>1. Own(r, e)
          BY <2>3, <2>4, <3>8, <4>2
        <5>2. /\ inflight[e].run[r] <= inflight[i].run[r] /\ inflight[i].run[r] <= run[r]
              /\ inflight[i].run[r] \in Nat
          BY <1>1, <2>1, <3>8, StepTyped DEF StartsInv
        <5> QED
          BY <2>2, <5>1, <5>2 DEF Own
      <4> QED
        BY <4>1, <4>2
    <3>9. StartsInv(r)'
      <4>1. /\ Steps' = Steps /\ (Live(r)' <=> Live(r))
            /\ \A i \in Steps : ChunksOf(r, i)' = ChunksOf(r, i) /\ (Own(r, i)' <=> Own(r, i))
        BY <1>2 DEF Steps, ChunksOf, Own, Live
      <4> QED
        BY <1>2, <1>3, <2>1, <3>6, <3>7, <3>8, <4>1 DEF StartsInv
    <3>10. ASSUME Live(r), Own(r, e) PROVE OrderInv(r)'
      <4>1. announced'[r] = Append(announced[r], s)
        BY <2>3, <2>4, <3>1, <3>10
      <4>2. PICK k \in Nat :
              /\ Len(announced[r]) = k /\ Len(announced'[r]) = k + 1
              /\ DOMAIN announced[r] = 1..k /\ DOMAIN announced'[r] = 1..(k + 1)
              /\ \A i \in 1..k : announced'[r][i] = announced[r][i]
              /\ announced'[r][k + 1] = s
        BY <1>1, <4>1, AnnouncementsTyped, AppendProperties
      <4>3. Old(r) = m - k /\ Old(r)' = (m + 1) - (k + 1)
        BY <3>3, <4>2 DEF Old
      <4>4. /\ m - k >= 0
            /\ \A i \in 1..m : Announcements(r)[i].run = run[r] <=> i > m - k
            /\ \A i \in 1..k : Tells(Announcements(r)[(m - k) + i], announced[r][i])
        BY <2>1, <3>3, <3>10, <4>2, <4>3 DEF OrderInv
      <4>5. Old(r)' = m - k
        BY <4>3
      <4>6. ASSUME NEW i \in 1..(m + 1)
            PROVE  Announcements(r)'[i].run = run'[r] <=> i > m - k
        <5>1. CASE i \in 1..m
          BY <1>2, <3>3, <4>4, <5>1
        <5>2. CASE i = m + 1
          BY <1>2, <3>2, <3>3, <3>10, <4>2, <5>2 DEF Own
        <5> QED
          BY <3>4, <5>1, <5>2
      <4>7. ASSUME NEW i \in 1..(k + 1)
            PROVE  Tells(Announcements(r)'[(m - k) + i], announced'[r][i])
        <5>1. CASE i \in 1..k
          <6>1. (m - k) + i \in 1..m
            BY <3>3, <4>2, <4>4, <5>1
          <6> QED
            BY <3>3, <4>2, <4>4, <5>1, <6>1
        <5>2. CASE i = k + 1
          <6>1. (m - k) + i = m + 1
            BY <3>3, <4>2, <5>2
          <6> QED
            BY <3>2, <3>3, <4>2, <5>2, <6>1
        <5> QED
          BY <4>2, <5>1, <5>2
      <4> QED
        BY <3>3, <4>2, <4>4, <4>5, <4>6, <4>7 DEF OrderInv
    <3>11. ASSUME Live(r), ~Own(r, e) PROVE OrderInv(r)'
      <4>1. announced'[r] = announced[r]
        BY <2>3, <2>4, <3>11
      <4>2. announced[r] = <<>>
        BY <1>3, <2>1, <3>11 DEF StartsInv
      <4>3. Old(r) = m /\ Old(r)' = m + 1 /\ DOMAIN announced'[r] = {}
        BY <3>3, <4>1, <4>2 DEF Old
      <4>4. \A i \in 1..m : Announcements(r)[i].run # run[r]
        BY <2>1, <3>3, <3>11, <4>3 DEF OrderInv
      <4>5. \A i \in 1..(m + 1) : /\ Announcements(r)'[i].run # run'[r]
                                  /\ ~(i > m + 1)
        BY <1>2, <3>2, <3>3, <3>4, <3>11, <4>4 DEF Own
      <4> QED
        BY <3>3, <4>3, <4>5 DEF OrderInv
    <3>12. ASSUME ~Live(r) PROVE OrderInv(r)'
      BY <1>2, <3>12 DEF OrderInv, Live
    <3> QED
      BY <3>9, <3>10, <3>11, <3>12
  <2> QED
    BY <2>6, <2>7
<1> QED
  BY <1>4, <1>5, <1>7 DEF OverlapInv

-----------------------------------------------------------------------------
(* How the announcements of a request are numbered, over all its starts *)

\* As if said before the first chunk.
Nothing == [idx |-> -1, is_last |-> FALSE, run |-> 0]

\* Chunk d may be the next after c.
Follows(c, d) ==
  IF c.is_last THEN d.idx = 0 /\ c.run < d.run ELSE d.idx = c.idx + 1

LastSaid(r) ==
  LET all == Announcements(r)
  IN  IF all = <<>> THEN Nothing ELSE all[Len(all)]

Numbered(r) ==
  LET all == Announcements(r)
  IN \A i \in DOMAIN all : Follows(IF i = 1 THEN Nothing ELSE all[i - 1], all[i])

\* The scheduler's counter is that of the chunk that may follow c, and after a
\* last chunk it counts for r again only in a later start.
ComesAfter(r, c) ==
  /\ save_chunk_counter[r] = IF c.is_last THEN 0 ELSE c.idx + 1
  /\ c.run \in Nat /\ c.run <= run[r]
  /\ c.is_last /\ r \in reqs_need_save => c.run < run[r]

\* latest[k] is the latest chunk of r when step k has been announced: each of
\* the steps in flight takes up the numbers where the one before leaves them,
\* the first where the worker is, and the last where the scheduler is.
Chain(r, latest) ==
  /\ latest[executed] = LastSaid(r)
  /\ \A k \in Steps : k > executed =>
       IF ChunksOf(r, k) = {} THEN latest[k] = latest[k - 1]
       ELSE \E s \in ChunksOf(r, k) : /\ latest[k] = Message(r, k, s)
                                      /\ Follows(latest[k - 1], latest[k])
  /\ ComesAfter(r, latest[Len(inflight)])

NumbersInv(r) == Numbered(r) /\ \E latest : Chain(r, latest)

LEMMA InitNumbers ==
  ASSUME OverlapInit, NEW r \in Reqs
  PROVE  NumbersInv(r)
<1>1. /\ inflight = <<>> /\ executed = 0 /\ run[r] = 0 /\ save_chunk_counter[r] = 0
      /\ sent[r] = <<>> /\ pending[r] = <<>>
  BY DEF OverlapInit, Init
<1>2. OverlapType
  BY InitOverlap DEF OverlapInv
<1>3. Announcements(r) = <<>>
  BY <1>1, <1>2, ConcatEmptySeq, AnnouncementsTyped DEF Announcements
<1>4. Numbered(r) /\ LastSaid(r) = Nothing
  BY <1>3 DEF Numbered, LastSaid
<1> DEFINE latest == [k \in {0} |-> Nothing]
<1>5. Len(inflight) = 0 /\ Steps = {}
  BY <1>1 DEF Steps
<1>6. ComesAfter(r, Nothing)
  BY <1>1 DEF ComesAfter, Nothing
<1>7. latest[0] = Nothing
  OBVIOUS
<1> HIDE DEF latest
<1>8. Chain(r, latest)
  BY <1>1, <1>4, <1>5, <1>6, <1>7 DEF Chain
<1> QED
  BY <1>4, <1>8 DEF NumbersInv

\* A step that schedules, ends and announces nothing.
LEMMA NumbersUndisturbed ==
  ASSUME NEW r \in Reqs, NumbersInv(r),
         inflight' = inflight, executed' = executed, run' = run,
         save_chunk_counter' = save_chunk_counter,
         reqs_need_save' \subseteq reqs_need_save, sent' = sent, pending' = pending
  PROVE  NumbersInv(r)'
<1>1. /\ Announcements(r)' = Announcements(r) /\ Steps' = Steps
      /\ \A k \in Steps : ChunksOf(r, k)' = ChunksOf(r, k)
  BY DEF Announcements, Steps, ChunksOf
<1>2. Numbered(r)' /\ LastSaid(r)' = LastSaid(r)
  BY <1>1 DEF NumbersInv, Numbered, LastSaid
<1>3. PICK latest : Chain(r, latest)
  BY DEF NumbersInv
<1>4. ComesAfter(r, latest[Len(inflight)])'
  BY <1>3 DEF Chain, ComesAfter
<1>5. \A k \in Steps : \A s : Message(r, k, s)' = Message(r, k, s)
  BY DEF Message
<1>6. Chain(r, latest)'
  BY <1>1, <1>2, <1>3, <1>4, <1>5 DEF Chain
<1> QED
  BY <1>2, <1>6 DEF NumbersInv

\* The scheduler numbers the chunk of a new step after all that are in flight.
LEMMA DrainNumbers ==
  ASSUME OverlapInv, NEW n \in [Reqs -> 0..Budget], ScheduleDrain(n),
         NEW r \in Reqs, NumbersInv(r)
  PROVE  NumbersInv(r)'
<1> DEFINE need == reqs_need_save \union
                   {q \in Reqs : status[q] = "waiting" /\ n[q] > 0}
           saves == Saves(n, need)
<1>1. HostType /\ Schedule(n) /\ sent' = sent /\ pending' = pending
  BY DEF OverlapInv, OverlapType, ScheduleDrain, notifVars
<1>2. PICK m \in Nat :
        /\ Len(inflight) = m /\ Len(inflight') = m + 1
        /\ Steps = 1..m /\ Steps' = 1..(m + 1)
        /\ executed \in 0..m /\ executed' = executed
        /\ \A i \in 1..m : inflight'[i] = inflight[i]
        /\ inflight'[m + 1].run = run' /\ inflight'[m + 1].saves = saves
  <2> HIDE DEF need, saves
  <2>1. /\ Len(inflight) \in Nat /\ Len(inflight') = Len(inflight) + 1
        /\ \A i \in Steps : inflight'[i] = inflight[i]
        /\ Added.run = run' /\ Added.saves = saves
    BY <1>1, ScheduleSteps DEF saves, need
  <2>2. executed \in 0..Len(inflight) /\ executed' = executed
    BY <1>1 DEF HostType, Schedule
  <2> QED
    BY <2>1, <2>2 DEF Steps, Added
<1>3. PICK latest : Chain(r, latest)
  BY DEF NumbersInv
<1> DEFINE now == latest[m]
<1>4. ChunksOf(r, m + 1)' = {t \in saves : t.req = r}
  BY <1>2 DEF ChunksOf
<1>5. \A t \in saves : /\ t.req \in need /\ t.idx = save_chunk_counter[t.req]
                       /\ t.is_last \in BOOLEAN
  <2> SUFFICES ASSUME NEW t \in saves
               PROVE  /\ t.req \in need /\ t.idx = save_chunk_counter[t.req]
                      /\ t.is_last \in BOOLEAN
    OBVIOUS
  <2>1. PICK q \in need :
           t = [req |-> q, blocks |-> NewBlocks(q, n[q]), idx |-> save_chunk_counter[q],
                is_last |-> ~IsPartial(q, n[q])]
    BY DEF Saves
  <2> HIDE DEF need, saves
  <2>2. t.req = q /\ t.idx = save_chunk_counter[q]
    BY <2>1
  <2>3. PICK last \in BOOLEAN : last = ~IsPartial(q, n[q])
    BY DEF IsPartial
  <2>4. t = [req |-> q, blocks |-> NewBlocks(q, n[q]), idx |-> save_chunk_counter[q],
             is_last |-> last]
    BY <2>1, <2>3
  <2>5. t.is_last = last
    BY <2>4
  <2> QED
    BY <2>2, <2>3, <2>5
<1>6. \A t, u \in ChunksOf(r, m + 1)' : t = u
  BY <1>4 DEF Saves
<1>7. /\ run[r] \in Nat /\ run'[r] \in Nat
      /\ \/ run'[r] = run[r] /\ (r \in need => r \in reqs_need_save)
         \/ run'[r] = run[r] + 1
  BY <1>1 DEF Schedule, HostType
<1>8. /\ reqs_need_save' = need \ DoneSaving(saves)
      /\ save_chunk_counter'[r] = IF r \in DoneSaving(saves) THEN 0
                                  ELSE IF \E t \in saves : t.req = r
                                  THEN save_chunk_counter[r] + 1
                                  ELSE save_chunk_counter[r]
  BY <1>1 DEF Schedule
<1>9. ComesAfter(r, now)
  BY <1>2, <1>3 DEF Chain
<1> HIDE DEF need, saves, now
<1>10. r \in need => (now.is_last => now.run < run'[r])
  BY <1>7, <1>9 DEF ComesAfter
<1>11. PICK next :
         /\ ComesAfter(r, next)'
         /\ IF ChunksOf(r, m + 1)' = {} THEN next = now
            ELSE \E s \in ChunksOf(r, m + 1)' : /\ next = Message(r, m + 1, s)'
                                                /\ Follows(now, next)
  <2>1. CASE ChunksOf(r, m + 1)' = {}
    <3>1. \A t \in saves : t.req # r
      BY <1>4, <2>1
    <3>2. r \notin DoneSaving(saves)
      BY <3>1 DEF DoneSaving
    <3>3. save_chunk_counter'[r] = save_chunk_counter[r] /\ (r \in reqs_need_save' => r \in need)
      BY <1>8, <3>1, <3>2
    <3>4. now.run \in Nat /\ now.run <= run'[r]
      BY <1>7, <1>9 DEF ComesAfter
    <3>5. ComesAfter(r, now)'
      BY <1>9, <1>10, <3>3, <3>4 DEF ComesAfter
    <3> QED
      BY <2>1, <3>5
  <2>2. CASE ChunksOf(r, m + 1)' # {}
    <3>1. PICK s \in ChunksOf(r, m + 1)' : TRUE
      BY <2>2
    <3>2. PICK d : d = Message(r, m + 1, s)'
      OBVIOUS
    <3>3. /\ s \in saves /\ s.req = r /\ r \in need /\ s.is_last \in BOOLEAN
          /\ s.idx = save_chunk_counter[r]
      BY <1>4, <1>5, <3>1
    <3>4. r \in DoneSaving(saves) <=> s.is_last
      BY <1>4, <1>6, <3>1, <3>3 DEF DoneSaving
    <3>5. d.idx = s.idx /\ d.is_last = s.is_last /\ d.run = run'[r]
      BY <1>2, <3>2 DEF Message
    <3>6. Follows(now, d)
      BY <1>9, <1>10, <3>3, <3>5 DEF Follows, ComesAfter
    <3>7. save_chunk_counter'[r] = IF s.is_last THEN 0 ELSE s.idx + 1
      BY <1>8, <3>3, <3>4
    <3>8. ~(s.is_last /\ r \in reqs_need_save')
      BY <1>8, <3>4
    <3>9. ComesAfter(r, d)'
      BY <1>7, <3>5, <3>7, <3>8 DEF ComesAfter
    <3> QED
      BY <2>2, <3>1, <3>2, <3>6, <3>9
  <2> QED
    BY <2>1, <2>2
<1> DEFINE longer == [k \in Nat |-> IF k = m + 1 THEN next ELSE latest[k]]
<1>12. longer[m + 1] = next /\ \A k \in 0..m : longer[k] = latest[k]
  BY <1>2
<1>13. LastSaid(r)' = LastSaid(r) /\ Numbered(r)'
  <2>1. Announcements(r)' = Announcements(r)
    BY <1>1 DEF Announcements
  <2> QED
    BY <2>1 DEF NumbersInv, LastSaid, Numbered
<1> HIDE DEF longer
<1>14. ASSUME NEW k \in Steps', k > executed
       PROVE  IF ChunksOf(r, k)' = {} THEN longer[k] = longer[k - 1]
              ELSE \E t \in ChunksOf(r, k)' : /\ longer[k] = Message(r, k, t)'
                                              /\ Follows(longer[k - 1], longer[k])
  <2>1. CASE k \in 1..m
    <3>1. ChunksOf(r, k)' = ChunksOf(r, k) /\ \A t : Message(r, k, t)' = Message(r, k, t)
      BY <1>2, <2>1 DEF ChunksOf, Message
    <3>2. k \in 0..m /\ k - 1 \in 0..m
      BY <1>2, <1>14, <2>1
    <3>3. longer[k] = latest[k] /\ longer[k - 1] = latest[k - 1]
      BY <1>12, <3>2
    <3>4. IF ChunksOf(r, k) = {} THEN latest[k] = latest[k - 1]
          ELSE \E t \in ChunksOf(r, k) : /\ latest[k] = Message(r, k, t)
                                         /\ Follows(latest[k - 1], latest[k])
      BY <1>2, <1>3, <1>14, <2>1 DEF Chain
    <3> QED
      BY <3>1, <3>3, <3>4
  <2>2. CASE k = m + 1
    <3>1. m \in 0..m /\ k - 1 = m
      BY <1>2, <2>2
    <3>2. longer[k - 1] = now /\ longer[k] = next
      BY <1>12, <2>2, <3>1 DEF now
    <3> QED
      BY <1>11, <2>2, <3>2
  <2> QED
    BY <1>2, <2>1, <2>2
<1>15. longer[executed] = LastSaid(r)
  <2>1. executed \in 0..m
    BY <1>2
  <2> QED
    BY <1>3, <1>12, <2>1 DEF Chain
<1>16. ComesAfter(r, longer[Len(inflight)])'
  <2>1. longer[m + 1] = next /\ Len(inflight') = m + 1
    BY <1>2, <1>12
  <2> QED
    BY <1>11, <2>1 DEF ComesAfter
<1>17. \E l : Chain(r, l)'
  <2>1. Chain(r, longer)'
    BY <1>2, <1>13, <1>14, <1>15, <1>16 DEF Chain
  <2> QED
    BY <2>1
<1> QED
  BY <1>13, <1>17 DEF NumbersInv

LEMMA EndNumbers ==
  ASSUME OverlapInv, EndStep, NEW r \in Reqs, NumbersInv(r)
  PROVE  NumbersInv(r)'
<1>1. HostType /\ UpdateFromOutput /\ sent' = sent /\ pending' = pending
  BY DEF OverlapInv, OverlapType, EndStep, notifVars
<1>2. PICK m \in Nat, e \in Nat :
        /\ Len(inflight) = m + 1 /\ Len(inflight') = m
        /\ Steps = 1..(m + 1) /\ Steps' = 1..m
        /\ executed = e + 1 /\ executed' = e
        /\ \A i \in 1..m : inflight'[i] = inflight[i + 1]
        /\ run' = run /\ save_chunk_counter' = save_chunk_counter
        /\ reqs_need_save' = reqs_need_save
  <2>1. /\ inflight \in Seq(StepType) /\ executed \in 0..Len(inflight) /\ executed > 0
        /\ inflight' = Tail(inflight) /\ executed' = executed - 1
        /\ run' = run /\ save_chunk_counter' = save_chunk_counter
        /\ reqs_need_save' = reqs_need_save
    BY <1>1 DEF HostType, UpdateFromOutput
  <2>2. Len(inflight) \in Nat /\ Len(inflight) > 0 /\ inflight # <<>>
    BY <2>1
  <2>3. /\ Len(inflight') = Len(inflight) - 1
        /\ \A i \in 1..Len(inflight') : inflight'[i] = inflight[i + 1]
    BY <2>1, <2>2, HeadTailProperties
  <2>4. /\ Len(inflight) - 1 \in Nat /\ (Len(inflight) - 1) + 1 = Len(inflight)
        /\ executed - 1 \in Nat /\ (executed - 1) + 1 = executed
    BY <2>1, <2>2
  <2> QED
    BY <2>1, <2>3, <2>4 DEF Steps
<1>3. PICK latest : Chain(r, latest)
  BY DEF NumbersInv
<1> DEFINE rest == [k \in Nat |-> latest[k + 1]]
<1>4. \A k \in Nat : rest[k] = latest[k + 1]
  OBVIOUS
<1> HIDE DEF rest
<1>5. LastSaid(r)' = LastSaid(r) /\ Numbered(r)'
  <2>1. Announcements(r)' = Announcements(r)
    BY <1>1 DEF Announcements
  <2> QED
    BY <2>1 DEF NumbersInv, LastSaid, Numbered
<1>6. ASSUME NEW k \in Steps', k > executed'
      PROVE  IF ChunksOf(r, k)' = {} THEN rest[k] = rest[k - 1]
             ELSE \E t \in ChunksOf(r, k)' : /\ rest[k] = Message(r, k, t)'
                                             /\ Follows(rest[k - 1], rest[k])
  <2>1. /\ ChunksOf(r, k)' = ChunksOf(r, k + 1)
        /\ \A t : Message(r, k, t)' = Message(r, k + 1, t)
    BY <1>2 DEF ChunksOf, Message
  <2>2. /\ k \in Nat /\ k - 1 \in Nat /\ (k - 1) + 1 = k /\ (k + 1) - 1 = k
        /\ k + 1 \in Steps /\ k + 1 > executed
    BY <1>2, <1>6
  <2>3. rest[k] = latest[k + 1] /\ rest[k - 1] = latest[k]
    BY <1>4, <2>2
  <2>4. IF ChunksOf(r, k + 1) = {} THEN latest[k + 1] = latest[k]
        ELSE \E t \in ChunksOf(r, k + 1) : /\ latest[k + 1] = Message(r, k + 1, t)
                                           /\ Follows(latest[k], latest[k + 1])
    BY <1>3, <2>2 DEF Chain
  <2> QED
    BY <2>1, <2>3, <2>4
<1>7. rest[executed'] = LastSaid(r)
  BY <1>2, <1>3, <1>4 DEF Chain
<1>8. ComesAfter(r, rest[Len(inflight)])'
  <2>1. rest[Len(inflight')] = latest[Len(inflight)]
    BY <1>2, <1>4
  <2> QED
    BY <1>2, <1>3, <2>1 DEF Chain, ComesAfter
<1>9. Chain(r, rest)'
  BY <1>5, <1>6, <1>7, <1>8 DEF Chain
<1> QED
  BY <1>5, <1>9 DEF NumbersInv

\* The worker announces what comes next.
LEMMA AnnounceNumbers ==
  ASSUME OverlapInv, NEW raising, SaveAndAnnounce(raising),
         NEW r \in Reqs, NumbersInv(r)
  PROVE  NumbersInv(r)'
<1>1. OverlapType /\ HostType /\ SaveKvToHost
  BY DEF OverlapInv, OverlapType, SaveAndAnnounce
<1>2. PICK e \in Steps :
        /\ e = executed + 1 /\ executed' = e /\ executed \in Nat /\ e \in Nat
        /\ e - 1 = executed /\ e > executed
  BY <1>1, AnnouncesChunk DEF SaveKvToHost, HostType
<1>3. /\ inflight' = inflight /\ run' = run /\ reqs_need_save' = reqs_need_save
      /\ save_chunk_counter' = save_chunk_counter
  BY <1>1 DEF SaveKvToHost
<1>4. PICK latest : Chain(r, latest)
  BY DEF NumbersInv
<1>5. latest[e] = LastSaid(r)' /\ Numbered(r)'
  <2> DEFINE all == Announcements(r)
             more == ChunksFor(r, Chunks(inflight[e]))
  <2>1. all \in Seq(ChunkType) /\ Len(all) \in Nat /\ DOMAIN all = 1..Len(all)
    BY <1>1, AnnouncementsTyped
  <2>2. Announcements(r)' = all \o more
    BY <1>2, AnnouncesChunk
  <2>3. latest[executed] = IF all = <<>> THEN Nothing ELSE all[Len(all)]
    BY <1>4 DEF Chain, LastSaid
  <2>4. IF ChunksOf(r, e) = {} THEN latest[e] = latest[executed]
        ELSE \E s \in ChunksOf(r, e) : /\ latest[e] = Message(r, e, s)
                                       /\ Follows(latest[executed], latest[e])
    BY <1>2, <1>4 DEF Chain
  <2>5. \A i \in DOMAIN all : Follows(IF i = 1 THEN Nothing ELSE all[i - 1], all[i])
    BY DEF NumbersInv, Numbered
  <2>6. \A s, t \in ChunksOf(r, e) : s = t
    BY DEF OverlapInv, StartsInv
  <2>7. CASE ChunksOf(r, e) = {}
    <3>1. more = <<>>
      BY <1>1, <2>6, <2>7, ChunkOfStep
    <3>2. Announcements(r)' = Announcements(r)
      BY <2>1, <2>2, <3>1, ConcatEmptySeq
    <3> QED
      BY <1>4, <2>4, <2>7, <3>2 DEF NumbersInv, Numbered, LastSaid, Chain
  <2>8. CASE ChunksOf(r, e) # {}
    <3>1. PICK s \in SaveType :
            /\ ChunksOf(r, e) = {s} /\ Message(r, e, s) \in ChunkType
            /\ more = <<Message(r, e, s)>>
      BY <1>1, <2>6, <2>8, ChunkOfStep
    <3>2. PICK c \in ChunkType : c = Message(r, e, s)
      BY <3>1
    <3>3. latest[e] = c /\ Follows(latest[executed], c)
      BY <2>4, <2>8, <3>1, <3>2
    <3> DEFINE now == all \o <<c>>
    <3>4. Announcements(r)' = now
      BY <2>2, <3>1, <3>2
    <3>5. /\ Len(now) = Len(all) + 1 /\ DOMAIN now = 1..(Len(all) + 1)
          /\ \A i \in 1..Len(all) : now[i] = all[i]
          /\ now[Len(all) + 1] = c
      BY <2>1, OneMore
    <3>6. all = <<>> <=> Len(all) = 0
      BY <2>1
    <3> HIDE DEF now, all
    <3>7. now # <<>> /\ now[Len(now)] = c
      BY <2>1, <3>5
    <3>8. ASSUME NEW i \in DOMAIN now
          PROVE  Follows(IF i = 1 THEN Nothing ELSE now[i - 1], now[i])
      <4>1. CASE i \in 1..Len(all)
        <5>1. now[i] = all[i] /\ (i # 1 => now[i - 1] = all[i - 1])
          BY <2>1, <3>5, <4>1
        <5> QED
          BY <2>1, <2>5, <4>1, <5>1
      <4>2. CASE i = Len(all) + 1
        <5>1. (IF i = 1 THEN Nothing ELSE now[i - 1]) = latest[executed]
          BY <2>1, <2>3, <3>5, <3>6, <4>2
        <5>2. now[i] = c
          BY <3>5, <4>2
        <5> QED
          BY <3>3, <5>1, <5>2
      <4> QED
        BY <2>1, <3>5, <4>1, <4>2
    <3>9. LastSaid(r)' = c
      BY <3>4, <3>7 DEF LastSaid
    <3>10. Numbered(r)'
      BY <3>4, <3>8 DEF Numbered
    <3> QED
      BY <3>3, <3>9, <3>10
  <2> QED
    BY <2>7, <2>8
<1>6. /\ Steps' = Steps /\ \A k \in Steps : k \in Nat
      /\ \A k \in Steps : ChunksOf(r, k)' = ChunksOf(r, k)
      /\ \A k \in Steps : \A s : Message(r, k, s)' = Message(r, k, s)
      /\ \A k \in Steps : k > executed' => k > executed
  BY <1>2, <1>3 DEF Steps, ChunksOf, Message
<1>7. ComesAfter(r, latest[Len(inflight)])'
  BY <1>3, <1>4 DEF Chain, ComesAfter
<1>8. Chain(r, latest)'
  BY <1>2, <1>4, <1>5, <1>6, <1>7 DEF Chain
<1> QED
  BY <1>5, <1>8 DEF NumbersInv

LEMMA NextNumbers ==
  ASSUME OverlapInv, [OverlapNext]_overlapVars, NEW r \in Reqs, NumbersInv(r)
  PROVE  NumbersInv(r)'
<1>1. ASSUME NEW reg \in Registration, Register(reg) PROVE NumbersInv(r)'
  BY <1>1, NumbersUndisturbed DEF Register, vars, notifVars
<1>2. ASSUME NEW n \in [Reqs -> 0..Budget], ScheduleDrain(n) PROVE NumbersInv(r)'
  BY <1>2, DrainNumbers
<1>3. ASSUME NEW q \in Reqs, PreemptOverlap(q) \/ AbortOverlap(q)
      PROVE  NumbersInv(r)'
  <2>1. /\ inflight' = inflight /\ executed' = executed /\ run' = run
        /\ save_chunk_counter' = save_chunk_counter
        /\ reqs_need_save' \subseteq reqs_need_save /\ sent' = sent /\ pending' = pending
    BY <1>3 DEF PreemptOverlap, AbortOverlap, Preempt, Abort, notifVars
  <2> QED
    BY <2>1, NumbersUndisturbed
<1>4. CASE EndStep
  BY <1>4, EndNumbers
<1>5. ASSUME NEW raising \in SUBSET (1..MaxMessages), SaveAndAnnounce(raising)
      PROVE  NumbersInv(r)'
  BY <1>5, AnnounceNumbers
<1>6. CASE UNCHANGED overlapVars
  BY <1>6, NumbersUndisturbed DEF overlapVars, vars, notifVars
<1> QED
  BY <1>1, <1>2, <1>3, <1>4, <1>5, <1>6 DEF OverlapNext

-----------------------------------------------------------------------------
(* The theorems *)

LEMMA NextOverlap ==
  ASSUME OverlapInv, HostType', [OverlapNext]_overlapVars
  PROVE  OverlapInv'
<1>1. ASSUME NEW reg \in Registration, Register(reg) PROVE OverlapInv'
  BY <1>1, RegisterInv
<1>2. ASSUME NEW n \in [Reqs -> 0..Budget], ScheduleDrain(n) PROVE OverlapInv'
  BY <1>2, DrainInv
<1>3. ASSUME NEW r \in Reqs, PreemptOverlap(r) \/ AbortOverlap(r) PROVE OverlapInv'
  BY <1>3, StopInv
<1>4. CASE EndStep
  BY <1>4, EndStepInv
<1>5. ASSUME NEW raising \in SUBSET (1..MaxMessages), SaveAndAnnounce(raising)
      PROVE  OverlapInv'
  BY <1>5, SaveAndAnnounceInv
<1>6. CASE UNCHANGED overlapVars
  <2>1. /\ registrations' = registrations /\ metadata' = metadata
        /\ inflight' = inflight /\ executed' = executed /\ status' = status
        /\ run' = run /\ announced' = announced
        /\ agents' = agents /\ engine_by_req' = engine_by_req
        /\ pending' = pending /\ sent' = sent
    BY <1>6 DEF overlapVars, vars, listenerVars, notifVars
  <2>2. OverlapType'
    <3>1. WorkerOK(State)'
      BY <2>1 DEF OverlapInv, OverlapType, WorkerOK, MappedAreAdded, State
    <3> QED
      BY <2>1, <3>1 DEF OverlapInv, OverlapType
  <2>3. ASSUME NEW r \in Reqs PROVE StartsInv(r)' /\ OrderInv(r)'
    <3>1. StartsInv(r) /\ OrderInv(r)
      BY DEF OverlapInv
    <3>2. /\ Announcements(r)' = Announcements(r)
          /\ Live(r)' => Live(r)
          /\ status'[r] = "waiting" => announced'[r] = <<>>
      BY <2>1, <3>1 DEF Announcements, Live, StartsInv
    <3> QED
      BY <2>1, <3>1, <3>2, OverlapUndisturbed
  <2>4. NothingStuck'
    BY <2>1 DEF OverlapInv, NothingStuck
  <2> QED
    BY <2>2, <2>3, <2>4 DEF OverlapInv
<1> QED
  BY <1>1, <1>2, <1>3, <1>4, <1>5, <1>6 DEF OverlapNext

\* Whatever the listener, the scheduler and the worker do: the worker's four
\* dictionaries agree, the steps in flight are of starts in their order, and
\* so are the announcements.
THEOREM OverlapInvariant == OverlapSpec => []OverlapInv
<1>1. OverlapSpec => []HostType
  BY OverlapIsHostSave, TypeCorrect, PTL
<1>2. OverlapInit => OverlapInv
  BY InitOverlap
<1>3. OverlapInv /\ HostType' /\ [OverlapNext]_overlapVars => OverlapInv'
  BY NextOverlap
<1> QED
  BY <1>1, <1>2, <1>3, PTL DEF OverlapSpec

\* _resolve_consumer_agent never fails once there is an agent, so save_kv_to_host
\* leaves nothing in _pending_chunk_notifs while a consumer is known.
THEOREM NothingWaits == OverlapSpec => []NothingStuck
<1>1. OverlapInv => NothingStuck
  BY DEF OverlapInv
<1> QED
  BY <1>1, OverlapInvariant, PTL

\* The CHUNK_READYs of a live request's latest start come after those of its
\* earlier starts, each once and in the order of the copies, whatever block
\* sizes, budgets, preemptions and steps in flight.
THEOREM ChunksInOrder == OverlapSpec => []SentInOrder
<1>1. OverlapInv => SentInOrder
  BY DEF OverlapInv, OrderInv, SentInOrder, Old, Tells, Live
<1> QED
  BY <1>1, OverlapInvariant, PTL

\* The indices of all that is announced of a request are those of one counter
\* that goes up by one, also over a preemption, and restarts only after a chunk
\* marked last and in a later start, whatever block sizes, budgets, preemptions,
\* registrations and steps in flight.  This is all that holds of
\* "monotonically increasing chunk index per request".
THEOREM ChunksNumbered == OverlapSpec => []NumberedInTurn
<1> DEFINE AllNumbered == \A r \in Reqs : NumbersInv(r)
<1>1. OverlapInit => AllNumbered
  BY InitNumbers
<1>2. OverlapInv /\ AllNumbered /\ [OverlapNext]_overlapVars => AllNumbered'
  <2> SUFFICES ASSUME OverlapInv, AllNumbered, [OverlapNext]_overlapVars, NEW r \in Reqs
               PROVE  NumbersInv(r)'
    OBVIOUS
  <2> QED
    BY NextNumbers
<1>3. OverlapInv /\ AllNumbered => NumberedInTurn
  <2> SUFFICES ASSUME OverlapInv, AllNumbered, NEW r \in Reqs,
                      NEW i \in DOMAIN Announcements(r)
               PROVE  LET all == Announcements(r)
                      IN IF i > 1 /\ ~all[i - 1].is_last
                         THEN all[i].idx = all[i - 1].idx + 1
                         ELSE /\ all[i].idx = 0
                              /\ i > 1 => all[i - 1].run < all[i].run
    BY DEF NumberedInTurn
  <2>1. i \in Nat /\ i >= 1
    BY AnnouncementsTyped DEF OverlapInv
  <2>2. Follows(IF i = 1 THEN Nothing ELSE Announcements(r)[i - 1], Announcements(r)[i])
    BY DEF NumbersInv, Numbered
  <2>3. CASE i = 1
    <3>1. Announcements(r)[i].idx = -1 + 1
      BY <2>2, <2>3 DEF Follows, Nothing
    <3> QED
      BY <2>3, <3>1
  <2>4. CASE i # 1
    BY <2>1, <2>2, <2>4 DEF Follows
  <2> QED
    BY <2>3, <2>4
<1> HIDE DEF AllNumbered
<1> QED
  BY <1>1, <1>2, <1>3, OverlapInvariant, PTL DEF OverlapSpec

\* What is announced of a held request since its latest start is what HostSave
\* saved for it.
LEMMA NamedWhenHeld == OverlapInv /\ LatestInOrder => HeldNamed
<1> SUFFICES ASSUME OverlapInv, LatestInOrder, NEW r \in Reqs, status[r] = "held"
             PROVE  LET all == Announcements(r)
                        latest == {i \in DOMAIN all : all[i].run = run[r]}
                    IN /\ UNION {all[i].blocks : i \in latest} = Blocks(r)
                       /\ \A i, j \in latest : i < j =>
                            \A b \in all[i].blocks, c \in all[j].blocks : b < c
                       /\ \A i \in latest : all[i].is_last <=> i = Len(all)
  BY DEF HeldNamed
<1> DEFINE all == Announcements(r)
           latest == {i \in DOMAIN all : all[i].run = run[r]}
           a == announced[r]
           old == Old(r)
<1>1. /\ Len(all) \in Nat /\ DOMAIN all = 1..Len(all)
      /\ Len(a) \in Nat /\ DOMAIN a = 1..Len(a) /\ old = Len(all) - Len(a)
  BY AnnouncementsTyped DEF OverlapInv, Old
<1>2. /\ old >= 0
      /\ \A i \in DOMAIN all : all[i].run = run[r] <=> i > old
      /\ \A i \in DOMAIN a : Tells(all[old + i], a[i])
  BY DEF OverlapInv, OrderInv, Live
<1>3. /\ UNION {a[i].blocks : i \in 1..Len(a)} = Blocks(r)
      /\ \A i, j \in 1..Len(a) : i < j => \A b \in a[i].blocks, c \in a[j].blocks : b < c
      /\ \A i \in 1..Len(a) : a[i].is_last <=> i = Len(a)
  BY DEF LatestInOrder
<1> HIDE DEF all, a, old
<1>4. \A i \in latest : /\ i - old \in 1..Len(a) /\ old + (i - old) = i
                        /\ i - old = Len(a) <=> i = Len(all)
  BY <1>1, <1>2
<1>5. \A i \in latest : /\ all[i].blocks = a[i - old].blocks
                        /\ all[i].is_last = a[i - old].is_last
  BY <1>1, <1>2, <1>4 DEF Tells
<1>6. \A i \in 1..Len(a) : old + i \in latest /\ (old + i) - old = i
  BY <1>1, <1>2
<1> HIDE DEF latest
<1>7. {all[i].blocks : i \in latest} = {a[i].blocks : i \in 1..Len(a)}
  <2>1. \A i \in latest : \E j \in 1..Len(a) : all[i].blocks = a[j].blocks
    BY <1>4, <1>5
  <2>2. \A j \in 1..Len(a) : \E i \in latest : all[i].blocks = a[j].blocks
    BY <1>5, <1>6
  <2> QED
    BY <2>1, <2>2
<1>8. \A i, j \in latest : i < j => i - old < j - old
  BY <1>1 DEF latest
<1>9. \A i, j \in latest : i < j => \A b \in all[i].blocks, c \in all[j].blocks : b < c
  BY <1>3, <1>4, <1>5, <1>8
<1>10. \A i \in latest : all[i].is_last <=> i = Len(all)
  BY <1>3, <1>4, <1>5
<1> QED
  BY <1>3, <1>7, <1>9, <1>10 DEF all, latest

\* With one prefill at a time, under a budget of whole blocks, a request is held
\* only when it is complete in the host buffer and forgotten by the scheduler,
\* and its announcements are numbered in turn and name all its blocks in order.
THEOREM OverlapSound ==
  MaxRunning = 1 /\ Budget % BlockSize = 0 =>
    (OverlapSpec => [](HeldIsStaged /\ NoSaveLeft /\ AnnouncedInOrder))
<1> SUFFICES ASSUME MaxRunning = 1, Budget % BlockSize = 0
             PROVE  OverlapSpec => [](HeldIsStaged /\ NoSaveLeft /\ AnnouncedInOrder)
  OBVIOUS
<1>1. OverlapSpec => [](HeldIsStaged /\ NoSaveLeft /\ LatestInOrder)
  BY HeldSound, OverlapIsHostSave, PTL
<1>2. OverlapInv /\ LatestInOrder /\ NumberedInTurn => AnnouncedInOrder
  BY NamedWhenHeld DEF AnnouncedInOrder
<1> QED
  BY <1>1, <1>2, OverlapInvariant, ChunksNumbered, PTL
=============================================================================
