--------------------------- MODULE HostSaveProofs ---------------------------
(***************************************************************************)
(* Theorems about HostSave, for every set of requests, every prompt, block *)
(* size and token budget, and every number of steps in flight and starts.  *)
(***************************************************************************)
EXTENDS HostSave, FiniteSetTheorems, SequenceTheorems, TLAPS

-----------------------------------------------------------------------------
(* Blocks and tokens *)

LEMMA Quotient ==
  ASSUME NEW a \in Nat, NEW d \in Nat \ {0}
  PROVE  /\ a \div d \in Nat /\ a % d \in 0..(d - 1)
         /\ a = d * (a \div d) + (a % d)
BY SMT

\* Only the greater factor makes the greater multiple.
LEMMA Cancel ==
  ASSUME NEW d \in Nat \ {0}, NEW x \in Int, NEW y \in Int, d * x < d * y
  PROVE  x < y
<1>1. SUFFICES ASSUME x >= y PROVE FALSE
  OBVIOUS
<1>2. d * x >= d * y
  BY <1>1
<1> QED
  BY <1>2

\* A number of whole blocks.
LEMMA Whole ==
  ASSUME NEW m \in Nat, m % BlockSize = 0
  PROVE  m \div BlockSize \in Nat /\ m = BlockSize * (m \div BlockSize)
<1>1. BlockSize \in Nat \ {0}
  BY HostSaveAssumption
<1>2. /\ m \div BlockSize \in Nat
      /\ m = BlockSize * (m \div BlockSize) + (m % BlockSize)
  BY <1>1, Quotient
<1>3. BlockSize * (m \div BlockSize) \in Nat
  BY <1>1, <1>2
<1> QED
  BY <1>2, <1>3

\* n blocks are needed exactly for more than (n - 1) and up to n blocks' tokens.
LEMMA NumBlocksBounds ==
  ASSUME NEW t \in Nat
  PROVE  /\ NumBlocks(t) \in Nat
         /\ t <= BlockSize * NumBlocks(t)
         /\ BlockSize * NumBlocks(t) < t + BlockSize
<1> DEFINE q == (t + BlockSize - 1) \div BlockSize
<1>1. BlockSize \in Nat \ {0} /\ t + BlockSize - 1 \in Nat
  BY HostSaveAssumption
<1>2. /\ q \in Nat /\ (t + BlockSize - 1) % BlockSize \in 0..(BlockSize - 1)
      /\ t + BlockSize - 1 = BlockSize * q + ((t + BlockSize - 1) % BlockSize)
  BY <1>1, Quotient
<1> QED
  BY <1>1, <1>2 DEF NumBlocks

LEMMA NumBlocksMonotone ==
  ASSUME NEW m \in Nat, NEW n \in Nat, m <= n
  PROVE  NumBlocks(m) <= NumBlocks(n)
<1> DEFINE a == NumBlocks(m)
           b == NumBlocks(n)
<1>1. /\ a \in Nat /\ b \in Nat /\ BlockSize \in Nat \ {0}
      /\ BlockSize * a < m + BlockSize /\ n <= BlockSize * b
  BY NumBlocksBounds, HostSaveAssumption
<1> HIDE DEF a, b
<1>2. SUFFICES ASSUME a >= b + 1 PROVE FALSE
  BY <1>1 DEF a, b
<1>3. BlockSize * a >= BlockSize * (b + 1)
  BY <1>1, <1>2
<1>4. BlockSize * (b + 1) = BlockSize * b + BlockSize
  BY <1>1
<1> QED
  BY <1>1, <1>3, <1>4

\* A chunk that starts with a block takes a new one.
LEMMA NumBlocksGrows ==
  ASSUME NEW m \in Nat, NEW n \in Nat, m < n, m % BlockSize = 0
  PROVE  NumBlocks(m) < NumBlocks(n)
<1> DEFINE a == NumBlocks(m)
           b == NumBlocks(n)
           q == m \div BlockSize
<1>1. /\ a \in Nat /\ b \in Nat /\ BlockSize \in Nat \ {0} /\ q \in Nat
      /\ m = BlockSize * q
      /\ BlockSize * a < m + BlockSize /\ n <= BlockSize * b
  BY NumBlocksBounds, Whole, HostSaveAssumption
<1> HIDE DEF a, b, q
<1>2. SUFFICES ASSUME a >= b PROVE FALSE
  BY <1>1 DEF a, b
<1>3. BlockSize * a >= BlockSize * b
  BY <1>1, <1>2
<1>4. BlockSize * a > BlockSize * q /\ BlockSize * a < BlockSize * (q + 1)
  BY <1>1, <1>3
<1>5. a > q /\ a < q + 1
  BY <1>1, <1>4, Cancel
<1> QED
  BY <1>1, <1>5

\* A block is as full as it will be once its prefill has come to the end of a
\* block, or of the prompt.
LEMMA FilledForGood ==
  ASSUME NEW m \in Nat, NEW p \in Nat, m <= p, m % BlockSize = 0 \/ m = p,
         NEW b \in 1..NumBlocks(m)
  PROVE  Filled(b, m) = Filled(b, p)
<1>1. CASE m = p
  BY <1>1
<1>2. CASE m % BlockSize = 0
  <2> DEFINE a == NumBlocks(m)
             q == m \div BlockSize
  <2>1. /\ a \in Nat /\ BlockSize \in Nat \ {0} /\ q \in Nat
        /\ m = BlockSize * q /\ BlockSize * a < m + BlockSize
    BY <1>2, NumBlocksBounds, Whole, HostSaveAssumption
  <2>2. b \in Nat /\ b <= a
    BY <2>1
  <2> HIDE DEF a, q
  <2>3. BlockSize * a < BlockSize * (q + 1)
    BY <2>1
  <2>4. a < q + 1
    BY <2>1, <2>3, Cancel
  <2>5. b <= q
    BY <2>1, <2>2, <2>4
  <2>6. b * BlockSize <= BlockSize * q
    BY <2>1, <2>2, <2>5
  <2> QED
    BY <2>1, <2>2, <2>6 DEF Filled
<1> QED
  BY <1>1, <1>2

-----------------------------------------------------------------------------
(* The invariant *)

\* Every prefill stands at the end of a block, or of its prompt.
Aligned ==
  \A r \in Reqs : computed[r] % BlockSize = 0 \/ computed[r] = Prompt[r]

SaveType == [req : Reqs, blocks : SUBSET Nat, idx : Nat, is_last : BOOLEAN]
StepType == [saves : SUBSET SaveType, upto : [Reqs -> Nat], run : [Reqs -> Nat]]

HostType ==
  /\ status \in [Reqs -> {"waiting", "running", "held", "aborted"}]
  /\ run \in [Reqs -> Nat]
  /\ computed \in [Reqs -> Nat]
  /\ reqs_need_save \subseteq Reqs
  /\ save_chunk_counter \in [Reqs -> Nat]
  /\ inflight \in Seq(StepType)
  /\ executed \in 0..Len(inflight)
  /\ DOMAIN staged = Reqs
  /\ \A r \in Reqs : staged[r] \in [Blocks(r) -> Nat]
  /\ announced \in [Reqs -> Seq(SaveType)]

Live(r) == status[r] \in {"running", "held"}
Steps == 1..Len(inflight)

\* Step i belongs to the latest start of r, and what it saves for r.
Own(r, i) == inflight[i].run[r] = run[r]
ChunksOf(r, i) == {s \in inflight[i].saves : s.req = r}

\* The steps in flight follow r's prefill: each ends where a block or the
\* prompt ends, and saves only blocks that no step before it reached.
StepsInv(r) ==
  /\ computed[r] <= Prompt[r]
  /\ status[r] = "waiting" => computed[r] = 0 /\ announced[r] = <<>>
  /\ \A i \in Steps : /\ inflight[i].run[r] <= run[r]
                      /\ \A s, t \in ChunksOf(r, i) : s = t
  /\ Live(r) => \A i \in Steps : Own(r, i) =>
       /\ inflight[i].upto[r] <= computed[r]
       /\ inflight[i].upto[r] % BlockSize = 0 \/ inflight[i].upto[r] = Prompt[r]
       /\ \A s \in ChunksOf(r, i) :
            s.blocks # {} /\ s.blocks \subseteq 1..NumBlocks(inflight[i].upto[r])
       /\ \A j \in Steps : i < j /\ Own(r, j) =>
            \A s \in ChunksOf(r, j) : \A b \in s.blocks :
               b > NumBlocks(inflight[i].upto[r])

\* r waits to be saved exactly while its prefill is not over.
NeedInv(r) ==
  /\ status[r] = "running" /\ computed[r] < Prompt[r] => r \in reqs_need_save
  /\ Live(r) /\ computed[r] = Prompt[r] =>
       r \notin reqs_need_save /\ save_chunk_counter[r] = 0
  /\ status[r] = "held" => computed[r] = Prompt[r]

\* What step i will still save for r.
Pending(r, i) == {s \in ChunksOf(r, i) : Own(r, i) /\ i > executed}

Told(r) == 1..Len(announced[r])

\* s is an earlier chunk of its request than t.
Earlier(s, t) ==
  /\ s.idx < t.idx
  /\ \A b \in s.blocks, c \in t.blocks : b < c
  /\ ~s.is_last

\* Chunk s lies in what r has computed, before the chunk that comes next.
Within(r, s) ==
  /\ s.blocks \subseteq 1..NumBlocks(computed[r])
  /\ computed[r] < Prompt[r] => s.idx < save_chunk_counter[r] /\ ~s.is_last

Covered(r, b) ==
  \/ \E k \in Told(r) : b \in announced[r][k].blocks
  \/ \E i \in Steps : \E s \in Pending(r, i) : b \in s.blocks

Ended(r) ==
  \/ \E k \in Told(r) : announced[r][k].is_last
  \/ \E i \in Steps : \E s \in Pending(r, i) : s.is_last

\* The chunks announced for r's latest start and those still to be saved
\* follow one another, name every block r has computed, and those announced
\* are complete in the host buffer.
ChunksInv(r) ==
  /\ status[r] = "held" => \A i \in Steps : Pending(r, i) = {}
  /\ \A k \in Told(r) :
       /\ Within(r, announced[r][k])
       /\ \A b \in announced[r][k].blocks : staged[r][b] = Filled(b, Prompt[r])
  /\ \A i \in Steps : \A s \in Pending(r, i) : Within(r, s)
  /\ \A k, l \in Told(r) : k < l => Earlier(announced[r][k], announced[r][l])
  /\ \A k \in Told(r), i \in Steps : \A s \in Pending(r, i) :
       Earlier(announced[r][k], s)
  /\ \A i, j \in Steps : i < j =>
       \A s \in Pending(r, i), t \in Pending(r, j) : Earlier(s, t)
  /\ \A b \in 1..NumBlocks(computed[r]) : Covered(r, b)
  /\ computed[r] = Prompt[r] => Ended(r)

ReqInv(r) == StepsInv(r) /\ NeedInv(r) /\ (Live(r) => ChunksInv(r))

HostInv == HostType /\ \A r \in Reqs : ReqInv(r)

-----------------------------------------------------------------------------
(* Types *)

LEMMA FilledType ==
  ASSUME NEW b \in Nat, NEW n \in Nat
  PROVE  Filled(b, n) \in Nat
<1>1. BlockSize \in Nat /\ b * BlockSize \in Nat /\ (b - 1) * BlockSize \in Int
  BY HostSaveAssumption
<1> QED
  BY <1>1 DEF Filled

LEMMA StepTyped ==
  ASSUME HostType, NEW i \in Steps
  PROVE  /\ inflight[i] \in StepType
         /\ \A r \in Reqs : inflight[i].run[r] \in Nat /\ inflight[i].upto[r] \in Nat
<1>1. inflight \in Seq(StepType) /\ i \in 1..Len(inflight)
  BY DEF HostType, Steps
<1>2. inflight[i] \in StepType
  BY <1>1
<1> QED
  BY <1>2 DEF StepType

LEMMA InitType == Init => HostType
<1> SUFFICES ASSUME Init PROVE HostType
  OBVIOUS
<1>1. \A r \in Reqs : staged[r] \in [Blocks(r) -> Nat]
  BY DEF Init, NoneStaged
<1> QED
  BY <1>1 DEF Init, HostType

\* The step a schedule() adds.
LEMMA ScheduledStep ==
  ASSUME HostType, NEW n \in [Reqs -> 0..Budget], Schedule(n)
  PROVE  LET need  == reqs_need_save \union
                      {r \in Reqs : status[r] = "waiting" /\ n[r] > 0}
             saves == Saves(n, need)
         IN /\ need \subseteq Reqs
            /\ saves \subseteq SaveType
            /\ computed' \in [Reqs -> Nat] /\ run' \in [Reqs -> Nat]
            /\ [saves |-> saves, upto |-> computed', run |-> run'] \in StepType
            /\ inflight' = Append(inflight,
                              [saves |-> saves, upto |-> computed', run |-> run'])
<1> DEFINE need == reqs_need_save \union
                   {r \in Reqs : status[r] = "waiting" /\ n[r] > 0}
           saves == Saves(n, need)
<1>1. need \subseteq Reqs
  BY DEF HostType
<1>2. computed' \in [Reqs -> Nat] /\ run' \in [Reqs -> Nat]
  <2>1. Budget \in Nat
    BY HostSaveAssumption
  <2>2. \A r \in Reqs : n[r] \in Nat /\ computed[r] + n[r] \in Nat /\ run[r] + 1 \in Nat
    BY <2>1 DEF HostType
  <2> QED
    BY <2>2 DEF HostType, Schedule
<1>3. saves \subseteq SaveType
  <2> SUFFICES ASSUME NEW r \in need
               PROVE  [req |-> r, blocks |-> NewBlocks(r, n[r]),
                       idx |-> save_chunk_counter[r],
                       is_last |-> ~IsPartial(r, n[r])] \in SaveType
    BY DEF Saves
  <2>1. r \in Reqs /\ computed[r] \in Nat /\ n[r] \in Nat
    BY <1>1, HostSaveAssumption DEF HostType
  <2>2. NumBlocks(computed[r]) \in Nat /\ NumBlocks(computed[r] + n[r]) \in Nat
    BY <2>1, NumBlocksBounds
  <2>3. NewBlocks(r, n[r]) \subseteq Nat
    BY <2>2 DEF NewBlocks
  <2> QED
    BY <2>1, <2>3 DEF SaveType, HostType, IsPartial
<1>4. inflight' = Append(inflight, [saves |-> saves, upto |-> computed', run |-> run'])
  BY DEF Schedule
<1> QED
  BY <1>1, <1>2, <1>3, <1>4 DEF StepType

LEMMA NextType ==
  ASSUME HostType, [Next]_vars
  PROVE  HostType'
<1>1. ASSUME NEW n \in [Reqs -> 0..Budget], Schedule(n) PROVE HostType'
  <2>1. /\ inflight' \in Seq(StepType) /\ Len(inflight') = Len(inflight) + 1
        /\ Len(inflight) \in Nat
        /\ computed' \in [Reqs -> Nat] /\ run' \in [Reqs -> Nat]
    <3>1. PICK e \in StepType : inflight' = Append(inflight, e)
      BY <1>1, ScheduledStep
    <3> QED
      <4>1. inflight \in Seq(StepType)
        BY DEF HostType
      <4>2. /\ inflight' \in Seq(StepType) /\ Len(inflight') = Len(inflight) + 1
            /\ Len(inflight) \in Nat
        BY <3>1, <4>1, AppendProperties
      <4>3. computed' \in [Reqs -> Nat] /\ run' \in [Reqs -> Nat]
        BY <1>1, ScheduledStep
      <4> QED
        BY <4>2, <4>3
  <2>2. /\ status' \in [Reqs -> {"waiting", "running", "held", "aborted"}]
        /\ reqs_need_save' \subseteq Reqs
        /\ save_chunk_counter' \in [Reqs -> Nat]
    <3>1. status' \in [Reqs -> {"waiting", "running", "held", "aborted"}]
      BY <1>1 DEF Schedule, HostType
    <3>2. reqs_need_save' \subseteq Reqs
      BY <1>1 DEF Schedule, HostType
    <3>3. \A r \in Reqs : save_chunk_counter[r] \in Nat
      BY DEF HostType
    <3>4. save_chunk_counter' \in [Reqs -> Nat]
      <4> DEFINE saves == Saves(n, reqs_need_save \union
                            {r \in Reqs : status[r] = "waiting" /\ n[r] > 0})
                 done == DoneSaving(saves)
      <4>1. save_chunk_counter' =
              [r \in Reqs |-> IF r \in done THEN 0
                              ELSE IF \E s \in saves : s.req = r
                              THEN save_chunk_counter[r] + 1
                              ELSE save_chunk_counter[r]]
        BY <1>1 DEF Schedule
      <4> HIDE DEF saves, done
      <4> QED
        BY <3>3, <4>1
    <3> QED
      BY <3>1, <3>2, <3>4
  <2>3. executed' = executed /\ staged' = staged /\ announced' = announced
    BY <1>1 DEF Schedule
  <2> QED
    BY <2>1, <2>2, <2>3 DEF HostType
<1>2. ASSUME NEW r \in Reqs, Preempt(r) PROVE HostType'
  <2>1. \A q \in Reqs : staged'[q] = IF q = r THEN NoneStaged(r) ELSE staged[q]
    BY <1>2 DEF Preempt, HostType
  <2>2. \A q \in Reqs : staged'[q] \in [Blocks(q) -> Nat]
    <3>1. NoneStaged(r) \in [Blocks(r) -> Nat]
      BY DEF NoneStaged
    <3> QED
      BY <2>1, <3>1 DEF HostType
  <2> QED
    BY <1>2, <2>2 DEF Preempt, HostType
<1>3. ASSUME NEW r \in Reqs, Abort(r) PROVE HostType'
  BY <1>3 DEF Abort, HostType
<1>4. CASE UpdateFromOutput
  <2>1. inflight # <<>> /\ executed \in Nat /\ executed > 0
    BY <1>4 DEF UpdateFromOutput, HostType
  <2>2. inflight' \in Seq(StepType) /\ Len(inflight') = Len(inflight) - 1
    BY <1>4, <2>1, HeadTailProperties DEF UpdateFromOutput, HostType
  <2>3. executed' \in 0..Len(inflight')
    BY <1>4, <2>1, <2>2 DEF UpdateFromOutput, HostType
  <2> QED
    BY <1>4, <2>2, <2>3 DEF UpdateFromOutput, HostType
<1>5. CASE SaveKvToHost
  <2> DEFINE step == inflight[executed + 1]
             saveOf(r) == CHOOSE s \in Current(step) : s.req = r
             saved == {s.req : s \in Current(step)}
  <2>1. executed + 1 \in 1..Len(inflight) /\ executed' = executed + 1
    BY <1>5 DEF SaveKvToHost, HostType
  <2>2. step \in StepType
    BY <2>1 DEF HostType
  <2>3. Current(step) \subseteq SaveType
    BY <2>2 DEF Current, StepType
  <2>4. ASSUME NEW r \in saved PROVE saveOf(r) \in SaveType
    BY <2>3
  <2>5. /\ DOMAIN staged' = Reqs
        /\ \A r \in Reqs : staged'[r] = [b \in Blocks(r) |->
             IF r \in saved /\ b \in saveOf(r).blocks
             THEN Filled(b, step.upto[r]) ELSE staged[r][b]]
    BY <1>5 DEF SaveKvToHost
  <2>6. ASSUME NEW r \in Reqs PROVE staged'[r] \in [Blocks(r) -> Nat]
    <3>1. \A b \in Blocks(r) : Filled(b, step.upto[r]) \in Nat
      <4>1. step.upto[r] \in Nat /\ Blocks(r) \subseteq Nat
        BY <2>2 DEF StepType, Blocks
      <4> QED
        BY <4>1, FilledType
    <3>2. \A b \in Blocks(r) : staged[r][b] \in Nat
      BY DEF HostType
    <3> HIDE DEF step, saveOf, saved
    <3> QED
      BY <2>5, <3>1, <3>2
  <2>7. announced' \in [Reqs -> Seq(SaveType)]
    <3> SUFFICES ASSUME NEW r \in Reqs
                 PROVE  (IF r \in saved THEN Append(announced[r], saveOf(r))
                         ELSE announced[r]) \in Seq(SaveType)
      BY <1>5 DEF SaveKvToHost
    <3>1. announced[r] \in Seq(SaveType)
      BY DEF HostType
    <3> HIDE DEF saveOf, saved
    <3> QED
      BY <2>4, <3>1, AppendProperties
  <2>8. executed' \in 0..Len(inflight')
    BY <1>5, <2>1 DEF SaveKvToHost, HostType
  <2> QED
    BY <1>5, <2>5, <2>6, <2>7, <2>8 DEF SaveKvToHost, HostType
<1>6. CASE UNCHANGED vars
  BY <1>6 DEF vars, HostType
<1> QED
  BY <1>1, <1>2, <1>3, <1>4, <1>5, <1>6 DEF Next

\* The types of the state: what steps in flight and announcements carry, that
\* the worker never executes more steps than were scheduled, and that exactly
\* the blocks of a prompt have a place in the host buffer.
THEOREM TypeCorrect == Spec => []HostType
<1>1. Init => HostType
  BY InitType
<1>2. HostType /\ [Next]_vars => HostType'
  BY NextType
<1> QED
  BY <1>1, <1>2, PTL DEF Spec

-----------------------------------------------------------------------------
(* Schedule *)

\* The last step after a schedule().
Added == inflight'[Len(inflight')]
AddedFor(r) == {s \in Added.saves : s.req = r}

\* What a schedule() does for a request without tokens in it,
StaysPut(r) ==
  /\ status'[r] = status[r] /\ run'[r] = run[r] /\ computed'[r] = computed[r]
  /\ r \in reqs_need_save' <=> r \in reqs_need_save
  /\ save_chunk_counter'[r] = save_chunk_counter[r]
  /\ AddedFor(r) = {}

\* and for a request that stood at the end of a block and gets tokens.
Advances(r) ==
  /\ status[r] \in {"waiting", "running"} /\ status'[r] = "running"
  /\ run'[r] = IF status[r] = "waiting" THEN run[r] + 1 ELSE run[r]
  /\ computed[r] < computed'[r] /\ computed'[r] <= Prompt[r]
  /\ NumBlocks(computed[r]) < NumBlocks(computed'[r])
  /\ \E s \in SaveType :
       /\ AddedFor(r) = {s}
       /\ s.blocks = (NumBlocks(computed[r]) + 1)..NumBlocks(computed'[r])
       /\ s.idx = save_chunk_counter[r]
       /\ s.is_last <=> computed'[r] = Prompt[r]
  /\ IF computed'[r] = Prompt[r]
     THEN r \notin reqs_need_save' /\ save_chunk_counter'[r] = 0
     ELSE r \in reqs_need_save' /\ save_chunk_counter'[r] = save_chunk_counter[r] + 1

LEMMA ScheduleSteps ==
  ASSUME HostType, NEW n \in [Reqs -> 0..Budget], Schedule(n)
  PROVE  /\ Len(inflight) \in Nat /\ Len(inflight') = Len(inflight) + 1
         /\ \A i \in Steps : inflight'[i] = inflight[i]
         /\ Added.upto = computed' /\ Added.run = run'
         /\ Added.saves = Saves(n, reqs_need_save \union
                            {r \in Reqs : status[r] = "waiting" /\ n[r] > 0})
<1> DEFINE e == [saves |-> Saves(n, reqs_need_save \union
                             {r \in Reqs : status[r] = "waiting" /\ n[r] > 0}),
                 upto |-> computed', run |-> run']
<1>1. e \in StepType /\ inflight' = Append(inflight, e)
  BY ScheduledStep
<1>2. inflight \in Seq(StepType)
  BY DEF HostType
<1>3. /\ Len(inflight) \in Nat /\ Len(inflight') = Len(inflight) + 1
      /\ \A i \in 1..Len(inflight) : inflight'[i] = inflight[i]
      /\ inflight'[Len(inflight) + 1] = e
  <2> HIDE DEF e
  <2> QED
    BY <1>1, <1>2, AppendProperties
<1> QED
  BY <1>3 DEF Added, Steps

LEMMA ScheduleFor ==
  ASSUME HostType, NEW n \in [Reqs -> 0..Budget], Schedule(n),
         NEW r \in Reqs, NeedInv(r),
         computed[r] % BlockSize = 0 \/ computed[r] = Prompt[r]
  PROVE  StaysPut(r) \/ Advances(r)
<1> DEFINE started == {q \in Reqs : status[q] = "waiting" /\ n[q] > 0}
           need == reqs_need_save \union started
           saves == Saves(n, need)
<1>1. /\ computed[r] \in Nat /\ n[r] \in Nat /\ Prompt[r] \in Nat
      /\ save_chunk_counter[r] \in Nat /\ run[r] \in Nat
  BY HostSaveAssumption DEF HostType
<1>2. /\ n[r] <= Prompt[r] - computed[r]
      /\ n[r] > 0 => status[r] \in {"waiting", "running"}
  BY DEF Schedule, Shares, Remaining
<1>3. /\ status'[r] = IF r \in started THEN "running" ELSE status[r]
      /\ run'[r] = IF r \in started THEN run[r] + 1 ELSE run[r]
      /\ computed'[r] = computed[r] + n[r]
      /\ reqs_need_save' = need \ DoneSaving(saves)
      /\ save_chunk_counter'[r] =
           IF r \in DoneSaving(saves) THEN 0
           ELSE IF \E s \in saves : s.req = r THEN save_chunk_counter[r] + 1
           ELSE save_chunk_counter[r]
  BY DEF Schedule
<1>4. AddedFor(r) = {s \in saves : s.req = r}
  BY ScheduleSteps DEF AddedFor
<1>5. CASE n[r] = 0
  <2>1. r \notin started /\ \A s \in saves : s.req # r
    BY <1>5 DEF Saves
  <2>2. r \notin DoneSaving(saves) /\ {s \in saves : s.req = r} = {}
    BY <2>1 DEF DoneSaving
  <2> HIDE DEF saves
  <2>3. StaysPut(r)
    BY <1>1, <1>3, <1>4, <1>5, <2>1, <2>2 DEF StaysPut
  <2> QED
    BY <2>3
<1>6. CASE n[r] > 0
  <2> DEFINE c == computed[r] + n[r]
             new == [req |-> r, blocks |-> NewBlocks(r, n[r]),
                     idx |-> save_chunk_counter[r], is_last |-> ~IsPartial(r, n[r])]
  <2>1. computed[r] < c /\ c <= Prompt[r] /\ computed[r] % BlockSize = 0
    BY <1>1, <1>2, <1>6
  <2>2. /\ NumBlocks(computed[r]) < NumBlocks(c)
        /\ NumBlocks(computed[r]) \in Nat /\ NumBlocks(c) \in Nat
    BY <1>1, <2>1, NumBlocksGrows, NumBlocksBounds
  <2>3. r \in need
    BY <1>1, <1>2, <1>6, <2>1 DEF NeedInv
  <2>4. NewBlocks(r, n[r]) = (NumBlocks(computed[r]) + 1)..NumBlocks(c)
    BY DEF NewBlocks
  <2>5. NumBlocks(c) \in NewBlocks(r, n[r])
    BY <2>2, <2>4
  <2>6. {s \in saves : s.req = r} = {new}
    BY <1>6, <2>3, <2>5 DEF Saves
  <2>7. ~IsPartial(r, n[r]) <=> c = Prompt[r]
    BY <1>1, <2>1 DEF IsPartial
  <2>8. r \in DoneSaving(saves) <=> new.is_last
    BY <2>6 DEF DoneSaving
  <2>9. new \in SaveType
    <3>1. saves \subseteq SaveType
      BY ScheduledStep
    <3> QED
      BY <2>6, <3>1
  <2>10. \E s \in saves : s.req = r
    BY <2>6
  <2>11. /\ AddedFor(r) = {new} /\ new.idx = save_chunk_counter[r]
         /\ new.blocks = (NumBlocks(computed[r]) + 1)..NumBlocks(computed'[r])
         /\ new.is_last <=> computed'[r] = Prompt[r]
    BY <1>3, <1>4, <2>4, <2>6, <2>7
  <2> HIDE DEF saves, new
  <2>12. IF computed'[r] = Prompt[r]
         THEN r \notin reqs_need_save' /\ save_chunk_counter'[r] = 0
         ELSE r \in reqs_need_save' /\ save_chunk_counter'[r] = save_chunk_counter[r] + 1
    BY <1>3, <2>3, <2>8, <2>10, <2>11
  <2>13. /\ status[r] \in {"waiting", "running"} /\ status'[r] = "running"
         /\ run'[r] = IF status[r] = "waiting" THEN run[r] + 1 ELSE run[r]
         /\ computed[r] < computed'[r] /\ computed'[r] <= Prompt[r]
         /\ NumBlocks(computed[r]) < NumBlocks(computed'[r])
    BY <1>2, <1>3, <1>6, <2>1, <2>2
  <2>14. Advances(r)
    BY <2>9, <2>11, <2>12, <2>13 DEF Advances
  <2> QED
    BY <2>14
<1> QED
  BY <1>1, <1>5, <1>6

\* The steps that were in flight stay r's, and the new one is r's too.
LEMMA ScheduleOwns ==
  ASSUME HostType, NEW n \in [Reqs -> 0..Budget], Schedule(n),
         NEW r \in Reqs, StepsInv(r), StaysPut(r) \/ Advances(r)
  PROVE  \E m \in Nat :
           /\ Steps = 1..m /\ Steps' = 1..(m + 1) /\ m >= executed
           /\ \A i \in Steps :
                /\ inflight'[i] = inflight[i] /\ ChunksOf(r, i)' = ChunksOf(r, i)
                /\ inflight'[i].run[r] <= run'[r]
                /\ Live(r)' /\ Own(r, i)' => Live(r) /\ Own(r, i)
                /\ Live(r) => (Own(r, i)' <=> Own(r, i))
           /\ inflight'[m + 1].upto[r] = computed'[r]
           /\ inflight'[m + 1].run[r] = run'[r]
           /\ {s \in inflight'[m + 1].saves : s.req = r} = AddedFor(r)
           /\ executed' = executed /\ staged' = staged /\ announced' = announced
<1> DEFINE m == Len(inflight)
<1>1. /\ m \in Nat /\ Steps = 1..m /\ Steps' = 1..(m + 1) /\ m >= executed
      /\ \A i \in Steps : inflight'[i] = inflight[i]
      /\ inflight'[m + 1] = Added /\ Added.upto = computed' /\ Added.run = run'
  <2>1. /\ m \in Nat /\ Len(inflight') = m + 1
        /\ \A i \in Steps : inflight'[i] = inflight[i]
        /\ Added.upto = computed' /\ Added.run = run'
    BY ScheduleSteps
  <2>2. m >= executed
    BY DEF HostType
  <2>3. Steps = 1..m /\ Steps' = 1..(m + 1) /\ inflight'[m + 1] = Added
    BY <2>1 DEF Steps, Added
  <2> QED
    BY <2>1, <2>2, <2>3
<1>2. executed' = executed /\ staged' = staged /\ announced' = announced
  BY DEF Schedule
<1>3. ASSUME NEW i \in Steps
      PROVE  /\ inflight'[i] = inflight[i] /\ ChunksOf(r, i)' = ChunksOf(r, i)
             /\ inflight'[i].run[r] <= run'[r]
             /\ Live(r)' /\ Own(r, i)' => Live(r) /\ Own(r, i)
             /\ Live(r) => (Own(r, i)' <=> Own(r, i))
  <2>1. inflight'[i] = inflight[i]
    BY <1>1, <1>3
  <2>2. inflight[i].run[r] \in Nat /\ run[r] \in Nat
    BY StepTyped DEF HostType
  <2>3. inflight[i].run[r] <= run[r]
    BY DEF StepsInv
  <2>4. \/ run'[r] = run[r] /\ (Live(r)' <=> Live(r))
        \/ run'[r] = run[r] + 1 /\ status[r] = "waiting"
        \/ run'[r] = run[r] /\ Live(r)
    BY DEF StaysPut, Advances, Live
  <2>5. CASE run'[r] = run[r]
    BY <2>1, <2>2, <2>3, <2>4, <2>5 DEF Own, ChunksOf, Live
  <2>6. CASE run'[r] = run[r] + 1 /\ status[r] = "waiting"
    BY <2>1, <2>2, <2>3, <2>6 DEF Own, ChunksOf, Live
  <2> QED
    BY <2>4, <2>5, <2>6
<1> QED
  BY <1>1, <1>2, <1>3 DEF AddedFor

LEMMA ScheduleStepsInv ==
  ASSUME HostType, HostType', NEW n \in [Reqs -> 0..Budget], Schedule(n),
         NEW r \in Reqs, StepsInv(r), StaysPut(r) \/ Advances(r),
         (computed[r] % BlockSize = 0 \/ computed[r] = Prompt[r])'
  PROVE  StepsInv(r)'
<1>1. PICK m \in Nat :
           /\ Steps = 1..m /\ Steps' = 1..(m + 1) /\ m >= executed
           /\ \A i \in Steps :
                /\ inflight'[i] = inflight[i] /\ ChunksOf(r, i)' = ChunksOf(r, i)
                /\ inflight'[i].run[r] <= run'[r]
                /\ Live(r)' /\ Own(r, i)' => Live(r) /\ Own(r, i)
                /\ Live(r) => (Own(r, i)' <=> Own(r, i))
           /\ inflight'[m + 1].upto[r] = computed'[r]
           /\ inflight'[m + 1].run[r] = run'[r]
           /\ {s \in inflight'[m + 1].saves : s.req = r} = AddedFor(r)
           /\ executed' = executed /\ staged' = staged /\ announced' = announced
  BY ScheduleOwns
<1>2. /\ run'[r] \in Nat /\ computed'[r] \in Nat /\ computed[r] \in Nat
      /\ Prompt[r] \in Nat /\ executed \in Nat
      /\ NumBlocks(computed[r]) \in Nat /\ NumBlocks(computed'[r]) \in Nat
  <2>1. /\ run'[r] \in Nat /\ computed'[r] \in Nat /\ computed[r] \in Nat
        /\ Prompt[r] \in Nat /\ executed \in Nat
    BY HostSaveAssumption DEF HostType
  <2> QED
    BY <2>1, NumBlocksBounds
<1>3. \A i \in Steps' : i \in Steps \/ i = m + 1
  BY <1>1
<1>4. /\ computed[r] <= computed'[r] /\ computed'[r] <= Prompt[r]
      /\ status'[r] = "waiting" => StaysPut(r) /\ status[r] = "waiting"
  BY <1>2 DEF StaysPut, Advances, StepsInv
<1>5. status'[r] = "waiting" => computed'[r] = 0 /\ announced'[r] = <<>>
  BY <1>1, <1>4 DEF StaysPut, StepsInv
<1>6. ASSUME NEW i \in Steps'
      PROVE  /\ inflight'[i].run[r] <= run'[r]
             /\ \A s, t \in ChunksOf(r, i)' : s = t
  <2>1. CASE i \in Steps
    BY <1>1, <2>1 DEF StepsInv
  <2>2. CASE i = m + 1
    <3>1. ChunksOf(r, i)' = AddedFor(r)
      BY <1>1, <2>2 DEF ChunksOf
    <3>2. \A s, t \in AddedFor(r) : s = t
      BY DEF StaysPut, Advances
    <3> QED
      BY <1>1, <1>2, <2>2, <3>1, <3>2
  <2> QED
    BY <1>3, <2>1, <2>2
<1>7. ASSUME Live(r)', NEW i \in Steps', Own(r, i)'
      PROVE  /\ inflight'[i].upto[r] <= computed'[r]
             /\ \/ inflight'[i].upto[r] % BlockSize = 0
                \/ inflight'[i].upto[r] = Prompt[r]
             /\ \A s \in ChunksOf(r, i)' :
                  /\ s.blocks # {}
                  /\ s.blocks \subseteq 1..NumBlocks(inflight'[i].upto[r])
             /\ \A j \in Steps' : i < j /\ Own(r, j)' =>
                  \A s \in ChunksOf(r, j)' : \A b \in s.blocks :
                     b > NumBlocks(inflight'[i].upto[r])
  <2>1. CASE i \in Steps
    <3>1. Live(r) /\ Own(r, i) /\ inflight'[i] = inflight[i]
      BY <1>1, <1>7, <2>1
    <3>2. inflight[i].upto[r] \in Nat
      BY <2>1, StepTyped
    <3>3. /\ inflight[i].upto[r] <= computed[r]
          /\ inflight[i].upto[r] % BlockSize = 0 \/ inflight[i].upto[r] = Prompt[r]
          /\ \A s \in ChunksOf(r, i) :
               s.blocks # {} /\ s.blocks \subseteq 1..NumBlocks(inflight[i].upto[r])
      BY <2>1, <3>1 DEF StepsInv
    <3>4. ASSUME NEW j \in Steps', i < j, Own(r, j)', NEW s \in ChunksOf(r, j)',
                 NEW b \in s.blocks
          PROVE  b > NumBlocks(inflight[i].upto[r])
      <4>1. CASE j \in Steps
        <5>1. Own(r, j) /\ s \in ChunksOf(r, j)
          BY <1>1, <1>7, <3>4, <4>1
        <5> QED
          BY <2>1, <3>1, <3>4, <4>1, <5>1 DEF StepsInv
      <4>2. CASE j = m + 1
        <5>1. s \in AddedFor(r)
          BY <1>1, <3>4, <4>2 DEF ChunksOf
        <5>2. Advances(r) /\ s.blocks = (NumBlocks(computed[r]) + 1)..NumBlocks(computed'[r])
          BY <5>1 DEF StaysPut, Advances
        <5>3. b > NumBlocks(computed[r])
          BY <1>2, <5>2
        <5>4. /\ NumBlocks(inflight[i].upto[r]) <= NumBlocks(computed[r])
              /\ NumBlocks(inflight[i].upto[r]) \in Nat
          BY <1>2, <3>2, <3>3, NumBlocksMonotone, NumBlocksBounds
        <5>5. b \in Int
          BY <5>2
        <5> QED
          BY <1>2, <5>3, <5>4, <5>5
      <4> QED
        BY <1>3, <4>1, <4>2
    <3>5. inflight[i].upto[r] <= computed'[r]
      BY <1>2, <1>4, <3>2, <3>3
    <3> QED
      BY <1>1, <2>1, <3>1, <3>3, <3>4, <3>5
  <2>2. CASE i = m + 1
    <3>1. ChunksOf(r, i)' = AddedFor(r) /\ inflight'[i].upto[r] = computed'[r]
      BY <1>1, <2>2 DEF ChunksOf
    <3>2. ASSUME NEW s \in AddedFor(r)
          PROVE  s.blocks # {} /\ s.blocks \subseteq 1..NumBlocks(computed'[r])
      <4>1. /\ s.blocks = (NumBlocks(computed[r]) + 1)..NumBlocks(computed'[r])
            /\ NumBlocks(computed[r]) < NumBlocks(computed'[r])
        BY <3>2 DEF StaysPut, Advances
      <4>2. NumBlocks(computed'[r]) \in s.blocks
        BY <1>2, <4>1
      <4> QED
        BY <1>2, <4>1, <4>2
    <3>3. \A j \in Steps' : ~(i < j)
      BY <1>1, <2>2
    <3> QED
      BY <1>2, <3>1, <3>2, <3>3
  <2> QED
    BY <1>3, <2>1, <2>2
<1> QED
  BY <1>4, <1>5, <1>6, <1>7 DEF StepsInv

LEMMA ScheduleNeedInv ==
  ASSUME HostType, HostType', NEW r \in Reqs, NeedInv(r), StaysPut(r) \/ Advances(r)
  PROVE  NeedInv(r)'
<1>1. CASE StaysPut(r)
  BY <1>1 DEF NeedInv, StaysPut, Live
<1>2. CASE Advances(r)
  <2>1. computed'[r] \in Nat /\ Prompt[r] \in Nat
    BY HostSaveAssumption DEF HostType
  <2>2. computed'[r] < Prompt[r] => computed'[r] # Prompt[r]
    BY <2>1
  <2> QED
    BY <1>2, <2>2 DEF NeedInv, Advances
<1> QED
  BY <1>1, <1>2

\* A chunk of a live request is an earlier one than a chunk that is added.
LEMMA AddedIsNext ==
  ASSUME HostType, HostType', NEW r \in Reqs, StaysPut(r) \/ Advances(r),
         NEW s \in SaveType, Within(r, s)
  PROVE  Within(r, s)' /\ \A t \in AddedFor(r) : Earlier(s, t)
<1>1. /\ computed[r] \in Nat /\ computed'[r] \in Nat /\ Prompt[r] \in Nat
      /\ save_chunk_counter[r] \in Nat /\ s.idx \in Nat
  BY HostSaveAssumption DEF HostType, SaveType
<1>2. NumBlocks(computed[r]) \in Nat /\ NumBlocks(computed'[r]) \in Nat
  BY <1>1, NumBlocksBounds
<1>3. CASE StaysPut(r)
  BY <1>3 DEF StaysPut, Within
<1>4. CASE Advances(r)
  <2>1. /\ s.blocks \subseteq 1..NumBlocks(computed[r])
        /\ s.idx < save_chunk_counter[r] /\ ~s.is_last
    BY <1>1, <1>4 DEF Advances, Within
  <2>2. s.blocks \subseteq 1..NumBlocks(computed'[r])
    BY <1>2, <1>4, <2>1 DEF Advances
  <2>3. computed'[r] < Prompt[r] => s.idx < save_chunk_counter'[r]
    BY <1>1, <1>4, <2>1 DEF Advances
  <2>4. ASSUME NEW t \in AddedFor(r) PROVE Earlier(s, t)
    <3>1. /\ t.blocks = (NumBlocks(computed[r]) + 1)..NumBlocks(computed'[r])
          /\ t.idx = save_chunk_counter[r]
      BY <1>4, <2>4 DEF Advances
    <3>2. \A b \in s.blocks, c \in t.blocks : b < c
      BY <1>2, <2>1, <3>1
    <3> QED
      BY <2>1, <3>1, <3>2 DEF Earlier
  <2> QED
    BY <2>1, <2>2, <2>3, <2>4 DEF Within
<1> QED
  BY <1>3, <1>4

LEMMA ScheduleChunksInv ==
  ASSUME HostType, HostType', NEW n \in [Reqs -> 0..Budget], Schedule(n),
         NEW r \in Reqs, ReqInv(r), StaysPut(r) \/ Advances(r), Live(r)'
  PROVE  ChunksInv(r)'
<1>1. PICK m \in Nat :
           /\ Steps = 1..m /\ Steps' = 1..(m + 1) /\ m >= executed
           /\ \A i \in Steps :
                /\ inflight'[i] = inflight[i] /\ ChunksOf(r, i)' = ChunksOf(r, i)
                /\ inflight'[i].run[r] <= run'[r]
                /\ Live(r)' /\ Own(r, i)' => Live(r) /\ Own(r, i)
                /\ Live(r) => (Own(r, i)' <=> Own(r, i))
           /\ inflight'[m + 1].upto[r] = computed'[r]
           /\ inflight'[m + 1].run[r] = run'[r]
           /\ {s \in inflight'[m + 1].saves : s.req = r} = AddedFor(r)
           /\ executed' = executed /\ staged' = staged /\ announced' = announced
  BY ScheduleOwns DEF ReqInv
<1>2. /\ computed[r] \in Nat /\ computed'[r] \in Nat /\ Prompt[r] \in Nat
      /\ executed \in Nat /\ announced[r] \in Seq(SaveType)
  BY HostSaveAssumption DEF HostType
<1>3. NumBlocks(computed[r]) \in Nat /\ NumBlocks(computed'[r]) \in Nat
  BY <1>2, NumBlocksBounds
<1>4. Told(r)' = Told(r) /\ \A k \in Told(r) : announced[r][k] \in SaveType
  BY <1>1, <1>2 DEF Told
<1>5. \A i \in Steps' : i \in Steps \/ i = m + 1
  BY <1>1
<1>6. ASSUME NEW i \in Steps
      PROVE  /\ Pending(r, i)' = IF Live(r) THEN Pending(r, i) ELSE {}
             /\ Pending(r, i) \subseteq SaveType
  <2>1. Pending(r, i) \subseteq SaveType
    BY StepTyped DEF Pending, ChunksOf, StepType
  <2>2. Pending(r, i)' = IF Live(r) THEN Pending(r, i) ELSE {}
    BY <1>1 DEF Pending
  <2> QED
    BY <2>1, <2>2
<1>7. Pending(r, m + 1)' = AddedFor(r)
  <2>1. m + 1 > executed' /\ Own(r, m + 1)'
    BY <1>1, <1>2 DEF Own
  <2>2. ChunksOf(r, m + 1)' = AddedFor(r)
    BY <1>1 DEF ChunksOf
  <2>3. Pending(r, m + 1)' =
          {s \in ChunksOf(r, m + 1)' : Own(r, m + 1)' /\ m + 1 > executed'}
    BY DEF Pending
  <2> QED
    BY <2>1, <2>2, <2>3
<1>8. CASE ~Live(r)
  <2>1. Advances(r) /\ status[r] = "waiting"
    BY <1>8 DEF StaysPut, Advances, Live
  <2>2. computed[r] = 0 /\ announced[r] = <<>>
    BY <2>1 DEF ReqInv, StepsInv
  <2>3. Told(r)' = {}
    BY <1>4, <2>2 DEF Told
  <2>4. \A i \in Steps : Pending(r, i)' = {}
    BY <1>6, <1>8
  <2>5. NumBlocks(computed[r]) = 0
    <3>1. BlockSize \in Nat \ {0} /\ BlockSize * NumBlocks(0) < BlockSize
      BY HostSaveAssumption, NumBlocksBounds
    <3>2. BlockSize * NumBlocks(0) < BlockSize * 1
      BY <3>1
    <3>3. NumBlocks(0) < 1
      BY <1>3, <2>2, <3>1, <3>2, Cancel
    <3> QED
      BY <1>3, <2>2, <3>3
  <2>6. PICK t \in SaveType :
          /\ AddedFor(r) = {t}
          /\ t.blocks = 1..NumBlocks(computed'[r])
          /\ t.idx = save_chunk_counter[r]
          /\ t.is_last <=> computed'[r] = Prompt[r]
    BY <2>1, <2>5 DEF Advances
  <2>7. \A i \in Steps' : \A s \in Pending(r, i)' : i = m + 1 /\ s = t
    BY <1>5, <1>7, <2>4, <2>6
  <2>8. m + 1 \in Steps' /\ t \in Pending(r, m + 1)'
    BY <1>1, <1>7, <2>6
  <2>9. Within(r, t)'
    <3>1. /\ computed'[r] < Prompt[r] =>
              save_chunk_counter'[r] = save_chunk_counter[r] + 1
          /\ save_chunk_counter[r] \in Nat
      BY <1>2, <2>1 DEF Advances, HostType
    <3> QED
      BY <1>2, <2>6, <3>1 DEF Within
  <2>10. status'[r] = "running"
    BY <2>1 DEF Advances
  <2>11. /\ \A b \in 1..NumBlocks(computed'[r]) : Covered(r, b)'
         /\ computed'[r] = Prompt[r] => Ended(r)'
    BY <2>6, <2>8 DEF Covered, Ended
  <2>12. \A i \in Steps' : \A s \in Pending(r, i)' : Within(r, s)'
    BY <2>7, <2>9
  <2>13. \A i, j \in Steps' : i < j =>
           \A s \in Pending(r, i)', u \in Pending(r, j)' : Earlier(s, u)
    BY <1>1, <2>7
  <2> QED
    BY <2>3, <2>10, <2>11, <2>12, <2>13 DEF ChunksInv
<1>9. CASE Live(r)
  <2>1. ChunksInv(r) /\ StepsInv(r)
    BY <1>9 DEF ReqInv
  <2>2. \A i \in Steps : Pending(r, i)' = Pending(r, i)
    BY <1>6, <1>9
  <2>3. status'[r] = "held" => AddedFor(r) = {} /\ status[r] = "held"
    BY DEF StaysPut, Advances
  <2>4. status'[r] = "held" => \A i \in Steps' : Pending(r, i)' = {}
    BY <1>5, <1>7, <2>1, <2>2, <2>3 DEF ChunksInv
  <2>5. ASSUME NEW k \in Told(r)'
        PROVE  /\ Within(r, announced[r][k])'
               /\ \A b \in announced'[r][k].blocks : staged'[r][b] = Filled(b, Prompt[r])
               /\ \A t \in AddedFor(r) : Earlier(announced[r][k], t)
    <3>1. k \in Told(r) /\ announced'[r][k] = announced[r][k]
      BY <1>1, <1>4
    <3>2. /\ Within(r, announced[r][k])
          /\ \A b \in announced[r][k].blocks : staged[r][b] = Filled(b, Prompt[r])
      BY <2>1, <3>1 DEF ChunksInv
    <3>3. PICK s \in SaveType : s = announced[r][k]
      BY <1>4, <3>1
    <3>4. Within(r, s)' /\ \A t \in AddedFor(r) : Earlier(s, t)
      BY <3>2, <3>3, AddedIsNext
    <3>5. Within(r, announced[r][k])'
      BY <3>1, <3>3, <3>4 DEF Within
    <3> QED
      BY <1>1, <3>1, <3>2, <3>3, <3>4, <3>5
  <2>6. ASSUME NEW i \in Steps, NEW s \in Pending(r, i)
        PROVE  Within(r, s)' /\ \A t \in AddedFor(r) : Earlier(s, t)
    BY <1>6, <2>1, AddedIsNext DEF ChunksInv
  <2>7. ASSUME NEW s \in AddedFor(r) PROVE Within(r, s)'
    <3>1. /\ s.blocks = (NumBlocks(computed[r]) + 1)..NumBlocks(computed'[r])
          /\ s.idx = save_chunk_counter[r] /\ save_chunk_counter[r] \in Nat
          /\ s.is_last <=> computed'[r] = Prompt[r]
          /\ computed'[r] < Prompt[r] =>
               save_chunk_counter'[r] = save_chunk_counter[r] + 1
      BY <1>2, <2>7 DEF StaysPut, Advances, HostType
    <3>2. s.blocks \subseteq 1..NumBlocks(computed'[r])
      BY <1>3, <3>1
    <3> QED
      BY <1>2, <3>1, <3>2 DEF Within
  <2>8. \A i \in Steps' : \A s \in Pending(r, i)' : Within(r, s)'
    BY <1>5, <1>7, <2>2, <2>6, <2>7
  <2>9. \A k, l \in Told(r)' : k < l => Earlier(announced'[r][k], announced'[r][l])
    BY <1>1, <1>4, <2>1 DEF ChunksInv
  <2>10. \A k \in Told(r)', i \in Steps' : \A s \in Pending(r, i)' :
            Earlier(announced'[r][k], s)
    BY <1>1, <1>4, <1>5, <1>7, <2>1, <2>2, <2>5 DEF ChunksInv
  <2>11. ASSUME NEW i \in Steps', NEW j \in Steps', i < j,
                NEW s \in Pending(r, i)', NEW t \in Pending(r, j)'
         PROVE  Earlier(s, t)
    <3>1. i \in Steps
      BY <1>1, <2>11
    <3>2. s \in Pending(r, i)
      BY <2>2, <3>1
    <3>3. CASE j \in Steps
      BY <2>1, <2>2, <2>11, <3>1, <3>2, <3>3 DEF ChunksInv
    <3>4. CASE j = m + 1
      BY <1>7, <2>6, <3>1, <3>2, <3>4
    <3> QED
      BY <1>5, <3>3, <3>4
  <2>12. ASSUME NEW b \in 1..NumBlocks(computed[r]) PROVE Covered(r, b)'
    <3>1. Covered(r, b)
      BY <2>1 DEF ChunksInv
    <3>2. Steps \subseteq Steps'
      BY <1>1
    <3> QED
      BY <1>1, <1>4, <2>2, <3>1, <3>2 DEF Covered
  <2>13. CASE StaysPut(r)
    <3>1. Ended(r) => Ended(r)'
      BY <1>1, <1>4, <2>2 DEF Ended
    <3>2. computed'[r] = computed[r]
      BY <2>13 DEF StaysPut
    <3>3. \A b \in 1..NumBlocks(computed'[r]) : Covered(r, b)'
      BY <2>12, <3>2
    <3>4. computed'[r] = Prompt[r] => Ended(r)'
      BY <2>1, <3>1, <3>2 DEF ChunksInv
    <3> QED
      BY <2>4, <2>5, <2>8, <2>9, <2>10, <2>11, <3>3, <3>4 DEF ChunksInv
  <2>14. CASE Advances(r)
    <3>1. PICK t \in SaveType :
            /\ AddedFor(r) = {t}
            /\ t.blocks = (NumBlocks(computed[r]) + 1)..NumBlocks(computed'[r])
            /\ t.is_last <=> computed'[r] = Prompt[r]
      BY <2>14 DEF Advances
    <3>2. m + 1 \in Steps' /\ t \in Pending(r, m + 1)'
      BY <1>1, <1>7, <3>1
    <3>3. ASSUME NEW b \in 1..NumBlocks(computed'[r]) PROVE Covered(r, b)'
      <4>1. b \in 1..NumBlocks(computed[r]) \/ b \in t.blocks
        BY <1>3, <3>1
      <4>2. CASE b \in t.blocks
        BY <3>2, <4>2 DEF Covered
      <4> QED
        BY <2>12, <4>1, <4>2
    <3>4. computed'[r] = Prompt[r] => Ended(r)'
      BY <3>1, <3>2 DEF Ended
    <3> QED
      BY <2>4, <2>5, <2>8, <2>9, <2>10, <2>11, <3>3, <3>4 DEF ChunksInv
  <2> QED
    BY <2>13, <2>14
<1> QED
  BY <1>8, <1>9

-----------------------------------------------------------------------------
(* Preempt, Abort *)

\* A step that leaves a request, and the steps in flight, as they are.
LEMMA Undisturbed ==
  ASSUME NEW r \in Reqs, ReqInv(r), inflight' = inflight, executed' = executed,
         status'[r] = status[r], run'[r] = run[r], computed'[r] = computed[r],
         r \in reqs_need_save' <=> r \in reqs_need_save,
         save_chunk_counter'[r] = save_chunk_counter[r],
         staged'[r] = staged[r], announced'[r] = announced[r]
  PROVE  ReqInv(r)'
<1>1. StepsInv(r)'
  BY DEF ReqInv, StepsInv, Live, Steps, Own, ChunksOf
<1>2. NeedInv(r)'
  BY DEF ReqInv, NeedInv, Live
<1>3. Live(r)' => ChunksInv(r) /\ Live(r)
  BY DEF ReqInv, Live
<1>4. /\ Steps' = Steps /\ Told(r)' = Told(r)
      /\ \A i \in Steps : Pending(r, i)' = Pending(r, i)
  BY DEF Steps, Told, Pending, ChunksOf, Own
<1>5. Live(r)' => ChunksInv(r)'
  BY <1>3, <1>4 DEF ChunksInv, Within, Covered, Ended
<1> QED
  BY <1>1, <1>2, <1>5 DEF ReqInv

LEMMA PreemptInv ==
  ASSUME HostInv, NEW q \in Reqs, Preempt(q), NEW r \in Reqs
  PROVE  ReqInv(r)'
<1>1. CASE r = q
  <2>1. /\ status'[r] = "waiting" /\ computed'[r] = 0 /\ announced'[r] = <<>>
        /\ run' = run /\ inflight' = inflight
    BY <1>1 DEF Preempt, HostInv, HostType
  <2>2. ~Live(r)'
    BY <2>1 DEF Live
  <2>3. computed'[r] <= Prompt[r]
    BY <2>1, HostSaveAssumption
  <2>4. StepsInv(r)'
    BY <2>1, <2>2, <2>3 DEF HostInv, ReqInv, StepsInv, Steps, ChunksOf
  <2> QED
    BY <2>1, <2>2, <2>4 DEF ReqInv, NeedInv, Live
<1>2. CASE r # q
  BY <1>2, Undisturbed DEF Preempt, HostInv, HostType
<1> QED
  BY <1>1, <1>2

LEMMA AbortInv ==
  ASSUME HostInv, NEW q \in Reqs, Abort(q), NEW r \in Reqs
  PROVE  ReqInv(r)'
<1>1. CASE r = q
  <2>1. /\ status'[r] = "aborted" /\ computed' = computed
        /\ run' = run /\ inflight' = inflight
    BY <1>1 DEF Abort, HostInv, HostType
  <2>2. ~Live(r)'
    BY <2>1 DEF Live
  <2>3. StepsInv(r)'
    BY <2>1, <2>2 DEF HostInv, ReqInv, StepsInv, Steps, ChunksOf
  <2> QED
    BY <2>1, <2>2, <2>3 DEF ReqInv, NeedInv, Live
<1>2. CASE r # q
  BY <1>2, Undisturbed DEF Abort, HostInv, HostType
<1> QED
  BY <1>1, <1>2

-----------------------------------------------------------------------------
(* UpdateFromOutput *)

LEMMA OutputInv ==
  ASSUME HostInv, HostType', UpdateFromOutput, NEW r \in Reqs
  PROVE  ReqInv(r)'
<1> DEFINE becomes == status[r] = "running" /\ inflight[1].run[r] = run[r]
                      /\ inflight[1].upto[r] = Prompt[r]
<1>1. PICK m \in Nat : Steps = 1..(m + 1) /\ Steps' = 1..m
                       /\ \A i \in 1..m : inflight'[i] = inflight[i + 1]
  <2>1. /\ inflight \in Seq(StepType) /\ executed \in 0..Len(inflight) /\ executed > 0
        /\ inflight' = Tail(inflight)
    BY DEF HostInv, HostType, UpdateFromOutput
  <2>2. inflight # <<>> /\ Len(inflight) \in Nat /\ Len(inflight) > 0
    BY <2>1
  <2>3. /\ Len(inflight') = Len(inflight) - 1
        /\ \A i \in 1..Len(inflight') : inflight'[i] = inflight[i + 1]
    BY <2>1, <2>2, HeadTailProperties
  <2>4. Len(inflight) - 1 \in Nat /\ (Len(inflight) - 1) + 1 = Len(inflight)
    BY <2>2
  <2> QED
    BY <2>3, <2>4 DEF Steps
<1>2. /\ executed' = executed - 1 /\ executed \in Nat /\ executed > 0
      /\ run' = run /\ computed' = computed /\ reqs_need_save' = reqs_need_save
      /\ save_chunk_counter' = save_chunk_counter /\ staged' = staged
      /\ announced' = announced
  BY DEF HostInv, HostType, UpdateFromOutput
<1>3. status'[r] = IF becomes THEN "held" ELSE status[r]
  <2>1. Head(inflight) = inflight[1]
    BY DEF HostInv, HostType
  <2> QED
    BY <2>1 DEF UpdateFromOutput
<1>4. computed[r] \in Nat /\ Prompt[r] \in Nat
  BY HostSaveAssumption DEF HostInv, HostType
<1>5. 1 \in Steps /\ \A i \in Steps' : i \in Nat /\ i + 1 \in Steps
  BY <1>1
<1>6. StepsInv(r) /\ NeedInv(r) /\ (Live(r) => ChunksInv(r))
  BY DEF HostInv, ReqInv
<1>7. Live(r)' <=> Live(r)
  BY <1>3 DEF Live
<1>8. \A i \in Steps' : /\ ChunksOf(r, i)' = ChunksOf(r, i + 1)
                        /\ Own(r, i)' <=> Own(r, i + 1)
                        /\ inflight'[i] = inflight[i + 1]
  BY <1>1, <1>2 DEF ChunksOf, Own
<1>9. \A i \in Steps' : Pending(r, i)' = Pending(r, i + 1)
  <2>1. \A i \in Steps' : i > executed' <=> i + 1 > executed
    BY <1>2, <1>5
  <2> QED
    BY <1>8, <2>1 DEF Pending
<1>10. Pending(r, 1) = {}
  BY <1>2 DEF Pending
<1>11. StepsInv(r)'
  <2>1. /\ computed'[r] <= Prompt[r]
        /\ status'[r] = "waiting" => computed'[r] = 0 /\ announced'[r] = <<>>
    BY <1>2, <1>3, <1>6 DEF StepsInv
  <2>2. ASSUME NEW i \in Steps'
        PROVE  /\ inflight'[i].run[r] <= run'[r]
               /\ \A s, t \in ChunksOf(r, i)' : s = t
    BY <1>2, <1>5, <1>6, <1>8 DEF StepsInv
  <2>3. ASSUME Live(r)', NEW i \in Steps', Own(r, i)'
        PROVE  /\ inflight'[i].upto[r] <= computed'[r]
               /\ \/ inflight'[i].upto[r] % BlockSize = 0
                  \/ inflight'[i].upto[r] = Prompt[r]
               /\ \A s \in ChunksOf(r, i)' :
                    /\ s.blocks # {}
                    /\ s.blocks \subseteq 1..NumBlocks(inflight'[i].upto[r])
               /\ \A j \in Steps' : i < j /\ Own(r, j)' =>
                    \A s \in ChunksOf(r, j)' : \A b \in s.blocks :
                       b > NumBlocks(inflight'[i].upto[r])
    <3>1. Live(r) /\ i + 1 \in Steps /\ Own(r, i + 1)
      BY <1>5, <1>7, <1>8, <2>3
    <3>2. ASSUME NEW j \in Steps', i < j, Own(r, j)', NEW s \in ChunksOf(r, j)',
                 NEW b \in s.blocks
          PROVE  b > NumBlocks(inflight[i + 1].upto[r])
      <4>1. j + 1 \in Steps /\ Own(r, j + 1) /\ s \in ChunksOf(r, j + 1)
        BY <1>5, <1>8, <3>2
      <4>2. i + 1 < j + 1
        BY <1>5, <3>2
      <4> QED
        BY <1>6, <3>1, <4>1, <4>2 DEF StepsInv
    <3> QED
      BY <1>2, <1>6, <1>8, <3>1, <3>2 DEF StepsInv
  <2> QED
    BY <2>1, <2>2, <2>3 DEF StepsInv
\* Whoever becomes held has computed the whole prompt, and nothing of it is
\* still to be saved: a later step could only have saved blocks beyond it.
<1>12. ASSUME becomes
       PROVE  computed[r] = Prompt[r] /\ \A i \in Steps : Pending(r, i) = {}
  <2>1. Live(r) /\ Own(r, 1)
    BY <1>12 DEF Live, Own
  <2>2. inflight[1].upto[r] <= computed[r] /\ computed[r] <= Prompt[r]
    BY <1>5, <1>6, <2>1 DEF StepsInv
  <2>3. computed[r] = Prompt[r]
    BY <1>4, <1>12, <2>2
  <2>4. ASSUME NEW i \in Steps, NEW s \in Pending(r, i) PROVE FALSE
    <3>1. i # 1 /\ s \in ChunksOf(r, i) /\ Own(r, i)
      BY <1>10, <2>4 DEF Pending
    <3>2. 1 < i
      BY <1>1, <3>1
    <3>3. \A b \in s.blocks : b > NumBlocks(Prompt[r])
      BY <1>5, <1>6, <1>12, <2>1, <3>1, <3>2 DEF StepsInv
    <3>4. /\ s.blocks # {} /\ s.blocks \subseteq 1..NumBlocks(inflight[i].upto[r])
          /\ inflight[i].upto[r] <= computed[r]
      BY <1>6, <2>1, <3>1 DEF StepsInv
    <3>5. inflight[i].upto[r] \in Nat
      BY StepTyped DEF HostInv
    <3>6. /\ NumBlocks(inflight[i].upto[r]) <= NumBlocks(Prompt[r])
          /\ NumBlocks(inflight[i].upto[r]) \in Nat /\ NumBlocks(Prompt[r]) \in Nat
      BY <1>4, <2>3, <3>4, <3>5, NumBlocksMonotone, NumBlocksBounds
    <3>7. PICK b \in s.blocks : TRUE
      BY <3>4
    <3>8. /\ b > NumBlocks(Prompt[r]) /\ b \in Nat
          /\ b <= NumBlocks(inflight[i].upto[r])
      BY <3>3, <3>4, <3>6, <3>7
    <3> QED
      BY <3>6, <3>8
  <2> QED
    BY <2>3, <2>4
<1>13. NeedInv(r)'
  BY <1>2, <1>3, <1>6, <1>7, <1>12 DEF NeedInv, Live
<1>14. ASSUME Live(r)' PROVE ChunksInv(r)'
  <2>1. ChunksInv(r)
    BY <1>6, <1>7, <1>14
  <2>2. status'[r] = "held" => \A i \in Steps : Pending(r, i) = {}
    BY <1>3, <1>12, <2>1 DEF ChunksInv
  <2>3. Told(r)' = Told(r)
    BY <1>2 DEF Told
  <2>4. ASSUME NEW b, Covered(r, b) PROVE Covered(r, b)'
    <3>1. CASE \E k \in Told(r) : b \in announced[r][k].blocks
      BY <1>2, <2>3, <3>1 DEF Covered
    <3>2. CASE \E i \in Steps : \E s \in Pending(r, i) : b \in s.blocks
      <4>0. PICK i \in Steps : \E s \in Pending(r, i) : b \in s.blocks
        BY <3>2
      <4>1. PICK s \in Pending(r, i) : b \in s.blocks
        BY <4>0
      <4>2. PICK j \in Steps' : i = j + 1
        <5>1. i # 1 /\ i - 1 \in Steps' /\ i = (i - 1) + 1
          BY <1>1, <1>10, <4>1
        <5> QED
          BY <5>1
      <4>3. s \in Pending(r, j)'
        BY <1>9, <4>1, <4>2
      <4> QED
        BY <4>1, <4>2, <4>3 DEF Covered
    <3> QED
      BY <2>4, <3>1, <3>2 DEF Covered
  <2>5. ASSUME Ended(r) PROVE Ended(r)'
    <3>1. CASE \E k \in Told(r) : announced[r][k].is_last
      BY <1>2, <2>3, <3>1 DEF Ended
    <3>2. CASE \E i \in Steps : \E s \in Pending(r, i) : s.is_last
      <4>0. PICK i \in Steps : \E s \in Pending(r, i) : s.is_last
        BY <3>2
      <4>1. PICK s \in Pending(r, i) : s.is_last
        BY <4>0
      <4>2. PICK j \in Steps' : i = j + 1
        <5>1. i # 1 /\ i - 1 \in Steps' /\ i = (i - 1) + 1
          BY <1>1, <1>10, <4>1
        <5> QED
          BY <5>1
      <4>3. s \in Pending(r, j)'
        BY <1>9, <4>1, <4>2
      <4> QED
        BY <4>1, <4>2, <4>3 DEF Ended
    <3> QED
      BY <2>5, <3>1, <3>2 DEF Ended
  <2>6. /\ status'[r] = "held" => \A i \in Steps' : Pending(r, i)' = {}
        /\ \A k \in Told(r)' :
             /\ Within(r, announced[r][k])'
             /\ \A b \in announced'[r][k].blocks : staged'[r][b] = Filled(b, Prompt[r])
        /\ \A k, l \in Told(r)' : k < l => Earlier(announced'[r][k], announced'[r][l])
    BY <1>2, <1>5, <1>9, <2>1, <2>2, <2>3 DEF ChunksInv, Within
  <2>7. ASSUME NEW i \in Steps', NEW s \in Pending(r, i)'
        PROVE  Within(r, s)' /\ \A k \in Told(r)' : Earlier(announced'[r][k], s)
    <3>1. i + 1 \in Steps /\ s \in Pending(r, i + 1)
      BY <1>5, <1>9, <2>7
    <3>2. Within(r, s) /\ \A k \in Told(r) : Earlier(announced[r][k], s)
      BY <2>1, <3>1 DEF ChunksInv
    <3> QED
      BY <1>2, <2>3, <3>2 DEF Within
  <2>8. ASSUME NEW i \in Steps', NEW j \in Steps', i < j,
               NEW s \in Pending(r, i)', NEW t \in Pending(r, j)'
        PROVE  Earlier(s, t)
    <3>1. /\ i + 1 \in Steps /\ s \in Pending(r, i + 1)
          /\ j + 1 \in Steps /\ t \in Pending(r, j + 1) /\ i + 1 < j + 1
      BY <1>5, <1>9, <2>8
    <3> QED
      BY <2>1, <3>1 DEF ChunksInv
  <2>9. /\ \A b \in 1..NumBlocks(computed'[r]) : Covered(r, b)'
        /\ computed'[r] = Prompt[r] => Ended(r)'
    BY <1>2, <2>1, <2>4, <2>5 DEF ChunksInv
  <2> QED
    BY <2>6, <2>7, <2>8, <2>9 DEF ChunksInv
<1> QED
  BY <1>11, <1>13, <1>14 DEF ReqInv

-----------------------------------------------------------------------------
(* SaveKvToHost *)

\* What the worker copies and announces of a request: the chunk that its step
\* still has to save for it, if there is one.
LEMMA SavedFor ==
  ASSUME HostType, SaveKvToHost, NEW r \in Reqs,
         \A i \in Steps : \A s, t \in ChunksOf(r, i) : s = t
  PROVE  \E e \in Steps :
           /\ e = executed + 1 /\ executed' = e /\ inflight' = inflight
           /\ \/ /\ ~Live(r) \/ Pending(r, e) = {}
                 /\ status[r] = "waiting" \/ Live(r) => announced'[r] = announced[r]
                 /\ Live(r) => staged'[r] = staged[r]
              \/ /\ Live(r)
                 /\ \E s \in SaveType :
                      /\ Pending(r, e) = {s}
                      /\ announced'[r] = Append(announced[r], s)
                      /\ \A b \in Blocks(r) :
                           staged'[r][b] = IF b \in s.blocks
                                           THEN Filled(b, inflight[e].upto[r])
                                           ELSE staged[r][b]
<1> DEFINE e == executed + 1
           step == inflight[e]
           saveOf(q) == CHOOSE s \in Current(step) : s.req = q
           saved == {s.req : s \in Current(step)}
<1>1. e \in Steps /\ executed' = e /\ inflight' = inflight
  BY DEF SaveKvToHost, HostType, Steps
<1>2. /\ announced'[r] = IF r \in saved THEN Append(announced[r], saveOf(r))
                         ELSE announced[r]
      /\ staged'[r] = [b \in Blocks(r) |->
                         IF r \in saved /\ b \in saveOf(r).blocks
                         THEN Filled(b, step.upto[r]) ELSE staged[r][b]]
  BY DEF SaveKvToHost
<1>3. Pending(r, e) = {s \in ChunksOf(r, e) : Own(r, e)}
  BY <1>1 DEF Pending, HostType
<1>4. {s \in Current(step) : s.req = r}
        = {s \in ChunksOf(r, e) : Own(r, e) /\ status[r] # "waiting"}
  BY DEF Current, ChunksOf, Own
<1>5. \A s, t \in ChunksOf(r, e) : s = t
  BY <1>1
<1>6. Current(step) \subseteq SaveType
  BY <1>1, StepTyped DEF Current, StepType
<1>7. CASE r \notin saved
  <2>1. announced'[r] = announced[r]
    BY <1>2, <1>7
  <2>2. staged'[r] = [b \in Blocks(r) |-> staged[r][b]]
    BY <1>2, <1>7
  <2>3. staged'[r] = staged[r]
    BY <2>2 DEF HostType
  <2>4. {s \in Current(step) : s.req = r} = {}
    BY <1>7
  <2>5. ~Live(r) \/ Pending(r, e) = {}
    BY <1>3, <1>4, <2>4 DEF Live
  <2> QED
    BY <1>1, <2>1, <2>3, <2>5
<1>8. CASE r \in saved
  <2>1. PICK s \in Current(step) : s.req = r
    BY <1>8
  <2>2. s \in ChunksOf(r, e) /\ Own(r, e) /\ status[r] # "waiting" /\ s \in SaveType
    BY <1>4, <1>6, <2>1
  <2>3. \A t \in Current(step) : t.req = r => t = s
    BY <1>4, <1>5, <2>2
  <2>4. saveOf(r) = s
    BY <2>1, <2>3
  <2>5. Pending(r, e) = {s}
    BY <1>3, <1>5, <2>2
  <2>6. announced'[r] = Append(announced[r], s)
    BY <1>2, <1>8, <2>4
  <2>7. \A b \in Blocks(r) :
           staged'[r][b] = IF b \in s.blocks THEN Filled(b, inflight[e].upto[r])
                           ELSE staged[r][b]
    BY <1>2, <1>8, <2>4
  <2> QED
    BY <1>1, <2>2, <2>5, <2>6, <2>7 DEF Live
<1> QED
  BY <1>7, <1>8

LEMMA SaveInv ==
  ASSUME HostInv, SaveKvToHost, NEW r \in Reqs
  PROVE  ReqInv(r)'
<1>1. StepsInv(r) /\ NeedInv(r) /\ (Live(r) => ChunksInv(r)) /\ HostType
  BY DEF HostInv, ReqInv
<1>2. PICK e \in Steps :
           /\ e = executed + 1 /\ executed' = e /\ inflight' = inflight
           /\ \/ /\ ~Live(r) \/ Pending(r, e) = {}
                 /\ status[r] = "waiting" \/ Live(r) => announced'[r] = announced[r]
                 /\ Live(r) => staged'[r] = staged[r]
              \/ /\ Live(r)
                 /\ \E s \in SaveType :
                      /\ Pending(r, e) = {s}
                      /\ announced'[r] = Append(announced[r], s)
                      /\ \A b \in Blocks(r) :
                           staged'[r][b] = IF b \in s.blocks
                                           THEN Filled(b, inflight[e].upto[r])
                                           ELSE staged[r][b]
  BY <1>1, SavedFor DEF StepsInv
<1>3. /\ status' = status /\ run' = run /\ computed' = computed
      /\ reqs_need_save' = reqs_need_save /\ save_chunk_counter' = save_chunk_counter
  BY DEF SaveKvToHost
<1>4. /\ Steps' = Steps /\ Live(r)' = Live(r)
      /\ \A i \in Steps : Own(r, i)' = Own(r, i) /\ ChunksOf(r, i)' = ChunksOf(r, i)
  BY <1>2, <1>3 DEF Steps, Live, Own, ChunksOf
<1>5. StepsInv(r)'
  <2>1. status'[r] = "waiting" => computed'[r] = 0 /\ announced'[r] = <<>>
    BY <1>1, <1>2, <1>3 DEF StepsInv, Live
  <2> QED
    BY <1>1, <1>2, <1>3, <1>4, <2>1 DEF StepsInv
<1>6. NeedInv(r)'
  BY <1>1, <1>3, <1>4 DEF NeedInv
<1>7. executed \in Nat /\ Steps \subseteq Nat
  BY <1>1 DEF HostType, Steps
<1>8. \A i \in Steps : Pending(r, i)' = IF i = e THEN {} ELSE Pending(r, i)
  <2>1. \A i \in Steps : i > executed' <=> i > executed /\ i # e
    BY <1>2, <1>7
  <2> QED
    BY <1>4, <2>1 DEF Pending
<1>9. CASE ~Live(r)
  BY <1>4, <1>5, <1>6, <1>9 DEF ReqInv
<1>10. CASE Live(r) /\ Pending(r, e) = {}
  <2>1. announced'[r] = announced[r] /\ staged'[r] = staged[r]
    BY <1>2, <1>10
  <2>2. \A i \in Steps : Pending(r, i)' = Pending(r, i)
    BY <1>8, <1>10
  <2>3. Told(r)' = Told(r)
    BY <2>1 DEF Told
  <2>4. ChunksInv(r)'
    BY <1>1, <1>3, <1>4, <1>10, <2>1, <2>2, <2>3 DEF ChunksInv, Within, Covered, Ended
  <2> QED
    BY <1>5, <1>6, <2>4 DEF ReqInv
<1>11. CASE Live(r) /\ Pending(r, e) # {}
  <2>1. PICK s \in SaveType :
                      /\ Pending(r, e) = {s}
                      /\ announced'[r] = Append(announced[r], s)
                      /\ \A b \in Blocks(r) :
                           staged'[r][b] = IF b \in s.blocks
                                           THEN Filled(b, inflight[e].upto[r])
                                           ELSE staged[r][b]
    BY <1>2, <1>11
  <2>2. ChunksInv(r)
    BY <1>1, <1>11
  <2> DEFINE l == Len(announced[r])
  <2>3. /\ l \in Nat /\ Told(r) = 1..l /\ Told(r)' = 1..(l + 1)
        /\ \A k \in 1..l : announced'[r][k] = announced[r][k]
        /\ announced'[r][l + 1] = s
    <3>1. announced[r] \in Seq(SaveType)
      BY <1>1 DEF HostType
    <3> QED
      BY <2>1, <3>1, AppendProperties DEF Told
  <2> HIDE DEF l
  <2>4. \A k \in Told(r)' : k \in Told(r) \/ k = l + 1
    BY <2>3
  <2>5. status[r] # "held"
    BY <1>11, <2>2 DEF ChunksInv
  <2>6. computed[r] \in Nat /\ Prompt[r] \in Nat /\ computed[r] <= Prompt[r]
    BY <1>1, HostSaveAssumption DEF HostType, StepsInv
  <2>7. /\ NumBlocks(computed[r]) <= NumBlocks(Prompt[r])
        /\ NumBlocks(computed[r]) \in Nat /\ NumBlocks(Prompt[r]) \in Nat
    BY <2>6, NumBlocksMonotone, NumBlocksBounds
  <2>8. Within(r, s) /\ \A k \in Told(r) : Earlier(announced[r][k], s)
    BY <2>1, <2>2 DEF ChunksInv
  <2>9. ASSUME NEW k \in Told(r)'
        PROVE  /\ Within(r, announced[r][k])'
               /\ \A b \in announced'[r][k].blocks : staged'[r][b] = Filled(b, Prompt[r])
    <3>1. CASE k \in Told(r)
      <4>1. /\ Within(r, announced[r][k]) /\ announced'[r][k] = announced[r][k]
            /\ \A b \in announced[r][k].blocks : staged[r][b] = Filled(b, Prompt[r])
            /\ Earlier(announced[r][k], s)
        BY <2>2, <2>3, <2>8, <3>1 DEF ChunksInv
      <4>2. Within(r, announced[r][k])'
        BY <1>3, <4>1 DEF Within
      <4>3. ASSUME NEW b \in announced[r][k].blocks
            PROVE  staged'[r][b] = Filled(b, Prompt[r])
        <5>1. b \in 1..NumBlocks(computed[r])
          BY <4>1, <4>3 DEF Within
        <5>2. b \in Blocks(r) /\ ~(b < b)
          BY <2>7, <5>1 DEF Blocks
        <5>3. b \notin s.blocks
          BY <4>1, <4>3, <5>2 DEF Earlier
        <5> QED
          BY <2>1, <4>1, <4>3, <5>2, <5>3
      <4> QED
        BY <4>1, <4>2, <4>3
    <3>2. CASE k = l + 1
      <4>1. announced'[r][k] = s
        BY <2>3, <3>2
      <4>2. Within(r, announced[r][k])'
        BY <1>3, <2>8, <4>1 DEF Within
      <4>3. ASSUME NEW b \in s.blocks
            PROVE  staged'[r][b] = Filled(b, Prompt[r])
        <5>1. b \in 1..NumBlocks(computed[r])
          BY <2>8, <4>3 DEF Within
        <5>2. b \in Blocks(r)
          BY <2>7, <5>1 DEF Blocks
        <5>3. staged'[r][b] = Filled(b, inflight[e].upto[r])
          BY <2>1, <4>3, <5>2
        <5>4. Own(r, e) /\ s \in ChunksOf(r, e)
          BY <2>1 DEF Pending
        <5>5. /\ inflight[e].upto[r] <= computed[r]
              /\ \/ inflight[e].upto[r] % BlockSize = 0
                 \/ inflight[e].upto[r] = Prompt[r]
              /\ s.blocks \subseteq 1..NumBlocks(inflight[e].upto[r])
          BY <1>1, <1>11, <5>4 DEF StepsInv
        <5>6. inflight[e].upto[r] \in Nat
          BY <1>1, StepTyped
        <5>7. inflight[e].upto[r] <= Prompt[r] /\ b \in 1..NumBlocks(inflight[e].upto[r])
          BY <2>6, <4>3, <5>5, <5>6
        <5>8. Filled(b, inflight[e].upto[r]) = Filled(b, Prompt[r])
          BY <2>6, <5>5, <5>6, <5>7, FilledForGood
        <5> QED
          BY <5>3, <5>8
      <4> QED
        BY <4>1, <4>2, <4>3
    <3> QED
      BY <2>4, <3>1, <3>2
  <2>10. ASSUME NEW k \in Told(r)', NEW j \in Told(r)', k < j
         PROVE  Earlier(announced'[r][k], announced'[r][j])
    <3>1. k \in Told(r) /\ announced'[r][k] = announced[r][k]
      BY <2>3, <2>10
    <3>2. CASE j \in Told(r)
      BY <2>2, <2>3, <2>10, <3>1, <3>2 DEF ChunksInv
    <3>3. CASE j = l + 1
      BY <2>3, <2>8, <3>1, <3>3
    <3> QED
      BY <2>4, <3>2, <3>3
  <2>11. ASSUME NEW i \in Steps, NEW t \in Pending(r, i)'
         PROVE  i # e /\ i > e /\ t \in Pending(r, i)
    <3>1. i # e /\ t \in Pending(r, i)
      BY <1>8, <2>11
    <3>2. i > executed
      BY <3>1 DEF Pending
    <3> QED
      BY <1>2, <1>7, <3>1, <3>2
  <2>12. ASSUME NEW i \in Steps, NEW t \in Pending(r, i)'
         PROVE  Within(r, t)' /\ \A k \in Told(r)' : Earlier(announced'[r][k], t)
    <3>1. t \in Pending(r, i) /\ e < i
      BY <1>7, <2>11, <2>12
    <3>2. Within(r, t) /\ \A k \in Told(r) : Earlier(announced[r][k], t)
      BY <2>2, <3>1 DEF ChunksInv
    <3>3. Earlier(s, t)
      BY <2>1, <2>2, <3>1 DEF ChunksInv
    <3>4. Within(r, t)'
      BY <1>3, <3>2 DEF Within
    <3> QED
      BY <2>3, <2>4, <3>2, <3>3, <3>4
  <2>13. \A i, j \in Steps : i < j =>
            \A t \in Pending(r, i)', u \in Pending(r, j)' : Earlier(t, u)
    BY <2>2, <2>11 DEF ChunksInv
  <2>14. ASSUME NEW b, Covered(r, b) PROVE Covered(r, b)'
    <3>1. CASE \E k \in Told(r) : b \in announced[r][k].blocks
      BY <2>3, <3>1 DEF Covered
    <3>2. CASE \E i \in Steps : \E t \in Pending(r, i) : b \in t.blocks
      <4>1. PICK i \in Steps : \E t \in Pending(r, i) : b \in t.blocks
        BY <3>2
      <4>2. CASE i = e
        <5>1. b \in announced'[r][l + 1].blocks /\ l + 1 \in Told(r)'
          BY <2>1, <2>3, <4>1, <4>2
        <5> QED
          BY <5>1 DEF Covered
      <4>3. CASE i # e
        BY <1>4, <1>8, <4>1, <4>3 DEF Covered
      <4> QED
        BY <4>2, <4>3
    <3> QED
      BY <2>14, <3>1, <3>2 DEF Covered
  <2>15. ASSUME Ended(r) PROVE Ended(r)'
    <3>1. CASE \E k \in Told(r) : announced[r][k].is_last
      BY <2>3, <3>1 DEF Ended
    <3>2. CASE \E i \in Steps : \E t \in Pending(r, i) : t.is_last
      <4>1. PICK i \in Steps : \E t \in Pending(r, i) : t.is_last
        BY <3>2
      <4>2. CASE i = e
        <5>1. announced'[r][l + 1].is_last /\ l + 1 \in Told(r)'
          BY <2>1, <2>3, <4>1, <4>2
        <5> QED
          BY <5>1 DEF Ended
      <4>3. CASE i # e
        BY <1>4, <1>8, <4>1, <4>3 DEF Ended
      <4> QED
        BY <4>2, <4>3
    <3> QED
      BY <2>15, <3>1, <3>2 DEF Ended
  <2>16. /\ \A b \in 1..NumBlocks(computed'[r]) : Covered(r, b)'
         /\ computed'[r] = Prompt[r] => Ended(r)'
    BY <1>3, <2>2, <2>14, <2>15 DEF ChunksInv
  <2>17. ChunksInv(r)'
    BY <1>3, <1>4, <2>5, <2>9, <2>10, <2>12, <2>13, <2>16 DEF ChunksInv
  <2> QED
    BY <1>5, <1>6, <2>17 DEF ReqInv
<1> QED
  BY <1>9, <1>10, <1>11

-----------------------------------------------------------------------------
(* The invariant holds as long as no prefill stops within a block *)

LEMMA InitInv == Init => HostInv
<1> SUFFICES ASSUME Init PROVE HostInv
  OBVIOUS
<1>1. HostType
  BY InitType
<1>2. ASSUME NEW r \in Reqs PROVE ReqInv(r)
  <2>1. /\ status[r] = "waiting" /\ computed[r] = 0 /\ announced[r] = <<>>
        /\ inflight = <<>> /\ Prompt[r] \in Nat
    BY HostSaveAssumption DEF Init
  <2>2. Steps = {} /\ ~Live(r)
    BY <2>1 DEF Steps, Live
  <2> QED
    BY <2>1, <2>2 DEF ReqInv, StepsInv, NeedInv
<1> QED
  BY <1>1, <1>2 DEF HostInv

LEMMA NextInv ==
  ASSUME HostInv, Aligned, Aligned', [Next]_vars
  PROVE  HostInv'
<1>1. HostType'
  BY NextType DEF HostInv
<1>2. ASSUME NEW r \in Reqs PROVE ReqInv(r)'
  <2>1. HostType /\ ReqInv(r) /\ StepsInv(r) /\ NeedInv(r)
    BY DEF HostInv, ReqInv
  <2>2. ASSUME NEW n \in [Reqs -> 0..Budget], Schedule(n) PROVE ReqInv(r)'
    <3>1. StaysPut(r) \/ Advances(r)
      BY <2>1, <2>2, ScheduleFor DEF Aligned
    <3>2. (computed[r] % BlockSize = 0 \/ computed[r] = Prompt[r])'
      BY DEF Aligned
    <3>3. StepsInv(r)'
      BY <1>1, <2>1, <2>2, <3>1, <3>2, ScheduleStepsInv
    <3>4. NeedInv(r)'
      BY <1>1, <2>1, <3>1, ScheduleNeedInv
    <3>5. Live(r)' => ChunksInv(r)'
      BY <1>1, <2>1, <2>2, <3>1, ScheduleChunksInv
    <3> QED
      BY <3>3, <3>4, <3>5 DEF ReqInv
  <2>3. ASSUME NEW q \in Reqs, Preempt(q) \/ Abort(q) PROVE ReqInv(r)'
    BY <2>3, PreemptInv, AbortInv
  <2>4. CASE UpdateFromOutput
    BY <1>1, <2>4, OutputInv
  <2>5. CASE SaveKvToHost
    BY <2>5, SaveInv
  <2>6. CASE UNCHANGED vars
    BY <2>1, <2>6, Undisturbed DEF vars
  <2> QED
    BY <2>2, <2>3, <2>4, <2>5, <2>6 DEF Next
<1> QED
  BY <1>1, <1>2 DEF HostInv

\* The invariant of the host buffer, in every behaviour of the program in
\* which each prefill, whenever the scheduler leaves it, stands at the end of a
\* block or of its prompt.
THEOREM HostInvariant == Spec /\ []Aligned => []HostInv
<1>1. Init => HostInv
  BY InitInv
<1>2. HostInv /\ Aligned /\ Aligned' /\ [Next]_vars => HostInv'
  BY NextInv
<1> QED
  BY <1>1, <1>2, PTL DEF Spec

LEMMA StagedWhenHeld == HostInv => HeldIsStaged
<1> SUFFICES ASSUME HostInv, NEW r \in Reqs, status[r] = "held", NEW b \in Blocks(r)
             PROVE  staged[r][b] = Filled(b, Prompt[r])
  BY DEF HeldIsStaged
<1>1. NeedInv(r) /\ ChunksInv(r)
  BY DEF HostInv, ReqInv, Live
<1>2. computed[r] = Prompt[r] /\ \A i \in Steps : Pending(r, i) = {}
  BY <1>1 DEF NeedInv, ChunksInv
<1>3. Covered(r, b)
  BY <1>1, <1>2 DEF ChunksInv, Blocks
<1> QED
  BY <1>1, <1>2, <1>3 DEF ChunksInv, Covered

LEMMA NothingLeftWhenHeld == HostInv => NoSaveLeft
BY DEF HostInv, ReqInv, NeedInv, Live, NoSaveLeft

\* The announcements of a held request from its latest start on, those before
\* left aside, name every block once, in order and under increasing indices,
\* and the last of them, and no other, is marked last.
LatestInOrder ==
  \A r \in Reqs : status[r] = "held" =>
     LET a == announced[r]
     IN /\ UNION {a[i].blocks : i \in 1..Len(a)} = Blocks(r)
        /\ \A i, j \in 1..Len(a) : i < j =>
             /\ a[i].idx < a[j].idx
             /\ \A b \in a[i].blocks, c \in a[j].blocks : b < c
        /\ \A i \in 1..Len(a) : a[i].is_last <=> i = Len(a)

LEMMA OrderedWhenHeld == HostInv => LatestInOrder
<1> SUFFICES ASSUME HostInv, NEW r \in Reqs, status[r] = "held"
             PROVE  LET a == announced[r]
                    IN /\ UNION {a[i].blocks : i \in 1..Len(a)} = Blocks(r)
                       /\ \A i, j \in 1..Len(a) : i < j =>
                            /\ a[i].idx < a[j].idx
                            /\ \A b \in a[i].blocks, c \in a[j].blocks : b < c
                       /\ \A i \in 1..Len(a) : a[i].is_last <=> i = Len(a)
  BY DEF LatestInOrder
<1> DEFINE a == announced[r]
<1>1. NeedInv(r) /\ ChunksInv(r) /\ HostType
  BY DEF HostInv, ReqInv, Live
<1>2. computed[r] = Prompt[r] /\ \A i \in Steps : Pending(r, i) = {}
  BY <1>1 DEF NeedInv, ChunksInv
<1>3. Told(r) = 1..Len(a) /\ Len(a) \in Nat
  BY <1>1 DEF Told, HostType
<1>4. \A i, j \in Told(r) : i < j => Earlier(a[i], a[j])
  BY <1>1 DEF ChunksInv
<1>5. \A i \in Told(r) : a[i].blocks \subseteq Blocks(r)
  BY <1>1, <1>2 DEF ChunksInv, Within, Blocks
<1>6. \A b \in Blocks(r) : \E i \in Told(r) : b \in a[i].blocks
  BY <1>1, <1>2 DEF ChunksInv, Covered, Blocks
<1>7. UNION {a[i].blocks : i \in Told(r)} = Blocks(r)
  BY <1>5, <1>6
<1>8. PICK k \in Told(r) : a[k].is_last
  BY <1>1, <1>2 DEF ChunksInv, Ended
<1>9. \A i \in Told(r) : i < Len(a) => ~a[i].is_last
  BY <1>3, <1>4 DEF Earlier
<1>10. k = Len(a)
  BY <1>3, <1>8, <1>9
<1>11. \A i \in Told(r) : a[i].is_last <=> i = Len(a)
  BY <1>3, <1>8, <1>9, <1>10
<1> QED
  BY <1>3, <1>4, <1>7, <1>11 DEF Earlier

\* When decode may read a request's blocks, each is in the host buffer with
\* all the tokens the prompt puts in it - unless some prefill stopped within a
\* block, which is how the code can violate it (finding on save_kv_to_host).
THEOREM HeldStaged == Spec /\ []Aligned => []HeldIsStaged
<1>1. HostInv => HeldIsStaged
  BY StagedWhenHeld
<1> QED
  BY <1>1, HostInvariant, PTL

\* The scheduler forgets what it had to save of a request, and its chunk
\* counter, before the request is held.
THEOREM HeldForgotten == Spec /\ []Aligned => []NoSaveLeft
<1>1. HostInv => NoSaveLeft
  BY NothingLeftWhenHeld
<1> QED
  BY <1>1, HostInvariant, PTL

\* What is announced of a held request since its latest start is in order.
LEMMA LatestAnnounced == Spec /\ []Aligned => []LatestInOrder
<1>1. HostInv => LatestInOrder
  BY OrderedWhenHeld
<1> QED
  BY <1>1, HostInvariant, PTL

-----------------------------------------------------------------------------
(* One prefill at a time, under a budget of whole blocks *)

LEMMA Multiple ==
  ASSUME NEW d \in Nat \ {0}, NEW k \in Nat
  PROVE  (d * k) % d = 0
<1> DEFINE a == d * k
           q == a \div d
           m == a % d
<1>1. a \in Nat
  OBVIOUS
<1>2. q \in Nat /\ m \in 0..(d - 1) /\ a = d * q + m
  BY <1>1, Quotient
<1> HIDE DEF q, m
<1>3. d * q <= d * k /\ d * k < d * (q + 1)
  BY <1>2
<1>4. k < q + 1
  BY <1>2, <1>3, Cancel
<1>5. ~(k < q)
  <2> SUFFICES ASSUME k < q PROVE FALSE
    OBVIOUS
  <2>1. d * (k + 1) <= d * q
    BY <1>2
  <2>2. d * (k + 1) = d * k + d
    OBVIOUS
  <2> QED
    BY <1>2, <1>3, <2>1, <2>2
<1>6. k = q
  BY <1>2, <1>4, <1>5
<1>7. m = 0
  BY <1>2, <1>6
<1> QED
  BY <1>7 DEF m

LEMMA WholeSum ==
  ASSUME NEW m \in Nat, NEW n \in Nat, m % BlockSize = 0, n % BlockSize = 0
  PROVE  (m + n) % BlockSize = 0
<1> DEFINE p == m \div BlockSize
           q == n \div BlockSize
<1>1. /\ BlockSize \in Nat \ {0} /\ p \in Nat /\ q \in Nat
      /\ m = BlockSize * p /\ n = BlockSize * q
  BY Whole, HostSaveAssumption
<1> HIDE DEF p, q
<1>2. m + n = BlockSize * (p + q)
  BY <1>1
<1> QED
  BY <1>1, <1>2, Multiple

\* A request that shares a step with no other gets all it needs or all there is.
LEMMA LoneShare ==
  ASSUME HostType, MaxRunning = 1, NEW n \in Shares, NEW r \in Reqs, n[r] > 0
  PROVE  n[r] = Remaining(r) \/ n[r] = Budget
<1> DEFINE busy == {q \in Reqs : status[q] = "running" \/ n[q] > 0}
<1>1. IsFiniteSet(busy)
  BY HostSaveAssumption, FS_Subset
<1>2. Cardinality(busy) <= 1 /\ Cardinality(busy) \in Nat
  BY <1>1, FS_CardinalityType DEF Shares
<1>3. \A q \in Reqs : n[q] > 0 => q = r
  <2> SUFFICES ASSUME NEW q \in Reqs, n[q] > 0, q # r PROVE FALSE
    OBVIOUS
  <2>1. {q, r} \subseteq busy
    OBVIOUS
  <2>2. IsFiniteSet({q, r}) /\ Cardinality({q, r}) = 2
    <3>1. IsFiniteSet({r}) /\ Cardinality({r}) = 1
      BY FS_Singleton
    <3>2. {q, r} = {r} \union {q} /\ q \notin {r}
      OBVIOUS
    <3>3. /\ IsFiniteSet({r} \union {q})
          /\ Cardinality({r} \union {q}) = Cardinality({r}) + 1
      BY <3>1, <3>2, FS_AddElement
    <3> QED
      BY <3>1, <3>2, <3>3
  <2>3. Cardinality({q, r}) <= Cardinality(busy)
    BY <1>1, <2>1, FS_Subset
  <2> QED
    BY <1>2, <2>2, <2>3
<1>4. n \in [Reqs -> 0..Budget] /\ Budget \in Nat /\ Remaining(r) \in Int
  BY HostSaveAssumption DEF Shares, Remaining, HostType
<1>5. PICK before \in [Reqs -> 0..Budget] :
             /\ before[r] # 0 => \E q \in Reqs : n[q] > 0 /\ before[q] + n[q] = before[r]
             /\ n[r] < Remaining(r) => before[r] + n[r] = Budget
  BY DEF Shares
<1>6. before[r] = 0
  <2> SUFFICES ASSUME before[r] # 0 PROVE FALSE
    OBVIOUS
  <2>1. before[r] + n[r] = before[r]
    BY <1>3, <1>5
  <2> QED
    BY <1>4, <1>5, <2>1
<1>7. n[r] <= Remaining(r)
  BY DEF Shares
<1> QED
  BY <1>4, <1>5, <1>6, <1>7

\* With one prefill at a time and a budget of whole blocks, every prefill
\* stands at the end of a block or of its prompt whenever the scheduler
\* leaves it.
THEOREM OneAtATime ==
  MaxRunning = 1 /\ Budget % BlockSize = 0 => (Spec => []Aligned)
<1> SUFFICES ASSUME MaxRunning = 1, Budget % BlockSize = 0
             PROVE  Spec => []Aligned
  OBVIOUS
<1>1. Init => HostType /\ Aligned
  <2>1. BlockSize \in Nat \ {0} /\ (BlockSize * 0) % BlockSize = 0
    BY HostSaveAssumption, Multiple
  <2>2. 0 % BlockSize = 0
    BY <2>1
  <2> QED
    BY <2>2, InitType DEF Init, Aligned
<1>2. HostType /\ Aligned /\ [Next]_vars => HostType' /\ Aligned'
  <2> SUFFICES ASSUME HostType, Aligned, [Next]_vars, NEW r \in Reqs
               PROVE  computed'[r] % BlockSize = 0 \/ computed'[r] = Prompt[r]
    BY NextType DEF Aligned
  <2>1. /\ computed[r] % BlockSize = 0 \/ computed[r] = Prompt[r]
        /\ computed[r] \in Nat /\ Prompt[r] \in Nat /\ Budget \in Nat
    BY HostSaveAssumption DEF Aligned, HostType
  <2>2. ASSUME NEW n \in [Reqs -> 0..Budget], Schedule(n)
        PROVE  computed'[r] % BlockSize = 0 \/ computed'[r] = Prompt[r]
    <3>1. computed'[r] = computed[r] + n[r] /\ n \in Shares /\ n[r] \in Nat
      BY <2>1, <2>2 DEF Schedule
    <3>2. CASE n[r] = 0
      BY <2>1, <3>1, <3>2
    <3>3. CASE n[r] > 0
      <4>1. n[r] = Remaining(r) \/ n[r] = Budget
        BY <3>1, <3>3, LoneShare
      <4>2. CASE n[r] = Remaining(r)
        BY <2>1, <3>1, <4>2 DEF Remaining
      <4>3. CASE n[r] = Budget
        <5>1. n[r] <= Prompt[r] - computed[r]
          BY <3>1 DEF Shares, Remaining
        <5>2. computed[r] % BlockSize = 0
          BY <2>1, <3>1, <3>3, <5>1
        <5> QED
          BY <2>1, <3>1, <4>3, <5>2, WholeSum
      <4> QED
        BY <4>1, <4>2, <4>3
    <3> QED
      BY <3>1, <3>2, <3>3
  <2>3. ASSUME NEW q \in Reqs, Preempt(q)
        PROVE  computed'[r] % BlockSize = 0 \/ computed'[r] = Prompt[r]
    <3>1. BlockSize \in Nat \ {0} /\ (BlockSize * 0) % BlockSize = 0
      BY HostSaveAssumption, Multiple
    <3>2. 0 % BlockSize = 0
      BY <3>1
    <3>3. computed'[r] = IF r = q THEN 0 ELSE computed[r]
      BY <2>3 DEF Preempt, HostType
    <3> QED
      BY <2>1, <3>2, <3>3
  <2>4. CASE \/ \E q \in Reqs : Abort(q)
             \/ UpdateFromOutput \/ SaveKvToHost \/ UNCHANGED vars
    BY <2>1, <2>4 DEF Abort, UpdateFromOutput, SaveKvToHost, vars
  <2> QED
    BY <2>2, <2>3, <2>4 DEF Next
<1> QED
  BY <1>1, <1>2, PTL DEF Spec

\* So with one prefill at a time, under a budget of whole blocks, what the
\* producer promises of a held request needs no hypothesis on the behaviour.
THEOREM HeldSound ==
  MaxRunning = 1 /\ Budget % BlockSize = 0 =>
    (Spec => [](HeldIsStaged /\ NoSaveLeft /\ LatestInOrder))
<1> SUFFICES ASSUME MaxRunning = 1, Budget % BlockSize = 0
             PROVE  Spec => [](HeldIsStaged /\ NoSaveLeft /\ LatestInOrder)
  OBVIOUS
<1>1. Spec => []Aligned
  BY OneAtATime
<1> QED
  BY <1>1, HeldStaged, HeldForgotten, LatestAnnounced, PTL
=============================================================================
