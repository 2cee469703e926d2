--------------------------- MODULE BlockMapProofs ---------------------------
(***************************************************************************)
(* Theorems about BlockMap and Regions, for every pair of engines, however *)
(* many heads, workers, layers, blocks and tokens they have, and for every *)
(* pair of block tables.                                                   *)
(***************************************************************************)
EXTENDS BlockMap, SequenceTheorems, TLAPS

-----------------------------------------------------------------------------
(* Quotients and remainders *)

LEMMA Quotient ==
  ASSUME NEW a \in Nat, NEW d \in Nat \ {0}
  PROVE  /\ a \div d \in Nat /\ a % d \in 0..(d - 1)
         /\ a = d * (a \div d) + (a % d)
BY SMT

\* A product of natural numbers grows with each factor.
LEMMA Grows ==
  ASSUME NEW d \in Nat, NEW x \in Int, NEW y \in Int, x <= y
  PROVE  d * x \in Int /\ d * y \in Int /\ d * x <= d * y
OBVIOUS

LEMMA QuotientIs ==
  ASSUME NEW d \in Nat \ {0}, NEW q \in Nat, NEW r \in 0..(d - 1), NEW a, a = d * q + r
  PROVE  a \in Nat /\ a \div d = q /\ a % d = r
<1>1. d * q \in Nat /\ a \in Nat
  OBVIOUS
<1> DEFINE p == a \div d
           s == a % d
<1>2. p \in Nat /\ s \in 0..(d - 1) /\ a = d * p + s
  BY <1>1, Quotient
<1> HIDE DEF p, s
<1>3. ~(p + 1 <= q)
  <2> SUFFICES ASSUME p + 1 <= q PROVE FALSE
    OBVIOUS
  <2>1. d * (p + 1) <= d * q /\ d * (p + 1) = d * p + d
    BY <1>2, Grows
  <2> QED
    BY <1>2, <2>1
<1>4. ~(q + 1 <= p)
  <2> SUFFICES ASSUME q + 1 <= p PROVE FALSE
    OBVIOUS
  <2>1. d * (q + 1) <= d * p /\ d * (q + 1) = d * q + d
    BY <1>2, Grows
  <2> QED
    BY <1>2, <2>1
<1>5. p = q
  BY <1>2, <1>3, <1>4
<1>6. s = r
  BY <1>1, <1>2, <1>5
<1> QED
  BY <1>1, <1>5, <1>6 DEF p, s

\* A quotient is below n when the number is below n divisors.
LEMMA QuotientBelow ==
  ASSUME NEW d \in Nat \ {0}, NEW n \in Nat, NEW a \in Nat, a < d * n
  PROVE  a \div d \in 0..(n - 1)
<1> DEFINE p == a \div d
<1>1. p \in Nat /\ a % d \in 0..(d - 1) /\ a = d * p + (a % d)
  BY Quotient
<1> HIDE DEF p
<1>2. ~(n <= p)
  <2> SUFFICES ASSUME n <= p PROVE FALSE
    OBVIOUS
  <2>1. d * n <= d * p
    BY <1>1, Grows
  <2> QED
    BY <1>1, <2>1
<1> QED
  BY <1>1, <1>2 DEF p

\* The a-th of n rows of d is within the n * d places.
LEMMA Within ==
  ASSUME NEW d \in Nat, NEW n \in Nat, NEW q \in 0..(n - 1), NEW r \in 0..(d - 1)
  PROVE  d * q + r \in 0..(d * n - 1)
<1>1. d * (q + 1) <= d * n /\ d * (q + 1) = d * q + d /\ d * q \in Nat /\ d * n \in Nat
  BY Grows
<1> QED
  BY <1>1

LEMMA SmallQuotient ==
  ASSUME NEW d \in Nat \ {0}, NEW a \in 0..(d - 1)
  PROVE  a \div d = 0 /\ a % d = a
<1>1. a = d * 0 + a /\ 0 \in Nat
  OBVIOUS
<1> QED
  BY <1>1, QuotientIs

LEMMA Cancel ==
  ASSUME NEW d \in Nat \ {0}, NEW x \in Nat, NEW y \in Nat, d * x = d * y
  PROVE  x = y
<1>1. ~(x + 1 <= y)
  <2> SUFFICES ASSUME x + 1 <= y PROVE FALSE
    OBVIOUS
  <2>1. d * (x + 1) <= d * y /\ d * (x + 1) = d * x + d /\ d * x \in Int
    BY Grows
  <2> QED
    BY <2>1
<1>2. ~(y + 1 <= x)
  <2> SUFFICES ASSUME y + 1 <= x PROVE FALSE
    OBVIOUS
  <2>1. d * (y + 1) <= d * x /\ d * (y + 1) = d * y + d /\ d * y \in Int
    BY Grows
  <2> QED
    BY <2>1
<1> QED
  BY <1>1, <1>2

\* One of two sizes divides the other: the larger is a multiple.
LEMMA Multiple ==
  ASSUME NEW a \in Nat \ {0}, NEW d \in Nat \ {0}, d <= a, a % d = 0 \/ d % a = 0
  PROVE  a \div d \in Nat \ {0} /\ a = d * (a \div d)
<1> DEFINE q == a \div d
           p == d \div a
<1>1. q \in Nat /\ a = d * q + (a % d)
  BY Quotient
<1>2. p \in Nat /\ d = a * p + (d % a)
  BY Quotient
<1> HIDE DEF p, q
<1>3. CASE a % d = 0
  BY <1>1, <1>3 DEF q
<1>4. CASE d % a = 0
  <2>1. d = a * p /\ p # 0
    BY <1>2, <1>4
  <2>2. ~(2 <= p)
    <3> SUFFICES ASSUME 2 <= p PROVE FALSE
      OBVIOUS
    <3>1. a * 2 <= a * p
      BY <1>2, Grows
    <3> QED
      BY <2>1, <3>1
  <2>3. d = a
    BY <1>2, <2>1, <2>2
  <2>4. a \div d = 1
    BY <2>3
  <2> QED
    BY <2>3, <2>4
<1> QED
  BY <1>3, <1>4

LEMMA QuotientOfProduct ==
  ASSUME NEW d \in Nat \ {0}, NEW q \in Nat
  PROVE  (q * d) \div d = q
<1>1. d * q + 0 = q * d /\ 0 \in 0..(d - 1)
  OBVIOUS
<1> DEFINE a == q * d
<1>2. a = d * q + 0
  BY <1>1
<1> HIDE DEF a
<1>3. a \div d = q
  BY <1>1, <1>2, QuotientIs
<1> QED
  BY <1>3 DEF a

\* Ranks of ranks: a rank among d * e groups is the rank of its group of d.
LEMMA QuotientOfQuotient ==
  ASSUME NEW a \in Nat, NEW d \in Nat \ {0}, NEW e \in Nat \ {0}
  PROVE  (a \div d) \div e = a \div (d * e)
<1> DEFINE p == a \div d
           r == a % d
           q == p \div e
           s == p % e
           m == d * e
           w == d * s + r
<1>1. p \in Nat /\ r \in 0..(d - 1) /\ a = d * p + r
  BY Quotient
<1>2. q \in Nat /\ s \in 0..(e - 1) /\ p = e * q + s
  BY <1>1, Quotient
<1> HIDE DEF p, q, r, s
<1>3. w \in 0..(m - 1) /\ m \in Nat \ {0}
  BY <1>1, <1>2, Within
<1>4. a = m * q + w
  <2>1. d * (e * q + s) = (d * e) * q + d * s
    BY <1>1, <1>2
  <2>2. (d * e) * q \in Nat /\ d * s \in Nat
    BY <1>1, <1>2
  <2> QED
    BY <1>1, <1>2, <2>1, <2>2
<1> HIDE DEF m, w
<1>5. a \div m = q
  BY <1>2, <1>3, <1>4, QuotientIs
<1> QED
  BY <1>5 DEF q, p, m

\* A fraction can be reduced.
LEMMA Reduced ==
  ASSUME NEW a \in Nat, NEW d \in Nat \ {0}, NEW e \in Nat \ {0}
  PROVE  (a * e) \div (d * e) = a \div d
<1> DEFINE q == a \div d
           r == a % d
           m == d * e
           w == r * e
           x == a * e
<1>1. q \in Nat /\ r \in 0..(d - 1) /\ a = d * q + r
  BY Quotient
<1> HIDE DEF q, r
<1>2. m \in Nat \ {0} /\ w \in 0..(m - 1)
  <2>1. e * r + 0 \in 0..(e * d - 1) /\ e * r = r * e /\ e * d = d * e
    BY <1>1, Within
  <2>2. d * e \in Nat \ {0}
    OBVIOUS
  <2> QED
    BY <1>1, <2>1, <2>2
<1>3. x = m * q + w
  <2>1. (d * q + r) * e = (d * e) * q + r * e
    BY <1>1
  <2> QED
    BY <1>1, <2>1
<1> HIDE DEF m, w, x
<1>4. x \div m = q
  BY <1>1, <1>2, <1>3, QuotientIs
<1> QED
  BY <1>4 DEF q, x, m

\* The (g * m + j)-th of rows of m is the j-th of row g.
LEMMA RowAndColumn ==
  ASSUME NEW per \in Nat, NEW m \in Nat
  PROVE  /\ \A n \in 1..(per * m) : (n - 1) \div m \in 0..(per - 1)
                                    /\ ((n - 1) % m) + 1 \in 1..m
         /\ \A g \in 0..(per - 1), j \in 1..m :
              \E n \in 1..(per * m) : (n - 1) \div m = g /\ ((n - 1) % m) + 1 = j
<1>1. ASSUME NEW n \in 1..(per * m)
      PROVE  (n - 1) \div m \in 0..(per - 1) /\ ((n - 1) % m) + 1 \in 1..m
  <2>1. m # 0 /\ per * m = m * per /\ per * m \in Nat
    <3>1. per * m \in Nat /\ per * m = m * per /\ (m = 0 => per * m = 0)
      OBVIOUS
    <3> DEFINE e == per * m
    <3>2. e \in Nat /\ n \in 1..e
      BY <3>1
    <3> HIDE DEF e
    <3>3. e # 0
      BY <3>2
    <3> QED
      BY <3>1, <3>3 DEF e
  <2>2. n - 1 \in Nat /\ n - 1 < m * per
    <3> DEFINE e == per * m
    <3>1. e \in Nat /\ n \in 1..e /\ e = m * per
      BY <2>1
    <3> HIDE DEF e
    <3>2. n - 1 \in Nat /\ n - 1 < e
      BY <3>1
    <3> QED
      BY <3>1, <3>2
  <2>3. (n - 1) \div m \in 0..(per - 1)
    BY <2>1, <2>2, QuotientBelow
  <2>4. (n - 1) % m \in 0..(m - 1)
    BY <2>1, <2>2, Quotient
  <2> QED
    BY <2>3, <2>4
<1>2. ASSUME NEW g \in 0..(per - 1), NEW j \in 1..m
      PROVE  \E n \in 1..(per * m) : (n - 1) \div m = g /\ ((n - 1) % m) + 1 = j
  <2> DEFINE a == m * g + (j - 1)
             e == per * m
  <2>1. j - 1 \in 0..(m - 1) /\ m \in Nat \ {0} /\ g \in Nat
    OBVIOUS
  <2>2. a \in 0..(m * per - 1) /\ m * per = e /\ e \in Nat
    <3>1. a \in 0..(m * per - 1)
      BY <2>1, Within
    <3>2. m * per = per * m /\ per * m \in Nat
      OBVIOUS
    <3> HIDE DEF a
    <3> QED
      BY <3>1, <3>2
  <2>3. a = m * g + (j - 1)
    OBVIOUS
  <2> HIDE DEF a, e
  <2> DEFINE r == j - 1
  <2>6. m \in Nat \ {0} /\ g \in Nat /\ r \in 0..(m - 1) /\ a = m * g + r
    BY <2>1, <2>3
  <2> HIDE DEF r
  <2>7. a \in Nat /\ a \div m = g /\ a % m = r
    BY <2>6, QuotientIs, Zenon
  <2>4. a \div m = g /\ a % m = j - 1 /\ a \in Nat
    BY <2>7 DEF r
  <2>5. a + 1 \in 1..e /\ (a + 1) - 1 = a /\ (a % m) + 1 = j
    BY <2>1, <2>2, <2>4
  <2> QED
    BY <2>4, <2>5 DEF e
<1> QED
  BY <1>1, <1>2

-----------------------------------------------------------------------------
(* Sizes *)

LEMMA Sizes ==
  ASSUME NEW k \in Config
  PROVE  /\ TpRatio(k) \in Int /\ TpRatio(k) # 0
         /\ HeadsOf(k, k.tp) \in Nat \ {0} /\ HeadsOf(k, k.remote_tp) \in Nat \ {0}
         /\ KvLen(k) \in Nat \ {0} /\ RemoteKvLen(k) \in Nat \ {0}
         /\ KvLen(k) \div k.ratio \in Nat \ {0}
         /\ KvLen(k) = k.ratio * (KvLen(k) \div k.ratio)
         /\ LocalNum(k) \in Nat /\ RemoteNum(k) \in Nat
         /\ LocalNum(k) \div k.ratio = k.local_blocks * k.physical
         /\ LocalNum(k) = k.ratio * (k.local_blocks * k.physical)
<1>1. /\ k.heads \in Nat \ {0} /\ k.tp \in Nat \ {0} /\ k.remote_tp \in Nat \ {0}
      /\ k.ratio \in Nat \ {0} /\ k.tokens \in Nat \ {0} /\ k.physical \in Nat \ {0}
      /\ k.local_blocks \in Nat /\ k.remote_blocks \in Nat
  BY DEF Config
<1>2. ASSUME NEW a \in Nat \ {0}, NEW d \in Nat \ {0}, d <= a
      PROVE  a \div d \in Nat \ {0}
  <2>1. a \div d \in Nat /\ a % d \in 0..(d - 1) /\ a = d * (a \div d) + (a % d)
    BY Quotient
  <2>2. a \div d # 0
    BY <1>2, <2>1
  <2> QED
    BY <2>1, <2>2
<1>3. TpRatio(k) \in Int /\ TpRatio(k) # 0
  <2>1. CASE k.tp >= k.remote_tp
    <3>1. k.tp \div k.remote_tp \in Nat \ {0}
      BY <1>1, <1>2, <2>1
    <3> QED
      BY <2>1, <3>1 DEF TpRatio
  <2>2. CASE ~(k.tp >= k.remote_tp)
    <3>1. k.remote_tp \div k.tp \in Nat \ {0}
      BY <1>1, <1>2, <2>2
    <3> QED
      BY <2>2, <3>1 DEF TpRatio
  <2> QED
    BY <2>1, <2>2
<1>4. ASSUME NEW t \in Nat \ {0} PROVE HeadsOf(k, t) \in Nat \ {0}
  <2>1. CASE k.mla \/ t >= k.heads
    BY <2>1 DEF HeadsOf
  <2>2. CASE ~(k.mla \/ t >= k.heads)
    <3>1. k.heads \div t \in Nat \ {0}
      BY <1>1, <1>2, <2>2
    <3> QED
      BY <2>2, <3>1 DEF HeadsOf
  <2> QED
    BY <2>1, <2>2
<1>5. HeadsOf(k, k.tp) \in Nat \ {0} /\ HeadsOf(k, k.remote_tp) \in Nat \ {0}
  BY <1>1, <1>4
<1>6. ASSUME NEW a \in Nat \ {0}, NEW b \in Nat \ {0} PROVE a * b \in Nat \ {0}
  BY <1>6
<1>7. RemoteKvLen(k) \in Nat \ {0}
  BY <1>1, <1>5, <1>6 DEF RemoteKvLen
<1> DEFINE u == HeadsOf(k, k.tp) * k.tokens
<1>8. u \in Nat \ {0}
  BY <1>1, <1>5, <1>6
<1>9. KvLen(k) = u * k.ratio
  BY DEF KvLen
<1> HIDE DEF u
<1>10. KvLen(k) \in Nat \ {0} /\ KvLen(k) = k.ratio * u
  BY <1>1, <1>6, <1>8, <1>9
<1>11. KvLen(k) \div k.ratio = u
  <2>1. 0 \in 0..(k.ratio - 1) /\ KvLen(k) = k.ratio * u + 0
    BY <1>1, <1>8, <1>10
  <2> QED
    BY <1>1, <1>8, <2>1, QuotientIs
<1> DEFINE v == k.local_blocks * k.physical
<1>12. v \in Nat /\ k.remote_blocks * k.physical \in Nat
  BY <1>1
<1>13. LocalNum(k) = v * k.ratio
  BY DEF LocalNum
<1> HIDE DEF v
<1>14. LocalNum(k) \in Nat /\ LocalNum(k) = k.ratio * v
  BY <1>1, <1>12, <1>13
<1>15. LocalNum(k) \div k.ratio = v
  <2>1. 0 \in 0..(k.ratio - 1) /\ LocalNum(k) = k.ratio * v + 0
    BY <1>1, <1>12, <1>14
  <2> QED
    BY <1>1, <1>12, <2>1, QuotientIs
<1> QED
  BY <1>3, <1>5, <1>7, <1>8, <1>10, <1>11, <1>12, <1>14, <1>15 DEF v, RemoteNum

-----------------------------------------------------------------------------
(* Descriptors *)

\* K and V of a block are two parts of one base, or have a base each.
Parts(k) == IF k.blocks_first THEN 2 ELSE 1

Unit(k) == KvLen(k) \div k.ratio

LEMMA LocalDescsAre ==
  ASSUME NEW k
  PROVE  LocalDescs(k) =
           [d \in 0..(NumBases(k) * Parts(k) * LocalNum(k) - 1) |->
              Desc(d \div (Parts(k) * LocalNum(k)),
                   (d % LocalNum(k)) * (BlockLen(k) \div k.ratio)
                     + ((d \div LocalNum(k)) % Parts(k)) * Unit(k),
                   Unit(k))]
BY DEF LocalDescs, DescList, Parts, Unit

RemoteLen(k) ==
  IF TpRatio(k) < 0 /\ ~k.mla THEN Unit(k) \div (-TpRatio(k)) ELSE Unit(k)

LEMMA RemoteDescsAre ==
  ASSUME NEW k
  PROVE  RemoteDescs(k) =
           [d \in 0..(NumBases(k) * Parts(k) * RemoteNum(k) - 1) |->
              Desc(d \div (Parts(k) * RemoteNum(k)),
                   (d % RemoteNum(k)) * RemoteBlockLen(k) + RankOffset(k)
                     + ((d \div RemoteNum(k)) % Parts(k)) * (RemoteBlockLen(k) \div 2),
                   RemoteLen(k))]
BY DEF RemoteDescs, DescList, Parts, Unit, RemoteLen

\* Configurations of which BlockMap speaks, once the worker accepted the producer.
Accepted(k) ==
  /\ k \in Config /\ ValidHandshake(k)
  /\ k.blocks_first => k.ratio = 1 /\ ~k.mla

\* What the checks of the handshake say of the lengths.
LEMMA AcceptedLengths ==
  ASSUME NEW k, Accepted(k)
  PROVE  LET n == -TpRatio(k)
             u == Unit(k)
         IN  /\ RemoteLen(k) \in Nat \ {0}
             /\ RankOffset(k) \in Nat /\ RankOffset(k) + RemoteLen(k) <= RemoteKvLen(k)
             /\ TpRatio(k) < 0 /\ ~k.mla =>
                  /\ k.ratio = 1 /\ n \in Nat \ {0} /\ RemoteLen(k) = u \div n
                  /\ n * RemoteLen(k) <= u
             /\ TpRatio(k) > 0 /\ ~k.mla /\ ~IsKvReplicated(k) =>
                  RemoteKvLen(k) = u * TpRatio(k)
<1> DEFINE n == -TpRatio(k)
           u == Unit(k)
           t == TpRatio(k)
           kv == KvLen(k)
           rkv == RemoteKvLen(k)
<1>1. /\ u \in Nat \ {0} /\ kv = k.ratio * u /\ kv \in Nat \ {0} /\ rkv \in Nat \ {0}
      /\ t \in Int /\ t # 0 /\ n = -t
  BY Sizes DEF Accepted, Unit
<1>2. k.ratio \in Nat \ {0} /\ k.tp_rank \in Nat /\ k.mla \in BOOLEAN /\ k.blocks_first \in BOOLEAN
  BY DEF Accepted, Config
<1>3. /\ BlockLen(k) = IF k.blocks_first THEN 2 * kv ELSE kv
      /\ RemoteBlockLen(k) = IF k.blocks_first THEN 2 * rkv ELSE rkv
  BY DEF BlockLen, RemoteBlockLen
<1>4. k.blocks_first => k.ratio = 1 /\ kv = u
  BY <1>1, <1>2 DEF Accepted
<1>5. BlockLen(k) \div k.ratio = IF k.blocks_first THEN 2 * u ELSE u
  <2>1. CASE k.blocks_first
    BY <1>1, <1>3, <1>4, <2>1
  <2>2. CASE ~k.blocks_first
    BY <1>3, <2>2 DEF Unit
  <2> QED
    BY <2>1, <2>2
<1>6. CASE k.mla \/ IsKvReplicated(k)
  <2>1. ~(t < 0 /\ ~k.mla) /\ BlockLen(k) \div k.ratio = RemoteBlockLen(k)
    BY <1>6 DEF Accepted, ValidHandshake
  <2>2. u = rkv
    <3> HIDE DEF u, rkv, kv, t, n
    <3> QED
      BY <1>1, <1>2, <1>3, <1>5, <2>1
  <2>3. RemoteLen(k) = u /\ RankOffset(k) = 0
    BY <1>6, <2>1 DEF RemoteLen, RankOffset
  <2> HIDE DEF n, u, t, kv, rkv
  <2> QED
    BY <1>1, <1>6, <2>1, <2>2, <2>3 DEF n, u, t, rkv
<1>7. CASE ~k.mla /\ ~IsKvReplicated(k) /\ t > 0
  <2>1. RemoteBlockLen(k) = (BlockLen(k) * t) \div k.ratio
    BY <1>1, <1>7 DEF Accepted, ValidHandshake
  <2>2. rkv = u * t
    <3> HIDE DEF u, t, kv, rkv
    <3>1. CASE k.blocks_first
      <4>1. 2 * rkv = (2 * u) * t
        <5>1. (2 * kv) * t \in Nat
          BY <1>1, <1>7
        <5>2. RemoteBlockLen(k) = (2 * kv) * t
          BY <1>2, <1>3, <1>4, <2>1, <3>1, <5>1
        <5> QED
          BY <1>3, <1>4, <3>1, <5>2
      <4>2. (2 * u) * t = 2 * (u * t) /\ u * t \in Nat
        BY <1>1, <1>7
      <4> QED
        BY <1>1, <4>1, <4>2
    <3>2. CASE ~k.blocks_first
      <4>1. u * t \in Nat /\ kv * t = k.ratio * (u * t) + 0 /\ 0 \in 0..(k.ratio - 1)
        BY <1>1, <1>2, <1>7
      <4>2. (kv * t) \div k.ratio = u * t
        BY <1>2, <4>1, QuotientIs
      <4> QED
        BY <1>3, <2>1, <3>2, <4>2
    <3> QED
      BY <3>1, <3>2
  <2>3. RemoteLen(k) = u /\ RankOffset(k) = (k.tp_rank % t) * u
    BY <1>1, <1>7 DEF RemoteLen, RankOffset, Unit
  <2> HIDE DEF n, u, t, kv, rkv
  <2>4. PICK s \in 0..(t - 1) : s = k.tp_rank % t
    BY <1>1, <1>2, <1>7, Quotient
  <2>5. /\ u * s + (u - 1) \in 0..(u * t - 1) /\ u * s \in Nat /\ s * u = u * s
        /\ u - 1 \in 0..(u - 1) /\ t \in Nat
    <3>1. u - 1 \in 0..(u - 1) /\ t \in Nat
      BY <1>1, <1>7
    <3> QED
      BY <1>1, <2>4, <3>1, Within
  <2>6. RankOffset(k) = u * s
    BY <2>3, <2>4, <2>5
  <2>7. RankOffset(k) \in Nat /\ RankOffset(k) + RemoteLen(k) <= rkv
    BY <1>1, <2>2, <2>3, <2>5, <2>6
  <2> QED
    BY <1>1, <1>7, <2>2, <2>3, <2>7 DEF n, u, t, rkv
<1>8. CASE ~k.mla /\ ~IsKvReplicated(k) /\ t < 0
  <2>1. RemoteBlockLen(k) = BlockLen(k) \div n /\ k.ratio = 1
    BY <1>1, <1>8 DEF Accepted, ValidHandshake
  <2>2. RemoteLen(k) = u \div n /\ RankOffset(k) = 0 /\ n \in Nat \ {0} /\ kv = u
    BY <1>1, <1>8, <2>1 DEF RemoteLen, RankOffset
  <2> HIDE DEF n, u, t, kv, rkv
  <2> DEFINE q == u \div n
             r == u % n
  <2>3. q \in Nat /\ r \in 0..(n - 1) /\ u = n * q + r
    BY <1>1, <2>2, Quotient
  <2> HIDE DEF q, r
  <2>4. n * q \in Nat /\ n * q <= u
    BY <2>2, <2>3
  <2>5. q <= rkv /\ q # 0
    <3>1. CASE k.blocks_first
      <4>1. 2 * rkv = (2 * u) \div n
        BY <1>3, <2>1, <2>2, <3>1
      <4>2. /\ 2 * u \in Nat /\ 2 * u = n * (2 * rkv) + ((2 * u) % n)
            /\ (2 * u) % n \in 0..(n - 1)
        <5>1. 2 * u \in Nat
          BY <1>1
        <5>2. /\ 2 * u = n * ((2 * u) \div n) + ((2 * u) % n)
              /\ (2 * u) % n \in 0..(n - 1)
          BY <2>2, <5>1, Quotient
        <5> QED
          BY <4>1, <5>1, <5>2
      <4>3. ~(2 * rkv + 1 <= 2 * q)
        <5> SUFFICES ASSUME 2 * rkv + 1 <= 2 * q PROVE FALSE
          OBVIOUS
        <5>1. /\ n * (2 * rkv + 1) <= n * (2 * q) /\ n * (2 * q) = 2 * (n * q)
              /\ n * (2 * rkv + 1) = n * (2 * rkv) + n
          BY <1>1, <2>2, <2>3, Grows
        <5> QED
          BY <1>1, <2>2, <2>4, <4>2, <5>1
      <4>4. q # 0
        <5> SUFFICES ASSUME q = 0 PROVE FALSE
          OBVIOUS
        <5>1. u < n
          BY <2>2, <2>3
        <5>2. n * (2 * rkv) < n * 2
          BY <1>1, <2>2, <4>2, <5>1
        <5>3. n * 2 <= n * (2 * rkv)
          BY <1>1, <2>2, Grows
        <5> QED
          BY <1>1, <2>2, <5>2, <5>3
      <4> QED
        BY <1>1, <2>3, <4>3, <4>4
    <3>2. CASE ~k.blocks_first
      BY <1>1, <1>3, <2>1, <2>2, <2>3, <3>2 DEF q
    <3> QED
      BY <3>1, <3>2
  <2>6. RemoteLen(k) = q
    BY <2>2 DEF q
  <2> QED
    BY <1>1, <1>8, <2>1, <2>2, <2>3, <2>4, <2>5, <2>6 DEF n, u, t, rkv, q
<1> QED
  BY <1>1, <1>6, <1>7, <1>8

LEMMA BlockLens ==
  ASSUME NEW k, Accepted(k)
  PROVE  /\ BlockLen(k) = IF k.blocks_first THEN 2 * KvLen(k) ELSE KvLen(k)
         /\ RemoteBlockLen(k) = IF k.blocks_first THEN 2 * RemoteKvLen(k)
                                ELSE RemoteKvLen(k)
         /\ BlockLen(k) \div k.ratio = IF k.blocks_first THEN 2 * Unit(k) ELSE Unit(k)
         /\ KvLen(k) \in Nat \ {0} /\ RemoteKvLen(k) \in Nat \ {0} /\ Unit(k) \in Nat \ {0}
         /\ k.ratio \in Nat \ {0} /\ KvLen(k) = k.ratio * Unit(k)
         /\ k.blocks_first => k.ratio = 1
         /\ k.blocks_first \in BOOLEAN
<1>1. /\ KvLen(k) \in Nat \ {0} /\ RemoteKvLen(k) \in Nat \ {0} /\ Unit(k) \in Nat \ {0}
      /\ k.ratio \in Nat \ {0} /\ KvLen(k) = k.ratio * Unit(k)
      /\ k.blocks_first \in BOOLEAN
  BY Sizes DEF Accepted, Unit, Config
<1>2. /\ BlockLen(k) = IF k.blocks_first THEN 2 * KvLen(k) ELSE KvLen(k)
      /\ RemoteBlockLen(k) = IF k.blocks_first THEN 2 * RemoteKvLen(k) ELSE RemoteKvLen(k)
  BY DEF BlockLen, RemoteBlockLen
<1>3. k.blocks_first => k.ratio = 1
  BY DEF Accepted
<1>4. BlockLen(k) \div k.ratio = IF k.blocks_first THEN 2 * Unit(k) ELSE Unit(k)
  <2>1. CASE k.blocks_first
    BY <1>1, <1>2, <1>3, <2>1
  <2>2. CASE ~k.blocks_first
    BY <1>2, <2>2 DEF Unit
  <2> QED
    BY <2>1, <2>2
<1> QED
  BY <1>1, <1>2, <1>3, <1>4

\* The n-th descriptor of a list is of a block and of one of its parts.
LEMMA DescIndex ==
  ASSUME NEW bases \in Nat, NEW parts \in Nat \ {0}, NEW blocks \in Nat,
         NEW d \in 0..(bases * parts * blocks - 1)
  PROVE  /\ blocks # 0 /\ d % blocks \in 0..(blocks - 1)
         /\ (d \div blocks) % parts \in 0..(parts - 1)
         /\ 0 \in 0..(bases * parts * blocks - 1)
<1>1. bases * parts \in Nat
  OBVIOUS
<1>2. blocks # 0
  <2> SUFFICES ASSUME blocks = 0 PROVE FALSE
    OBVIOUS
  <2>1. bases * parts * blocks = 0
    BY <1>1
  <2> QED
    BY <2>1
<1>3. d \in Nat /\ d \div blocks \in Nat /\ d % blocks \in 0..(blocks - 1)
  <2>1. d \in Nat
    OBVIOUS
  <2> QED
    BY <1>2, <2>1, Quotient
<1>4. (d \div blocks) % parts \in 0..(parts - 1)
  BY <1>3, Quotient
<1>5. 0 \in 0..(bases * parts * blocks - 1)
  <2> DEFINE m == bases * parts * blocks
  <2>1. m \in Int /\ d \in 0..(m - 1)
    BY <1>1
  <2> HIDE DEF m
  <2>2. 0 \in 0..(m - 1)
    BY <2>1
  <2> QED
    BY <2>2 DEF m
<1> QED
  BY <1>2, <1>3, <1>4, <1>5

LEMMA BasesAndParts ==
  ASSUME NEW k \in Config
  PROVE  NumBases(k) \in Nat /\ Parts(k) \in {1, 2} /\ (~k.blocks_first => Parts(k) = 1)
BY DEF NumBases, Parts, Config

LEMMA RemoteDescFits ==
  ASSUME NEW k, Accepted(k), NEW d \in DOMAIN RemoteDescs(k)
  PROVE  LET x == RemoteDescs(k)[d]
         IN  /\ x.len = RemoteLen(k) /\ RemoteDescs(k)[0].len = RemoteLen(k)
             /\ (x.off % RemoteKvLen(k)) + x.len <= RemoteKvLen(k)
             /\ x.off \div RemoteBlockLen(k) < RemoteNum(k)
<1> DEFINE x == RemoteDescs(k)[d]
           b == d % RemoteNum(k)
           p == (d \div RemoteNum(k)) % Parts(k)
           rkv == RemoteKvLen(k)
           off == RankOffset(k)
           len == RemoteLen(k)
<1>1. k \in Config /\ RemoteNum(k) \in Nat
  BY Sizes DEF Accepted
<1>2. NumBases(k) \in Nat /\ Parts(k) \in {1, 2} /\ (~k.blocks_first => Parts(k) = 1)
  BY <1>1, BasesAndParts
<1>3. d \in 0..(NumBases(k) * Parts(k) * RemoteNum(k) - 1)
  BY RemoteDescsAre
<1>4. /\ b \in 0..(RemoteNum(k) - 1) /\ p \in 0..(Parts(k) - 1)
      /\ 0 \in 0..(NumBases(k) * Parts(k) * RemoteNum(k) - 1)
  BY <1>1, <1>2, <1>3, DescIndex
<1>5. /\ x.len = len /\ RemoteDescs(k)[0].len = len
      /\ x.off = b * RemoteBlockLen(k) + off + p * (RemoteBlockLen(k) \div 2)
  BY <1>3, <1>4, RemoteDescsAre DEF Desc
<1>6. /\ RemoteBlockLen(k) = IF k.blocks_first THEN 2 * rkv ELSE rkv
      /\ rkv \in Nat \ {0}
  BY BlockLens
<1>7. len \in Nat \ {0} /\ off \in Nat /\ off + len <= rkv
  BY AcceptedLengths
<1> HIDE DEF x, b, p, rkv, off, len
<1>8. off \in 0..(rkv - 1)
  BY <1>6, <1>7
<1>9. CASE k.blocks_first
  <2>1. RemoteBlockLen(k) \div 2 = rkv /\ p \in 0..1 /\ b \in Nat
    BY <1>2, <1>4, <1>6, <1>9
  <2>2. x.off = b * (2 * rkv) + off + p * rkv
    BY <1>5, <1>6, <1>9, <2>1
  <2>3. x.off = rkv * (2 * b + p) + off /\ 2 * b + p \in Nat
    BY <1>6, <1>7, <2>1, <2>2
  <2>4. x.off % rkv = off
    BY <1>6, <1>8, <2>3, QuotientIs
  <2>5. p * rkv + off \in 0..(2 * rkv - 1)
    BY <1>6, <1>8, <2>1
  <2>6. x.off = (2 * rkv) * b + (p * rkv + off)
    BY <1>6, <1>7, <2>1, <2>2
  <2>7. x.off \div (2 * rkv) = b
    BY <1>6, <2>1, <2>5, <2>6, QuotientIs
  <2> QED
    BY <1>1, <1>4, <1>5, <1>6, <1>7, <1>9, <2>4, <2>7 DEF x, rkv, len
<1>10. CASE ~k.blocks_first
  <2>1. p = 0 /\ b \in Nat
    BY <1>2, <1>4, <1>10
  <2>2. RemoteBlockLen(k) \div 2 \in Nat
    BY <1>6, <1>10
  <2>3. x.off = b * rkv + off
    BY <1>5, <1>6, <1>7, <1>10, <2>1, <2>2
  <2>4. x.off = rkv * b + off
    BY <1>6, <1>7, <2>1, <2>3
  <2>5. x.off % rkv = off /\ x.off \div rkv = b
    BY <1>6, <1>8, <2>1, <2>4, QuotientIs
  <2> QED
    BY <1>1, <1>4, <1>5, <1>6, <1>7, <1>10, <2>5 DEF x, rkv, len
<1> QED
  BY <1>9, <1>10

\* How many producer ranks a worker's own blocks are cut for.
LEMMA RanksReadOfSplit ==
  ASSUME Accepted(c), TpRatio(c) < 0, ~c.mla
  PROVE  RanksRead = -TpRatio(c)
<1>1. TpRatio(c) \in Int /\ c.tp_rank \in Nat
  BY Sizes DEF Accepted, Config
<1> DEFINE f == [i \in 1..(-TpRatio(c)) |-> c.tp_rank * (-TpRatio(c)) + i - 1]
<1>2. TargetRemoteRanks(c) = f /\ RanksRead = Len(TargetRemoteRanks(c))
  BY <1>1 DEF TargetRemoteRanks, RanksRead
<1>3. -TpRatio(c) \in Nat
  BY <1>1
<1>4. f \in [1..(-TpRatio(c)) -> Int]
  BY <1>1, <1>3
<1>5. f \in Seq(Int)
  BY <1>3, <1>4, SeqDef
<1>6. Len(f) = -TpRatio(c)
  BY <1>3, <1>5, LenProperties
<1> QED
  BY <1>2, <1>6

\* A descriptor of the worker's own memory: w cells into K or V, v into its block.
LEMMA SourceDesc ==
  ASSUME Accepted(c), NEW i \in 0..(RanksRead - 1), NEW d \in DOMAIN SourceDescs(c, i)
  PROVE  LET x == SourceDescs(c, i)[d]
             b == d % LocalNum(c)
         IN  /\ b \in 0..(LocalNum(c) - 1) /\ x.len = RemoteLen(c)
             /\ \E m, w \in Nat : x.off = KvLen(c) * m + w /\ w + x.len <= KvLen(c)
             /\ \E v \in Nat : /\ x.off = BlockLen(c) * (b \div c.ratio) + v
                               /\ v + x.len <= BlockLen(c)
<1> DEFINE x == SourceDescs(c, i)[d]
           y == LocalDescs(c)[d]
           b == d % LocalNum(c)
           p == (d \div LocalNum(c)) % Parts(c)
           u == Unit(c)
           kv == KvLen(c)
           len == RemoteLen(c)
           start == x.off - y.off
<1>1. c \in Config /\ LocalNum(c) \in Nat /\ TpRatio(c) \in Int
  BY Sizes DEF Accepted
<1>2. NumBases(c) \in Nat /\ Parts(c) \in {1, 2} /\ (~c.blocks_first => Parts(c) = 1)
  BY <1>1, BasesAndParts
<1>3. d \in 0..(NumBases(c) * Parts(c) * LocalNum(c) - 1) /\ d \in DOMAIN LocalDescs(c)
  <2>1. d \in DOMAIN LocalDescs(c)
    BY DEF SourceDescs, SplitDescs
  <2> QED
    BY <2>1, LocalDescsAre
<1>4. b \in 0..(LocalNum(c) - 1) /\ p \in 0..(Parts(c) - 1)
  BY <1>1, <1>2, <1>3, DescIndex
<1>5. y.len = u /\ y.off = b * (BlockLen(c) \div c.ratio) + p * u
  BY <1>3, LocalDescsAre DEF Desc
<1>6. /\ u \in Nat \ {0} /\ kv \in Nat \ {0} /\ c.ratio \in Nat \ {0} /\ kv = c.ratio * u
      /\ c.blocks_first => c.ratio = 1
      /\ BlockLen(c) = IF c.blocks_first THEN 2 * kv ELSE kv
      /\ BlockLen(c) \div c.ratio = IF c.blocks_first THEN 2 * u ELSE u
  BY BlockLens
<1>7. y.off \in Nat
  <2> HIDE DEF y, b, p, u, kv
  <2>1. b \in Nat /\ p \in Nat /\ BlockLen(c) \div c.ratio \in Nat
    BY <1>2, <1>4, <1>6
  <2> QED
    BY <1>5, <1>6, <2>1
<1>8. PICK s \in Nat : x.off = y.off + s /\ x.len = len /\ s + len <= u /\ len \in Nat \ {0}
  <2>1. CASE TpRatio(c) < 0 /\ ~c.mla
    <3>1. /\ SourceDescs(c, i)[d] = Desc(y.base, y.off + i * (y.len \div (-TpRatio(c))),
                                         y.len \div (-TpRatio(c)))
      BY <1>3, <2>1 DEF SourceDescs, SplitDescs
    <3>2. /\ len \in Nat \ {0} /\ -TpRatio(c) \in Nat \ {0} /\ len = u \div (-TpRatio(c))
          /\ (-TpRatio(c)) * len <= u
      BY <2>1, AcceptedLengths
    <3>3. x.len = len /\ x.off = y.off + i * len
      BY <1>5, <3>1, <3>2 DEF Desc
    <3>4. RanksRead = -TpRatio(c)
      BY <2>1, RanksReadOfSplit
    <3> HIDE DEF x, y, u, len
    <3>5. i + 1 <= -TpRatio(c) /\ i \in Nat /\ i * len \in Nat
      BY <1>1, <3>2, <3>4
    <3>6. len * (i + 1) <= len * (-TpRatio(c))
      BY <1>1, <3>2, <3>5, Grows
    <3>7. i * len + len <= u
      BY <1>1, <1>6, <3>2, <3>5, <3>6
    <3> QED
      BY <3>2, <3>3, <3>5, <3>7
  <2>2. CASE ~(TpRatio(c) < 0 /\ ~c.mla)
    <3>1. x = y /\ len = u
      BY <2>2 DEF SourceDescs, RemoteLen
    <3> HIDE DEF x, y, len, u
    <3> QED
      BY <1>5, <1>6, <1>7, <3>1
  <2> QED
    BY <2>1, <2>2
<1> HIDE DEF x, y, b, p, u, kv, len
<1>9. CASE c.blocks_first
  <2>1. p \in 0..1 /\ b \in Nat /\ c.ratio = 1 /\ kv = u /\ b \div c.ratio = b
    BY <1>2, <1>4, <1>6, <1>9
  <2>2. x.off = (b * (2 * kv) + p * kv) + s
    BY <1>5, <1>6, <1>8, <1>9, <2>1
  <2>3. x.off = kv * (2 * b + p) + s /\ 2 * b + p \in Nat /\ s + x.len <= kv
    BY <1>6, <1>8, <2>1, <2>2
  <2>4. /\ x.off = (2 * kv) * b + (p * kv + s) /\ p * kv + s \in Nat
        /\ (p * kv + s) + x.len <= 2 * kv
    BY <1>6, <1>8, <2>1, <2>2
  <2> QED
    BY <1>4, <1>6, <1>8, <1>9, <2>1, <2>3, <2>4 DEF x, b, kv, len
<1>10. CASE ~c.blocks_first
  <2>1. p = 0 /\ b \in Nat
    BY <1>2, <1>4, <1>10
  <2>2. x.off = b * u + s
    BY <1>5, <1>6, <1>8, <1>10, <2>1
  <2> DEFINE q == b \div c.ratio
             r == b % c.ratio
  <2>3. q \in Nat /\ r \in 0..(c.ratio - 1) /\ b = c.ratio * q + r
    BY <1>6, <2>1, Quotient
  <2> HIDE DEF q, r
  <2>4. b * u = kv * q + r * u
    <3>1. b * u = (c.ratio * q + r) * u
      BY <2>3
    <3>2. (c.ratio * q + r) * u = (c.ratio * u) * q + r * u
      BY <1>6, <2>3
    <3> QED
      BY <1>6, <3>1, <3>2
  <2>5. r * u \in Nat /\ r * u + u <= kv
    <3>1. u * (r + 1) <= u * c.ratio
      BY <1>6, <2>3, Grows
    <3> QED
      BY <1>6, <2>3, <3>1
  <2>6. /\ x.off = kv * q + (r * u + s) /\ r * u + s \in Nat
        /\ (r * u + s) + x.len <= kv
    <3>1. kv * q \in Nat
      BY <1>6, <2>3
    <3> QED
      BY <1>6, <1>8, <2>2, <2>4, <2>5, <3>1
  <2> QED
    BY <1>4, <1>6, <1>8, <1>10, <2>3, <2>6 DEF x, b, kv, len, q
<1> QED
  BY <1>9, <1>10

-----------------------------------------------------------------------------
(* The descriptors fit *)

AcceptInv ==
  /\ c \in Configs /\ c.remote_blocks >= 1
  /\ pc \notin {"handshake", "refused"} => ValidHandshake(c)

LEMMA ConfigsAre ==
  ASSUME NEW k \in Configs
  PROVE  k \in Config /\ (k.blocks_first => k.ratio = 1 /\ ~k.mla)
BY BlockMapAssumption

\* _validate_remote_agent_handshake comes before every read.
LEMMA AcceptInvariant == Spec => []AcceptInv
<1>1. Init => AcceptInv
  <2> SUFFICES ASSUME Init PROVE AcceptInv
    OBVIOUS
  <2>1. c \in Configs /\ pc = "handshake" /\ 1..c.remote_blocks # {}
    BY DEF Init
  <2>2. c.remote_blocks \in Nat
    BY <2>1, ConfigsAre DEF Config
  <2> QED
    BY <2>1, <2>2 DEF AcceptInv
<1>2. AcceptInv /\ [Next]_vars => AcceptInv'
  BY DEF AcceptInv, Next, Handshake, MapLocal, NotifyOnly, TrimRemote, Post, tables, vars
<1> QED
  BY <1>1, <1>2, PTL DEF Spec

\* Whatever the two engines, once the assertions of the handshake have passed no
\* descriptor crosses K or V of a block on either side, and any two that can be
\* paired have one length: nothing else need be checked before a read.
THEOREM DescriptorsAlwaysFit == Spec => []DescriptorsFit
<1>1. AcceptInv => DescriptorsFit
  <2> SUFFICES ASSUME AcceptInv, pc \notin {"handshake", "refused"} PROVE DescriptorsFit
    BY DEF DescriptorsFit
  <2>1. Accepted(c) /\ c \in Config /\ c.remote_blocks \in Nat \ {0}
    <3>1. c \in Config /\ c.remote_blocks >= 1
      BY ConfigsAre DEF AcceptInv
    <3>2. Accepted(c)
      BY ConfigsAre DEF AcceptInv, Accepted
    <3> QED
      BY <3>1, <3>2 DEF Config
  <2>2. ASSUME NEW d \in DOMAIN RemoteDescs(c)
        PROVE  LET x == RemoteDescs(c)[d]
               IN  /\ x.len = RemoteDescs(c)[0].len
                   /\ (x.off % RemoteKvLen(c)) + x.len <= RemoteKvLen(c)
                   /\ x.off \div RemoteBlockLen(c) < RemoteNum(c)
    BY <2>1, RemoteDescFits
  <2>3. ASSUME NEW i \in 0..(RanksRead - 1), NEW d \in DOMAIN SourceDescs(c, i)
        PROVE  LET x == SourceDescs(c, i)[d]
               IN  /\ x.len = RemoteDescs(c)[0].len
                   /\ (x.off % KvLen(c)) + x.len <= KvLen(c)
                   /\ x.off \div BlockLen(c) < LocalNum(c) \div c.ratio
    <3> DEFINE x == SourceDescs(c, i)[d]
               b == d % LocalNum(c)
    <3>1. /\ b \in 0..(LocalNum(c) - 1) /\ x.len = RemoteLen(c)
          /\ \E m, w \in Nat : x.off = KvLen(c) * m + w /\ w + x.len <= KvLen(c)
          /\ \E v \in Nat : /\ x.off = BlockLen(c) * (b \div c.ratio) + v
                            /\ v + x.len <= BlockLen(c)
      BY <2>1, SourceDesc
    <3>2. RemoteLen(c) \in Nat \ {0}
      BY <2>1, AcceptedLengths
    <3>3. RemoteDescs(c)[0].len = RemoteLen(c)
      <4>1. d \in 0..(NumBases(c) * Parts(c) * LocalNum(c) - 1)
        <5>1. d \in DOMAIN LocalDescs(c)
          BY DEF SourceDescs, SplitDescs
        <5> QED
          BY <5>1, LocalDescsAre
      <4>2. NumBases(c) \in Nat /\ Parts(c) \in Nat \ {0}
        BY <2>1, BasesAndParts
      <4>3. NumBases(c) # 0
        <5> SUFFICES ASSUME NumBases(c) = 0 PROVE FALSE
          OBVIOUS
        <5>1. NumBases(c) * Parts(c) = 0 /\ LocalNum(c) \in Nat
          BY <2>1, <4>2, Sizes
        <5>2. NumBases(c) * Parts(c) * LocalNum(c) = 0
          BY <5>1
        <5> QED
          BY <4>1, <5>2
      <4>4. RemoteNum(c) \in Nat \ {0}
        <5>1. c.physical \in Nat \ {0}
          BY <2>1 DEF Config
        <5> QED
          BY <2>1, <5>1 DEF RemoteNum
      <4>5. 0 \in 0..(NumBases(c) * Parts(c) * RemoteNum(c) - 1)
        <5>1. NumBases(c) * Parts(c) \in Nat \ {0}
          BY <4>2, <4>3
        <5>2. NumBases(c) * Parts(c) * RemoteNum(c) \in Nat \ {0}
          BY <4>4, <5>1
        <5> QED
          BY <5>2
      <4> QED
        BY <4>5, RemoteDescsAre DEF Desc
    <3>4. /\ KvLen(c) \in Nat \ {0} /\ BlockLen(c) \in Nat \ {0}
          /\ c.ratio \in Nat \ {0}
      BY <2>1, BlockLens
    <3> HIDE DEF x, b
    <3>8. x.len \in Nat \ {0} /\ b \in Nat /\ b < LocalNum(c) /\ LocalNum(c) \in Nat
      <4>1. x.len = RemoteLen(c) /\ b \in 0..(LocalNum(c) - 1) /\ LocalNum(c) \in Nat
        BY <2>1, <3>1, Sizes
      <4> QED
        BY <3>2, <4>1
    <3>5. (x.off % KvLen(c)) + x.len <= KvLen(c)
      <4>1. PICK m \in Nat, w \in Nat : x.off = KvLen(c) * m + w /\ w + x.len <= KvLen(c)
        BY <3>1
      <4>2. w \in 0..(KvLen(c) - 1)
        BY <3>4, <3>8, <4>1
      <4>3. x.off % KvLen(c) = w
        BY <3>4, <4>1, <4>2, QuotientIs
      <4> QED
        BY <4>1, <4>3
    <3>6. x.off \div BlockLen(c) = b \div c.ratio
      <4>1. PICK v \in Nat : /\ x.off = BlockLen(c) * (b \div c.ratio) + v
                             /\ v + x.len <= BlockLen(c)
        BY <3>1
      <4>2. v \in 0..(BlockLen(c) - 1)
        BY <3>4, <3>8, <4>1
      <4>3. b \div c.ratio \in Nat
        BY <3>4, <3>8, Quotient
      <4> QED
        BY <3>4, <4>1, <4>2, <4>3, QuotientIs
    <3>7. b \div c.ratio < LocalNum(c) \div c.ratio
      <4> DEFINE v == c.local_blocks * c.physical
      <4>1. /\ v \in Nat /\ LocalNum(c) = c.ratio * v /\ LocalNum(c) \div c.ratio = v
        <5>1. c.local_blocks \in Nat /\ c.physical \in Nat
          BY <2>1 DEF Config
        <5> QED
          BY <2>1, <5>1, Sizes
      <4> HIDE DEF v
      <4>2. b \in Nat /\ b < c.ratio * v
        BY <3>8, <4>1
      <4>3. b \div c.ratio \in 0..(v - 1)
        BY <3>4, <4>1, <4>2, QuotientBelow
      <4> QED
        BY <4>1, <4>3
    <3> QED
      BY <3>1, <3>3, <3>5, <3>6, <3>7 DEF x
  <2> QED
    BY <2>2, <2>3 DEF DescriptorsFit
<1> QED
  BY <1>1, AcceptInvariant, PTL

-----------------------------------------------------------------------------
(* Block ids split into ids of their parts *)

LEMMA SplitSeq ==
  ASSUME NEW ids \in Seq(Nat), NEW n \in Nat \ {0}
  PROVE  /\ Split(ids, n) \in Seq(Nat) /\ Len(Split(ids, n)) = n * Len(ids)
         /\ \A i \in 1..(n * Len(ids)) :
              /\ (i - 1) \div n + 1 \in 1..Len(ids)
              /\ Split(ids, n)[i] = ids[(i - 1) \div n + 1] * n + ((i - 1) % n)
<1>1. Len(ids) \in Nat /\ n * Len(ids) \in Nat
  OBVIOUS
<1>2. ASSUME NEW i \in 1..(n * Len(ids))
      PROVE  /\ (i - 1) \div n + 1 \in 1..Len(ids) /\ (i - 1) % n \in Nat
             /\ ids[(i - 1) \div n + 1] * n + ((i - 1) % n) \in Nat
  <2>1. i - 1 \in Nat /\ i - 1 < n * Len(ids)
    BY <1>1
  <2>2. (i - 1) \div n \in 0..(Len(ids) - 1)
    BY <1>1, <2>1, QuotientBelow
  <2>3. (i - 1) % n \in Nat
    BY <2>1, Quotient
  <2> DEFINE q == (i - 1) \div n + 1
  <2>4. q \in 1..Len(ids)
    BY <1>1, <2>2
  <2> HIDE DEF q
  <2>5. ids[q] \in Nat
    BY <2>4, ElementOfSeq
  <2>6. ids[q] * n \in Nat
    BY <2>5
  <2> QED
    BY <2>3, <2>4, <2>5, <2>6 DEF q
<1> DEFINE f == Split(ids, n)
<1>3. f \in [1..(n * Len(ids)) -> Nat]
  BY <1>2 DEF Split
<1>4. \A i \in 1..(n * Len(ids)) : f[i] = ids[(i - 1) \div n + 1] * n + ((i - 1) % n)
  BY DEF Split
<1>5. f \in Seq(Nat) /\ DOMAIN f = 1..(n * Len(ids))
  <2> HIDE DEF f
  <2> QED
    BY <1>1, <1>3, SeqDef
<1>6. Len(f) = n * Len(ids)
  <2> HIDE DEF f
  <2> QED
    BY <1>1, <1>5, LenProperties
<1> QED
  BY <1>2, <1>4, <1>5, <1>6

\* Blocks of one part each are their own parts.
LEMMA SplitByOne ==
  ASSUME NEW ids \in Seq(Nat)
  PROVE  Split(ids, 1) = ids
<1>1. /\ Split(ids, 1) \in Seq(Nat) /\ Len(Split(ids, 1)) = 1 * Len(ids)
      /\ \A i \in 1..(1 * Len(ids)) :
           Split(ids, 1)[i] = ids[(i - 1) \div 1 + 1] * 1 + ((i - 1) % 1)
  BY SplitSeq
<1>2. Len(ids) \in Nat
  OBVIOUS
<1>3. ASSUME NEW i \in 1..Len(ids) PROVE Split(ids, 1)[i] = ids[i]
  <2>1. (i - 1) \div 1 = i - 1 /\ (i - 1) % 1 = 0 /\ ids[i] \in Nat
    BY <1>2, ElementOfSeq
  <2>2. (i - 1) \div 1 + 1 = i /\ ids[i] * 1 + 0 = ids[i] /\ i \in 1..(1 * Len(ids))
    BY <1>2, <2>1
  <2> QED
    BY <1>1, <2>1, <2>2
<1> QED
  BY <1>1, <1>2, <1>3, SeqEqual

LEMMA Splits ==
  ASSUME NEW ids \in Seq(Nat), c \in Config
  PROVE  /\ KernelIds(ids) = Split(ids, c.physical)
         /\ MappedBlocks(ids) = Split(ids, c.ratio)
BY SplitByOne DEF KernelIds, MappedBlocks

\* t is what follows the first base elements of s.
IsTail(t, s, base) ==
  /\ t \in Seq(Nat) /\ s \in Seq(Nat) /\ base \in Nat /\ Len(s) = base + Len(t)
  /\ \A j \in 1..Len(t) : t[j] = s[base + j]

LEMMA SplitTail ==
  ASSUME NEW t, NEW s, NEW base, IsTail(t, s, base), NEW n \in Nat \ {0}
  PROVE  IsTail(Split(t, n), Split(s, n), base * n)
<1>1. /\ t \in Seq(Nat) /\ s \in Seq(Nat) /\ base \in Nat /\ Len(s) = base + Len(t)
      /\ Len(t) \in Nat /\ Len(s) \in Nat
      /\ \A j \in 1..Len(t) : t[j] = s[base + j]
  BY DEF IsTail
<1>2. /\ Split(t, n) \in Seq(Nat) /\ Len(Split(t, n)) = n * Len(t)
      /\ Split(s, n) \in Seq(Nat) /\ Len(Split(s, n)) = n * Len(s)
  BY <1>1, SplitSeq
<1>3. /\ base * n \in Nat /\ n * Len(s) = base * n + n * Len(t) /\ n * Len(t) \in Nat
  BY <1>1
<1>4. ASSUME NEW j \in 1..(n * Len(t)) PROVE Split(t, n)[j] = Split(s, n)[base * n + j]
  <2> DEFINE q == (j - 1) \div n
             r == (j - 1) % n
  <2>1. j - 1 \in Nat
    BY <1>3
  <2>2. q \in Nat /\ r \in 0..(n - 1) /\ j - 1 = n * q + r
    BY <2>1, Quotient
  <2>3. q + 1 \in 1..Len(t) /\ Split(t, n)[j] = t[q + 1] * n + r
    BY <1>1, SplitSeq
  <2> HIDE DEF q, r
  <2> DEFINE k == base * n + j
  <2>4. k \in 1..(n * Len(s)) /\ k - 1 = base * n + (n * q + r)
    <3> DEFINE a == base * n
               l == n * Len(t)
    <3>1. a \in Nat /\ l \in Nat /\ n * Len(s) = a + l /\ j \in 1..l /\ k = a + j
      BY <1>3
    <3> HIDE DEF a, l, k
    <3>2. k \in 1..(n * Len(s)) /\ k - 1 = a + (j - 1)
      BY <3>1
    <3> QED
      BY <2>2, <3>2 DEF a
  <2>5. k - 1 = n * (base + q) + r /\ base + q \in Nat
    <3>1. n * (base + q) = base * n + n * q /\ n * q \in Nat /\ base * n \in Nat
      BY <1>1, <2>2
    <3> HIDE DEF k
    <3> QED
      BY <1>1, <2>2, <2>4, <3>1
  <2> HIDE DEF k
  <2>6. (k - 1) \div n = base + q /\ (k - 1) % n = r
    <3> DEFINE a == k - 1
               b == base + q
    <3>1. b \in Nat /\ a = n * b + r
      BY <2>5
    <3> HIDE DEF a, b
    <3>2. a \div n = b /\ a % n = r
      BY <2>2, <3>1, QuotientIs
    <3> QED
      BY <3>2 DEF a, b
  <2>7. Split(s, n)[k] = s[(k - 1) \div n + 1] * n + ((k - 1) % n)
    BY <1>1, <2>4, SplitSeq
  <2>8. t[q + 1] = s[base + (q + 1)] /\ base + (q + 1) = base + q + 1
    BY <1>1, <2>2, <2>3
  <2> QED
    BY <2>3, <2>6, <2>7, <2>8 DEF k
<1> QED
  BY <1>2, <1>3, <1>4 DEF IsTail

LEMMA LastOfSeq ==
  ASSUME NEW s \in Seq(Nat), NEW n \in 0..Len(s)
  PROVE  IsTail(LastOf(s, n), s, Len(s) - n)
<1>1. /\ Len(s) \in Nat /\ Len(s) - n \in Nat /\ Len(s) - n + 1 \in Int
      /\ \A i \in (Len(s) - n + 1)..Len(s) : s[i] \in Nat
  BY ElementOfSeq
<1> DEFINE m == Len(s) - n + 1
           t == SubSeq(s, m, Len(s))
<1>2. m \in Int /\ Len(s) \in Int /\ \A i \in m..Len(s) : s[i] \in Nat
  BY <1>1
<1> HIDE DEF m
<1>3. /\ t \in Seq(Nat) /\ Len(t) = IF m <= Len(s) THEN Len(s) - m + 1 ELSE 0
      /\ \A i \in 1..(Len(s) - m + 1) : t[i] = s[m + i - 1]
  BY <1>2, SubSeqProperties
<1> HIDE DEF t
<1>4. Len(t) = n /\ \A j \in 1..n : t[j] = s[(Len(s) - n) + j]
  <2>1. Len(s) - m + 1 = n /\ n \in Nat
    BY <1>1 DEF m
  <2>2. Len(t) = n
    BY <1>1, <1>3, <2>1 DEF m
  <2>3. \A j \in 1..n : m + j - 1 = (Len(s) - n) + j
    BY <1>1, <2>1 DEF m
  <2> QED
    BY <1>3, <2>1, <2>2, <2>3
<1>5. LastOf(s, n) = t
  BY DEF LastOf, t, m
<1>6. Len(s) = (Len(s) - n) + Len(t)
  BY <1>1, <1>4
<1>7. \A j \in 1..Len(t) : t[j] = s[(Len(s) - n) + j]
  BY <1>4
<1>8. IsTail(t, s, Len(s) - n)
  BY <1>1, <1>3, <1>6, <1>7 DEF IsTail
<1> QED
  BY <1>5, <1>8

LEMMA SplitBelow ==
  ASSUME NEW ids \in Seq(Nat), NEW n \in Nat \ {0}, NEW b \in Nat,
         \A i \in 1..Len(ids) : ids[i] < b, NEW j \in 1..Len(Split(ids, n))
  PROVE  Split(ids, n)[j] \in 0..(n * b - 1)
<1>1. /\ Len(Split(ids, n)) = n * Len(ids) /\ Len(ids) \in Nat
      /\ (j - 1) \div n + 1 \in 1..Len(ids)
      /\ Split(ids, n)[j] = ids[(j - 1) \div n + 1] * n + ((j - 1) % n)
  <2>1. Len(Split(ids, n)) = n * Len(ids) /\ Len(ids) \in Nat
    BY SplitSeq
  <2>2. j \in 1..(n * Len(ids))
    BY <2>1
  <2> QED
    BY <2>1, <2>2, SplitSeq
<1> DEFINE x == ids[(j - 1) \div n + 1]
           r == (j - 1) % n
<1>2. x \in 0..(b - 1)
  <2>1. x \in Nat /\ x < b
    BY <1>1, ElementOfSeq
  <2> QED
    BY <2>1
<1>3. r \in 0..(n - 1)
  <2>1. j - 1 \in Nat
    BY <1>1
  <2> QED
    BY <2>1, Quotient
<1> HIDE DEF x, r
<1>4. n * x + r \in 0..(n * b - 1) /\ n * x = x * n
  BY <1>2, <1>3, Within
<1> QED
  BY <1>1, <1>4 DEF x, r

-----------------------------------------------------------------------------
(* The blocks that are written *)

TablesOK ==
  /\ c \in Config
  /\ localTable \in Seq(Nat) /\ \A i \in 1..Len(localTable) : localTable[i] < c.local_blocks
  /\ cached \in 0..Len(localTable)

\* What start_load_kv maps of the uncached blocks are the runs after the hit.
LEMMA UncachedRuns ==
  ASSUME TablesOK
  PROVE  LET uncached == KernelIds(LastOf(localTable, Len(localTable) - cached))
         IN  /\ IsTail(MappedBlocks(uncached), LocalRuns, FirstRun - 1)
             /\ \A p \in 1..Len(LocalRuns) : LocalRuns[p] \in 0..(LocalNum(c) - 1)
<1> DEFINE n == Len(localTable) - cached
           t == LastOf(localTable, n)
<1>1. /\ c \in Config /\ c.physical \in Nat \ {0} /\ c.ratio \in Nat \ {0}
      /\ c.local_blocks \in Nat
      /\ localTable \in Seq(Nat) /\ Len(localTable) \in Nat /\ cached \in 0..Len(localTable)
      /\ \A i \in 1..Len(localTable) : localTable[i] < c.local_blocks
  BY DEF TablesOK, Config
<1>2. n \in 0..Len(localTable) /\ Len(localTable) - n = cached
  BY <1>1
<1>3. IsTail(t, localTable, cached)
  <2> HIDE DEF n
  <2> QED
    BY <1>1, <1>2, LastOfSeq
<1> HIDE DEF n, t
<1>4. t \in Seq(Nat)
  BY <1>3 DEF IsTail
<1>5. KernelIds(t) = Split(t, c.physical) /\ KernelIds(localTable) = Split(localTable, c.physical)
  BY <1>1, <1>4, Splits
<1>6. IsTail(KernelIds(t), KernelIds(localTable), cached * c.physical)
  BY <1>1, <1>3, <1>5, SplitTail
<1>7. KernelIds(t) \in Seq(Nat) /\ KernelIds(localTable) \in Seq(Nat)
  BY <1>6 DEF IsTail
<1>8. MappedBlocks(KernelIds(t)) = Split(KernelIds(t), c.ratio)
  BY <1>1, <1>7, Splits
<1>9. IsTail(MappedBlocks(KernelIds(t)), LocalRuns, cached * c.physical * c.ratio)
  BY <1>1, <1>6, <1>8, SplitTail DEF LocalRuns
<1>10. FirstRun - 1 = cached * c.physical * c.ratio
  <2> DEFINE a == cached * c.physical * c.ratio
  <2>1. a \in Int /\ FirstRun = a + 1
    BY <1>1 DEF FirstRun
  <2> HIDE DEF a
  <2>2. FirstRun - 1 = a
    BY <2>1
  <2> QED
    BY <2>2 DEF a
<1>11. ASSUME NEW p \in 1..Len(LocalRuns) PROVE LocalRuns[p] \in 0..(LocalNum(c) - 1)
  <2> DEFINE ids == KernelIds(localTable)
             b == c.physical * c.local_blocks
  <2>1. b \in Nat
    BY <1>1
  <2>2. \A i \in 1..Len(ids) : ids[i] < b
    <3>1. \A i \in 1..Len(Split(localTable, c.physical)) :
             Split(localTable, c.physical)[i] \in 0..(b - 1)
      BY <1>1, SplitBelow
    <3> QED
      BY <1>5, <2>1, <3>1
  <2> HIDE DEF ids, b
  <2>3. LocalRuns = Split(ids, c.ratio) /\ ids \in Seq(Nat)
    BY <1>7 DEF LocalRuns, ids
  <2>4. LocalRuns[p] \in 0..(c.ratio * b - 1)
    BY <1>1, <2>1, <2>2, <2>3, SplitBelow
  <2>5. LocalNum(c) = c.ratio * b
    <3>1. LocalNum(c) = c.ratio * (c.local_blocks * c.physical)
      BY <1>1, Sizes
    <3>2. c.local_blocks * c.physical = b
      BY <1>1 DEF b
    <3> QED
      BY <3>1, <3>2
  <2> QED
    BY <2>4, <2>5
<1> QED
  BY <1>9, <1>10, <1>11 DEF n, t

\* local_block_ids holds runs after the prefix hit.
OwnRuns ==
  /\ local \in Seq(Nat)
  /\ \A j \in 1..Len(local) : \E p \in FirstRun..Len(LocalRuns) : local[j] = LocalRuns[p]

OwnInv ==
  /\ TablesOK
  /\ pc \in {"handshake", "start"} =>
       /\ local = KernelIds(LastOf(localTable, Len(localTable) - cached))
       /\ remote \in Seq(Nat)
  /\ pc \in {"mapped", "trimmed"} => OwnRuns
  /\ pc # "posted" => posted = {}
  /\ WritesOwnBlocks

LEMMA MapLocalOwn ==
  ASSUME OwnInv, MapLocal
  PROVE  OwnInv'
<1> DEFINE mapped == MappedBlocks(local)
<1>1. /\ TablesOK /\ posted = {} /\ remote \in Seq(Nat)
      /\ local = KernelIds(LastOf(localTable, Len(localTable) - cached))
  BY DEF OwnInv, MapLocal
<1>2. /\ c' = c /\ localTable' = localTable /\ cached' = cached /\ posted' = posted
      /\ pc' = "mapped"
      /\ local' = IF c.ratio > 1 /\ Len(mapped) > Len(remote)
                  THEN SubSeq(mapped, 1, Len(remote)) ELSE mapped
  BY DEF MapLocal, tables
<1>3. IsTail(mapped, LocalRuns, FirstRun - 1)
  BY <1>1, UncachedRuns
<1> HIDE DEF mapped
<1>4. /\ mapped \in Seq(Nat) /\ Len(mapped) \in Nat /\ Len(remote) \in Nat
      /\ Len(LocalRuns) = (FirstRun - 1) + Len(mapped) /\ FirstRun - 1 \in Nat
      /\ \A j \in 1..Len(mapped) : mapped[j] = LocalRuns[(FirstRun - 1) + j]
  BY <1>1, <1>3 DEF IsTail
<1>5. /\ local' \in Seq(Nat)
      /\ \A j \in 1..Len(local') : j \in 1..Len(mapped) /\ local'[j] = mapped[j]
  <2>1. CASE c.ratio > 1 /\ Len(mapped) > Len(remote)
    <3> DEFINE m == Len(remote)
               t == SubSeq(mapped, 1, m)
    <3>1. m \in Nat /\ \A i \in 1..m : i \in 1..Len(mapped) /\ mapped[i] \in Nat
      BY <1>4, <2>1, ElementOfSeq
    <3> HIDE DEF m
    <3>2. /\ t \in Seq(Nat) /\ Len(t) = IF 1 <= m THEN m - 1 + 1 ELSE 0
          /\ \A i \in 1..(m - 1 + 1) : t[i] = mapped[1 + i - 1]
      BY <3>1, SubSeqProperties
    <3> HIDE DEF t
    <3>3. Len(t) = m /\ \A i \in 1..m : t[i] = mapped[i]
      BY <3>1, <3>2
    <3>4. local' = t
      BY <1>2, <2>1 DEF t, m
    <3> QED
      BY <3>1, <3>2, <3>3, <3>4
  <2>2. CASE ~(c.ratio > 1 /\ Len(mapped) > Len(remote))
    BY <1>2, <1>4, <2>2
  <2> QED
    BY <2>1, <2>2
<1>6. FirstRun' = FirstRun /\ LocalRuns' = LocalRuns /\ TablesOK'
  BY <1>1, <1>2 DEF FirstRun, LocalRuns, KernelIds, TablesOK
<1>7. ASSUME NEW j \in 1..Len(local')
      PROVE  \E p \in FirstRun..Len(LocalRuns) : local'[j] = LocalRuns[p]
  <2>1. j \in 1..Len(mapped) /\ local'[j] = LocalRuns[(FirstRun - 1) + j]
    BY <1>4, <1>5
  <2>2. FirstRun \in Int
    <3>1. cached \in Nat /\ c.physical \in Nat /\ c.ratio \in Nat
      BY <1>1 DEF TablesOK, Config
    <3> QED
      BY <3>1 DEF FirstRun
  <2>3. (FirstRun - 1) + j \in FirstRun..Len(LocalRuns)
    BY <1>4, <2>1, <2>2
  <2> QED
    BY <2>1, <2>3
<1>8. OwnRuns'
  BY <1>5, <1>6, <1>7 DEF OwnRuns
<1>9. WritesOwnBlocks'
  BY <1>1, <1>2 DEF WritesOwnBlocks
<1> QED
  BY <1>1, <1>2, <1>6, <1>8, <1>9 DEF OwnInv

\* A layer's window takes block ids away and adds none.
LEMMA WindowOf ==
  ASSUME NEW ids \in Seq(Nat), NEW layer
  PROVE  /\ InWindow(ids, layer) \in Seq(Nat)
         /\ \A j \in 1..Len(InWindow(ids, layer)) :
              \E i \in 1..Len(ids) : InWindow(ids, layer)[j] = ids[i]
<1>1. Len(ids) \in Nat
  OBVIOUS
<1>2. CASE Window(layer) \in 1..(Len(ids) - 1)
  <2> DEFINE n == Window(layer)
             t == LastOf(ids, n)
  <2>1. n \in 0..Len(ids) /\ Len(ids) - n \in Nat
    BY <1>1, <1>2
  <2>2. IsTail(t, ids, Len(ids) - n)
    BY <2>1, LastOfSeq
  <2>3. InWindow(ids, layer) = t
    BY <1>2 DEF InWindow
  <2> HIDE DEF n, t
  <2>4. /\ t \in Seq(Nat) /\ Len(t) \in Nat /\ Len(ids) = (Len(ids) - n) + Len(t)
        /\ \A j \in 1..Len(t) : t[j] = ids[(Len(ids) - n) + j]
    BY <2>2 DEF IsTail
  <2>5. \A j \in 1..Len(t) : (Len(ids) - n) + j \in 1..Len(ids)
    BY <1>1, <2>1, <2>4
  <2> QED
    BY <2>3, <2>4, <2>5
<1>3. CASE ~(Window(layer) \in 1..(Len(ids) - 1))
  BY <1>3 DEF InWindow
<1> QED
  BY <1>2, <1>3

\* The descriptors of a layer's blocks are descriptors of those blocks.
LEMMA DescIdsOf ==
  ASSUME Accepted(c), NEW layer \in 0..(c.layers - 1), NEW ids \in Seq(Nat),
         NEW blocks \in Nat,
         \A j \in 1..Len(ids) : ids[j] \in 0..(blocks - 1),
         NEW n \in 1..Len(DescIds(layer, ids, blocks))
  PROVE  LET d == DescIds(layer, ids, blocks)[n]
         IN  /\ d \in 0..(NumBases(c) * Parts(c) * blocks - 1)
             /\ \E j \in 1..Len(ids) : d % blocks = ids[j]
<1> DEFINE per == RegionsPerLayer(c)
           m == per * Len(ids)
           f == DescIds(layer, ids, blocks)
           g(i) == per * layer + (i - 1) \div Len(ids)
           r(i) == ids[((i - 1) % Len(ids)) + 1]
<1>1. /\ Len(ids) \in Nat /\ per \in {1, 2} /\ c.layers \in Nat /\ layer \in Nat
      /\ c.mla \in BOOLEAN /\ c.blocks_first \in BOOLEAN
  BY DEF RegionsPerLayer, Accepted, Config
<1>2. NumBases(c) * Parts(c) = per * c.layers
  BY <1>1 DEF NumBases, Parts, RegionsPerLayer, Accepted
<1>3. f = [i \in 1..m |-> g(i) * blocks + r(i)]
  BY DEF DescIds
<1>4. m \in Nat
  BY <1>1
<1>5. ASSUME NEW i \in 1..m
      PROVE  /\ Len(ids) \in Nat \ {0}
             /\ g(i) \in 0..(per * c.layers - 1)
             /\ ((i - 1) % Len(ids)) + 1 \in 1..Len(ids)
             /\ r(i) \in 0..(blocks - 1)
  <2>1. Len(ids) # 0
    <3> SUFFICES ASSUME Len(ids) = 0 PROVE FALSE
      OBVIOUS
    <3>1. m = 0
      BY <1>1
    <3> QED
      BY <3>1
  <2>2. i - 1 \in Nat /\ i - 1 < Len(ids) * per
    BY <1>1, <1>4
  <2>3. (i - 1) \div Len(ids) \in 0..(per - 1)
    BY <1>1, <2>1, <2>2, QuotientBelow
  <2>4. (i - 1) % Len(ids) \in 0..(Len(ids) - 1)
    BY <1>1, <2>1, <2>2, Quotient
  <2>5. ((i - 1) % Len(ids)) + 1 \in 1..Len(ids)
    BY <1>1, <2>4
  <2>6. g(i) \in 0..(per * c.layers - 1)
    <3>1. per \in Nat /\ c.layers \in Nat
      BY <1>1
    <3> HIDE DEF per
    <3> QED
      BY <2>3, <3>1, Within
  <2>7. r(i) \in 0..(blocks - 1)
    BY <2>5
  <2> QED
    BY <1>1, <2>1, <2>5, <2>6, <2>7
<1>6. ASSUME NEW i \in 1..m
      PROVE  /\ f[i] \in 0..(per * c.layers * blocks - 1)
             /\ f[i] % blocks = r(i)
  <2> DEFINE a == g(i)
             b == r(i)
             l == per * c.layers
  <2>1. a \in 0..(l - 1) /\ b \in 0..(blocks - 1) /\ l \in Nat
    <3>1. a \in 0..(l - 1) /\ b \in 0..(blocks - 1)
      BY <1>5
    <3>2. l \in Nat
      BY <1>1
    <3> HIDE DEF a, b, l
    <3> QED
      BY <3>1, <3>2
  <2>2. f[i] = a * blocks + b
    BY <1>3
  <2> HIDE DEF a, b, l, f
  <2>3. f[i] = blocks * a + b /\ blocks \in Nat \ {0} /\ a \in Nat
    BY <2>1, <2>2
  <2>4. f[i] % blocks = b
    BY <2>1, <2>3, QuotientIs
  <2>5. f[i] \in 0..(blocks * l - 1) /\ blocks * l = l * blocks
    BY <2>1, <2>3, Within
  <2> QED
    BY <2>4, <2>5 DEF b, l
<1>7. f \in Seq(Int)
  <2>1. ASSUME NEW i \in 1..m PROVE f[i] \in Int
    BY <1>6
  <2>2. f \in [1..m -> Int]
    <3>1. DOMAIN f = 1..m /\ f = [i \in 1..m |-> f[i]]
      BY <1>3
    <3> HIDE DEF f, m
    <3> QED
      BY <2>1, <3>1
  <2> HIDE DEF f, m
  <2> QED
    BY <1>4, <2>2, SeqDef
<1>8. n \in 1..m
  <2>1. DOMAIN f = 1..m
    BY <1>3
  <2>2. DOMAIN f = 1..Len(f)
    <3> HIDE DEF f
    <3> QED
      BY <1>7, LenProperties
  <2> QED
    BY <2>1, <2>2 DEF f
<1>9. f[n] \in 0..(per * c.layers * blocks - 1) /\ f[n] % blocks = r(n)
  BY <1>6, <1>8
<1>10. ((n - 1) % Len(ids)) + 1 \in 1..Len(ids)
  BY <1>5, <1>8
<1> QED
  BY <1>2, <1>9, <1>10

\* A read posted from OwnRuns is into blocks of OwnRuns, to its last cell.
LEMMA TransferOwn ==
  ASSUME Accepted(c), TablesOK, OwnRuns,
         NEW i \in 0..(RanksRead - 1), NEW layer \in 0..(c.layers - 1),
         NEW x \in Transfer(i, layer),
         NEW k \in {x[2].off, x[2].off + x[2].len - 1}
  PROVE  \E p \in FirstRun..Len(LocalRuns) :
            LocalRuns[p] \div c.ratio = LocalCell(c, x[2].base, k)[2]
<1> DEFINE ids == InWindow(local, layer)
           ls == DescIds(layer, ids, LocalNum(c))
           rs == DescIds(layer, InWindow(remote, layer), RemoteNum(c))
<1>1. PICK n \in 1..Len(ls) : x = <<i, SourceDescs(c, i)[ls[n]], RemoteDescs(c)[rs[n]]>>
  BY DEF Transfer
<1> DEFINE d == ls[n]
           y == SourceDescs(c, i)[d]
<1>2. x[2] = y
  BY <1>1
<1>3. c \in Config /\ LocalNum(c) \in Nat
  BY Sizes DEF Accepted
<1>4. /\ \A p \in 1..Len(LocalRuns) : LocalRuns[p] \in 0..(LocalNum(c) - 1)
      /\ FirstRun - 1 \in Nat
  BY UncachedRuns DEF IsTail
<1>5. /\ ids \in Seq(Nat)
      /\ \A j \in 1..Len(ids) : \E p \in FirstRun..Len(LocalRuns) : ids[j] = LocalRuns[p]
  <2>1. /\ ids \in Seq(Nat)
        /\ \A j \in 1..Len(ids) : \E m \in 1..Len(local) : ids[j] = local[m]
    BY WindowOf DEF OwnRuns
  <2> QED
    BY <2>1 DEF OwnRuns
<1> HIDE DEF ids
<1>6. \A p \in FirstRun..Len(LocalRuns) : p \in 1..Len(LocalRuns)
  <2>1. FirstRun \in Int
    <3>1. cached \in Nat /\ c.physical \in Nat /\ c.ratio \in Nat
      BY DEF TablesOK, Config
    <3> QED
      BY <3>1 DEF FirstRun
  <2> QED
    BY <1>4, <2>1
<1>7. \A j \in 1..Len(ids) : ids[j] \in 0..(LocalNum(c) - 1)
  BY <1>4, <1>5, <1>6
<1>8. /\ d \in 0..(NumBases(c) * Parts(c) * LocalNum(c) - 1)
      /\ \E j \in 1..Len(ids) : d % LocalNum(c) = ids[j]
  BY <1>3, <1>5, <1>7, DescIdsOf
<1> HIDE DEF ls, rs
<1>9. d \in DOMAIN SourceDescs(c, i)
  <2>1. d \in DOMAIN LocalDescs(c)
    BY <1>8, LocalDescsAre
  <2> QED
    BY <2>1 DEF SourceDescs, SplitDescs
<1>10. PICK p \in FirstRun..Len(LocalRuns) : d % LocalNum(c) = LocalRuns[p]
  BY <1>5, <1>8
<1>11. /\ y.len = RemoteLen(c) /\ LocalRuns[p] \in 0..(LocalNum(c) - 1)
       /\ \E v \in Nat : /\ y.off = BlockLen(c) * (LocalRuns[p] \div c.ratio) + v
                         /\ v + y.len <= BlockLen(c)
  <2>1. LET b == d % LocalNum(c)
        IN  /\ b \in 0..(LocalNum(c) - 1) /\ y.len = RemoteLen(c)
            /\ \E v \in Nat : /\ y.off = BlockLen(c) * (b \div c.ratio) + v
                              /\ v + y.len <= BlockLen(c)
    BY <1>9, SourceDesc
  <2> HIDE DEF y, d
  <2>2. d % LocalNum(c) = LocalRuns[p]
    BY <1>10 DEF d
  <2> QED
    BY <2>1, <2>2
<1>12. /\ RemoteLen(c) \in Nat \ {0} /\ BlockLen(c) \in Nat \ {0} /\ c.ratio \in Nat \ {0}
  <2>1. RemoteLen(c) \in Nat \ {0}
    BY AcceptedLengths
  <2>2. /\ BlockLen(c) = IF c.blocks_first THEN 2 * KvLen(c) ELSE KvLen(c)
        /\ KvLen(c) \in Nat \ {0} /\ c.ratio \in Nat \ {0}
    BY BlockLens
  <2>3. BlockLen(c) \in Nat \ {0}
    BY <2>2
  <2> QED
    BY <2>1, <2>2, <2>3
<1> DEFINE q == LocalRuns[p] \div c.ratio
<1>13. q \in Nat
  <2>1. LocalRuns[p] \in Nat
    BY <1>11
  <2> QED
    BY <1>12, <2>1, Quotient
<1> HIDE DEF y, d, q
<1>14. PICK v \in Nat : y.off = BlockLen(c) * q + v /\ v + y.len <= BlockLen(c)
  BY <1>11 DEF q
<1>15. PICK w \in 0..(BlockLen(c) - 1) : k = BlockLen(c) * q + w
  <2>1. y.len \in Nat \ {0}
    BY <1>11, <1>12
  <2>2. BlockLen(c) * q \in Nat
    BY <1>12, <1>13
  <2>3. v \in 0..(BlockLen(c) - 1) /\ v + y.len - 1 \in 0..(BlockLen(c) - 1)
    <3> DEFINE b == BlockLen(c)
               l == y.len
    <3>1. b \in Nat \ {0} /\ l \in Nat \ {0} /\ v + l <= b
      BY <1>12, <1>14, <2>1
    <3> HIDE DEF b, l
    <3>2. v \in 0..(b - 1) /\ v + l - 1 \in 0..(b - 1)
      BY <3>1
    <3> QED
      BY <3>2 DEF b, l
  <2>4. CASE k = y.off
    BY <1>14, <2>3, <2>4
  <2>5. CASE k = y.off + y.len - 1
    <3>1. k = BlockLen(c) * q + (v + y.len - 1)
      BY <1>14, <2>1, <2>2, <2>5
    <3> QED
      BY <2>3, <3>1
  <2> QED
    BY <1>2, <2>4, <2>5
<1>16. k \div BlockLen(c) = q
  BY <1>12, <1>13, <1>15, QuotientIs
<1>17. LocalCell(c, x[2].base, k)[2] = k \div BlockLen(c)
  BY DEF LocalCell
<1> QED
  BY <1>10, <1>16, <1>17 DEF q

\* A block table is a sequence of ids of blocks.
LEMMA TableSeq ==
  ASSUME NEW blocks \in Nat, NEW n \in Nat, NEW t \in Tables(blocks, n)
  PROVE  t \in Seq(Nat) /\ Len(t) = n /\ \A i \in 1..Len(t) : t[i] < blocks
<1>1. t \in [1..n -> 0..(blocks - 1)]
  BY DEF Tables
<1>2. t \in [1..n -> Nat] /\ \A i \in 1..n : t[i] < blocks
  BY <1>1
<1>3. t \in Seq(Nat) /\ DOMAIN t = 1..n
  BY <1>2, SeqDef
<1>4. Len(t) = n
  BY <1>3, LenProperties
<1> QED
  BY <1>2, <1>3, <1>4

LEMMA OwnInit == Init => OwnInv
<1> SUFFICES ASSUME Init PROVE OwnInv
  OBVIOUS
<1>1. c \in Configs /\ posted = {} /\ pc = "handshake"
  BY DEF Init
<1>2. /\ c \in Config /\ c.ratio \in Nat \ {0} /\ c.local_blocks \in Nat
      /\ c.remote_blocks \in Nat
  BY <1>1, ConfigsAre DEF Config
<1>3. PICK r \in 1..c.remote_blocks :
        /\ remoteTable \in Tables(c.remote_blocks, r)
        /\ localTable \in Tables(c.local_blocks, NumLocal(c, r))
        /\ cached \in 0..NumLocal(c, r)
  BY DEF Init
<1> DEFINE m == NumLocal(c, r)
<1>4. r \in Nat /\ m \in Nat
  <2>1. r \in Nat /\ r + c.ratio - 1 \in Nat
    BY <1>2
  <2>2. (r + c.ratio - 1) \div c.ratio \in Nat
    BY <1>2, <2>1, Quotient
  <2> QED
    BY <2>1, <2>2 DEF NumLocal
<1> HIDE DEF m
<1>6. TablesOK
  BY <1>2, <1>3, <1>4, TableSeq DEF TablesOK, m
<1>7. local = KernelIds(LastOf(localTable, Len(localTable) - cached))
  BY DEF Init
<1>8. remote \in Seq(Nat)
  <2>1. remoteTable \in Seq(Nat) /\ remote = KernelIds(remoteTable)
    BY <1>2, <1>3, <1>4, TableSeq DEF Init
  <2>2. c.physical \in Nat \ {0}
    BY <1>2 DEF Config
  <2> QED
    BY <1>2, <2>1, <2>2, Splits, SplitSeq
<1> QED
  BY <1>1, <1>6, <1>7, <1>8 DEF OwnInv, WritesOwnBlocks

LEMMA OwnNext ==
  ASSUME OwnInv, AcceptInv, [Next]_vars
  PROVE  OwnInv'
<1>1. ASSUME c' = c, localTable' = localTable, cached' = cached
      PROVE  TablesOK' /\ FirstRun' = FirstRun /\ LocalRuns' = LocalRuns
  BY <1>1 DEF OwnInv, TablesOK, FirstRun, LocalRuns, KernelIds
<1>2. ASSUME c' = c, localTable' = localTable, cached' = cached, posted' = posted
      PROVE  WritesOwnBlocks'
  BY <1>1, <1>2 DEF OwnInv, WritesOwnBlocks
<1>3. ASSUME c' = c, localTable' = localTable, cached' = cached, local' = local
      PROVE  /\ OwnRuns => OwnRuns'
             /\ KernelIds(LastOf(localTable, Len(localTable) - cached))'
                  = KernelIds(LastOf(localTable, Len(localTable) - cached))
  BY <1>1, <1>3 DEF OwnRuns, KernelIds
<1>4. CASE Handshake
  <2>1. /\ c' = c /\ localTable' = localTable /\ cached' = cached /\ posted' = posted
        /\ local' = local /\ remote' = remote /\ pc = "handshake"
        /\ pc' \in {"start", "refused"}
    BY <1>4 DEF Handshake, tables
  <2> QED
    BY <1>1, <1>2, <1>3, <2>1 DEF OwnInv
<1>5. CASE MapLocal
  BY <1>5, MapLocalOwn
<1>6. CASE NotifyOnly \/ TrimRemote
  <2>1. /\ c' = c /\ localTable' = localTable /\ cached' = cached /\ posted' = posted
        /\ local' = local /\ pc = "mapped" /\ pc' \in {"notified", "trimmed"}
    BY <1>6 DEF NotifyOnly, TrimRemote, tables
  <2> QED
    BY <1>1, <1>2, <1>3, <2>1 DEF OwnInv
<1>7. CASE Post
  <2>1. /\ c' = c /\ localTable' = localTable /\ cached' = cached
        /\ local' = local /\ pc = "trimmed" /\ pc' = "posted"
        /\ posted' = UNION {Transfer(i, layer) : i \in 0..(RanksRead - 1),
                                                 layer \in 0..(c.layers - 1)}
    BY <1>7 DEF Post, tables
  <2>2. TablesOK /\ OwnRuns /\ Accepted(c)
    BY <2>1, ConfigsAre DEF OwnInv, AcceptInv, Accepted
  <2>3. ASSUME NEW x \in posted', NEW k \in {x[2].off, x[2].off + x[2].len - 1}
        PROVE  \E p \in FirstRun..Len(LocalRuns) :
                  LocalRuns[p] \div c.ratio = LocalCell(c, x[2].base, k)[2]
    <3>1. PICK i \in 0..(RanksRead - 1), layer \in 0..(c.layers - 1) : x \in Transfer(i, layer)
      BY <2>1
    <3> QED
      BY <2>2, <3>1, TransferOwn
  <2>4. WritesOwnBlocks'
    BY <1>1, <2>1, <2>3 DEF WritesOwnBlocks
  <2> QED
    BY <1>1, <2>1, <2>4 DEF OwnInv
<1>8. CASE UNCHANGED vars
  <2>1. /\ c' = c /\ localTable' = localTable /\ cached' = cached /\ posted' = posted
        /\ local' = local /\ remote' = remote /\ pc' = pc
    BY <1>8 DEF vars
  <2> QED
    BY <1>1, <1>2, <1>3, <2>1 DEF OwnInv
<1> QED
  BY <1>4, <1>5, <1>6, <1>7, <1>8 DEF Next

\* A read writes only into blocks of its own request that were not hit in the
\* prefix cache, from its first cell to its last: whatever block sizes, windows,
\* layouts and rank counts, and even when a prefix hit meets a partly filled
\* last block, where the blocks it reads are the wrong ones.
THEOREM WritesOwn == Spec => []WritesOwnBlocks
<1>1. OwnInv /\ AcceptInv /\ [Next]_vars => OwnInv'
  BY OwnNext
<1>2. OwnInv => WritesOwnBlocks
  BY DEF OwnInv
<1> QED
  BY <1>1, <1>2, OwnInit, AcceptInvariant, PTL DEF Spec

-----------------------------------------------------------------------------
(* What the cells of a descriptor stand for *)

\* A worker's part of a block is its heads, and each head the tokens.
LEMMA UnitIs ==
  ASSUME NEW k \in Config
  PROVE  /\ HeadsOf(k, k.tp) \in Nat \ {0} /\ HeadsOf(k, k.remote_tp) \in Nat \ {0}
         /\ k.tokens \in Nat \ {0} /\ k.ratio \in Nat \ {0}
         /\ Unit(k) = k.tokens * HeadsOf(k, k.tp)
         /\ RemoteKvLen(k) = k.tokens * HeadsOf(k, k.remote_tp)
<1> DEFINE hs == HeadsOf(k, k.tp)
           rhs == HeadsOf(k, k.remote_tp)
<1>1. /\ hs \in Nat \ {0} /\ rhs \in Nat \ {0}
      /\ k.tokens \in Nat \ {0} /\ k.ratio \in Nat \ {0}
  BY Sizes DEF Config
<1>2. KvLen(k) = hs * k.tokens * k.ratio /\ RemoteKvLen(k) = rhs * k.tokens
  BY DEF KvLen, RemoteKvLen
<1> HIDE DEF hs, rhs
<1> DEFINE u == k.tokens * hs
<1>3. u \in Nat /\ hs * k.tokens = u /\ rhs * k.tokens = k.tokens * rhs
  BY <1>1
<1>4. KvLen(k) = u * k.ratio
  BY <1>2, <1>3
<1> HIDE DEF u
<1>5. KvLen(k) = k.ratio * u + 0 /\ 0 \in 0..(k.ratio - 1)
  BY <1>1, <1>3, <1>4
<1>6. KvLen(k) \div k.ratio = u
  BY <1>1, <1>3, <1>5, QuotientIs
<1> QED
  BY <1>1, <1>2, <1>3, <1>6 DEF Unit, hs, rhs, u

\* The y-th cell of the r-th producer block of a consumer block, wherever the
\* layout or the rearrangement puts it.
LEMMA HeadAndTokenIs ==
  ASSUME Accepted(c), NEW r \in 0..(c.ratio - 1), NEW y \in 0..(Unit(c) - 1)
  PROVE  HeadAndToken(c, r * Unit(c) + y)
           = <<y \div c.tokens, r * c.tokens + (y % c.tokens)>>
<1> DEFINE u == Unit(c)
           hs == HeadsOf(c, c.tp)
           n == c.tokens
           x == r * u + y
           h == y \div n
           t == y % n
<1>1. /\ n \in Nat \ {0} /\ hs \in Nat \ {0} /\ u \in Nat \ {0} /\ u = n * hs
      /\ c.ratio \in Nat \ {0} /\ c.mla \in BOOLEAN /\ c.permute \in BOOLEAN
      /\ c.layout \in {"HND", "NHD"} /\ hs * n = u
  <2>1. c \in Config
    BY DEF Accepted
  <2>2. n \in Nat \ {0} /\ hs \in Nat \ {0} /\ u = n * hs /\ c.ratio \in Nat \ {0}
    BY <2>1, UnitIs
  <2>3. c.mla \in BOOLEAN /\ c.permute \in BOOLEAN /\ c.layout \in {"HND", "NHD"}
    BY <2>1 DEF Config
  <2> HIDE DEF n, hs, u
  <2>4. n * hs \in Nat \ {0} /\ hs * n = n * hs
    BY <2>2
  <2> QED
    BY <2>2, <2>3, <2>4
<1>2. r \in Nat /\ y \in Nat /\ y \in 0..(u - 1)
  BY <1>1
<1>3. h \in Nat /\ t \in 0..(n - 1) /\ y = n * h + t
  <2> HIDE DEF n
  <2> QED
    BY <1>1, <1>2, Quotient
<1>4. /\ c.mla => hs = 1
      /\ c.mla \/ c.layout = "HND" \/ c.permute
  BY <1>1 DEF HeadsOf, Accepted, ValidHandshake
<1> HIDE DEF u, hs, n, x, h, t
<1>5. r * u \in Nat /\ x = u * r + y
  BY <1>1, <1>2 DEF x
<1>6. x \div u = r /\ x % u = y
  BY <1>1, <1>2, <1>5, QuotientIs
<1>7. CASE IsPostProcessed(c)
  <2>1. HeadAndToken(c, x) = <<(x % u) \div n, (x \div u) * n + (x % n)>>
    BY <1>1, <1>7 DEF HeadAndToken, u, hs, n
  <2>2. x % n = t
    <3>1. u * r = n * (hs * r) /\ hs * r \in Nat
      BY <1>1, <1>2
    <3>2. x = n * (hs * r + h) + t /\ hs * r + h \in Nat
      <4>1. n * (hs * r + h) = n * (hs * r) + n * h /\ n * (hs * r) \in Nat /\ n * h \in Nat
        BY <1>1, <1>3, <3>1
      <4> QED
        BY <1>3, <1>5, <3>1, <4>1
    <3> DEFINE q == hs * r + h
    <3>3. n \in Nat \ {0} /\ q \in Nat /\ t \in 0..(n - 1) /\ x = n * q + t
      BY <1>1, <1>3, <3>2
    <3> HIDE DEF q
    <3>4. x \div n = q /\ x % n = t
      BY <3>3, QuotientIs
    <3> QED
      BY <3>4
  <2> QED
    BY <1>6, <2>1, <2>2 DEF x, u, n, h, t
<1>8. CASE ~IsPostProcessed(c)
  <2>1. HeadAndToken(c, x) = <<x \div (c.ratio * n), x % (c.ratio * n)>>
    BY <1>8 DEF HeadAndToken, n
  <2>2. CASE c.mla
    <3>1. u = n /\ hs = 1
      BY <1>1, <1>4, <2>2
    <3>2. h = 0 /\ t = y
      <4>1. y \in 0..(n - 1)
        BY <1>1, <1>2, <3>1
      <4>2. y \div n = 0 /\ y % n = y
        BY <1>1, <4>1, SmallQuotient
      <4> QED
        BY <4>2 DEF h, t
    <3>3. n * r + y \in 0..(n * c.ratio - 1) /\ n * c.ratio = c.ratio * n
          /\ n * c.ratio \in Nat
      BY <1>1, <1>2, <3>1, Within
    <3> DEFINE m == c.ratio * n
    <3>4. /\ m \in Nat \ {0} /\ x \in 0..(m - 1)
      <4>1. m \in Nat /\ x \in 0..(m - 1)
        BY <1>5, <3>1, <3>3
      <4> HIDE DEF m
      <4> QED
        BY <4>1
    <3>5. x \div m = 0 /\ x % m = x
      <4> HIDE DEF m
      <4> QED
        BY <3>4, SmallQuotient
    <3>6. x = r * n + t
      BY <1>1, <1>2, <1>5, <3>1, <3>2
    <3> QED
      BY <2>1, <3>2, <3>5, <3>6 DEF x, u, n, h, t
  <2>3. CASE ~c.mla
    <3>1. c.ratio = 1
      BY <1>1, <1>8, <2>3 DEF IsPostProcessed
    <3>2. r = 0 /\ x = y /\ c.ratio * n = n /\ r * n + t = t
      BY <1>1, <1>2, <1>3, <1>5, <3>1
    <3> QED
      BY <2>1, <3>2 DEF x, u, n, h, t
  <2> QED
    BY <2>2, <2>3
<1> QED
  BY <1>7, <1>8

LEMMA LocalCellIs ==
  ASSUME Accepted(c), NEW base, NEW part \in 0..(Parts(c) - 1), NEW b \in Nat,
         NEW y \in 0..(Unit(c) - 1)
  PROVE  LocalCell(c, base, b * (BlockLen(c) \div c.ratio) + part * Unit(c) + y)
           = <<LayerAndKv(c, base, part), b \div c.ratio,
               <<y \div c.tokens, (b % c.ratio) * c.tokens + (y % c.tokens)>>>>
<1> DEFINE u == Unit(c)
           kv == KvLen(c)
           off == b * (BlockLen(c) \div c.ratio) + part * u + y
           q == b \div c.ratio
           r == b % c.ratio
           z == r * u + y
<1>1. /\ u \in Nat \ {0} /\ kv \in Nat \ {0} /\ c.ratio \in Nat \ {0} /\ kv = c.ratio * u
      /\ c.blocks_first => c.ratio = 1
      /\ BlockLen(c) = IF c.blocks_first THEN 2 * kv ELSE kv
      /\ BlockLen(c) \div c.ratio = IF c.blocks_first THEN 2 * u ELSE u
      /\ c.blocks_first \in BOOLEAN
  BY BlockLens
<1>2. q \in Nat /\ r \in 0..(c.ratio - 1) /\ b = c.ratio * q + r
  BY <1>1, Quotient
<1>3. y \in 0..(u - 1)
  OBVIOUS
<1> HIDE DEF u, kv, q, r
<1>4. HeadAndToken(c, z) = <<y \div c.tokens, r * c.tokens + (y % c.tokens)>>
  BY <1>2, HeadAndTokenIs DEF u, z
<1>5. r * u \in Nat /\ z \in 0..(kv - 1)
  <2>1. u * r + y \in 0..(u * c.ratio - 1) /\ u * r = r * u /\ u * c.ratio = kv
    BY <1>1, <1>2, <1>3, Within
  <2> QED
    BY <1>1, <1>2, <2>1
<1> HIDE DEF z, off
<1>6. ASSUME off = BlockLen(c) * q + (kv * part + z), kv * part + z \in 0..(BlockLen(c) - 1)
      PROVE  LocalCell(c, base, off)
               = <<LayerAndKv(c, base, part), q, HeadAndToken(c, z)>>
  <2> DEFINE within == kv * part + z
  <2>1. BlockLen(c) \in Nat \ {0} /\ part \in Nat
    BY <1>1 DEF Parts
  <2>2. off \div BlockLen(c) = q /\ off % BlockLen(c) = within
    <3> HIDE DEF within
    <3>1. within \in 0..(BlockLen(c) - 1) /\ off = BlockLen(c) * q + within
      BY <1>6 DEF within
    <3> QED
      BY <1>2, <2>1, <3>1, QuotientIs
  <2>3. within \div kv = part /\ within % kv = z
    <3>1. kv \in Nat \ {0} /\ part \in Nat /\ z \in 0..(kv - 1) /\ within = kv * part + z
      BY <1>1, <1>5, <2>1
    <3> HIDE DEF within
    <3> QED
      BY <3>1, QuotientIs
  <2> QED
    BY <2>2, <2>3 DEF LocalCell, kv
<1>7. /\ off = BlockLen(c) * q + (kv * part + z)
      /\ kv * part + z \in 0..(BlockLen(c) - 1)
  <2>1. CASE c.blocks_first
    <3>1. c.ratio = 1 /\ kv = u /\ b = q /\ r = 0 /\ z = y /\ part \in 0..1
      BY <1>1, <1>2, <1>3, <2>1 DEF z, Parts
    <3>2. off = b * (2 * u) + part * u + y
      BY <1>1, <2>1 DEF off
    <3> QED
      BY <1>1, <1>3, <2>1, <3>1, <3>2
  <2>2. CASE ~c.blocks_first
    <3>1. part = 0 /\ BlockLen(c) = kv
      BY <1>1, <2>2 DEF Parts
    <3>2. off = b * u + part * u + y
      BY <1>1, <2>2 DEF off
    <3>3. b * u = kv * q + r * u
      <4>1. (c.ratio * q + r) * u = (c.ratio * u) * q + r * u
        BY <1>1, <1>2
      <4> QED
        BY <1>1, <1>2, <4>1
    <3>4. kv * q \in Nat /\ part * u = 0 /\ kv * part = 0 /\ z = r * u + y
      BY <1>1, <1>2, <3>1 DEF z
    <3> DEFINE a == kv * q
               e == r * u
    <3>5. /\ a \in Nat /\ e \in Nat /\ y \in Nat /\ off = (a + e) + 0 + y /\ z = e + y
          /\ kv * part = 0
      BY <1>3, <1>5, <3>2, <3>3, <3>4
    <3> HIDE DEF a, e
    <3>6. off = a + z /\ kv * part + z = z
      BY <3>5
    <3> QED
      BY <1>5, <3>1, <3>6 DEF a
  <2> QED
    BY <2>1, <2>2
<1> QED
  BY <1>4, <1>6, <1>7 DEF off, u, q, r

LEMMA RemoteCellIs ==
  ASSUME Accepted(c), NEW rank, NEW base, NEW part \in 0..(Parts(c) - 1), NEW b \in Nat,
         NEW y \in 0..(RemoteLen(c) - 1)
  PROVE  RemoteCell(c, rank, base, b * RemoteBlockLen(c) + RankOffset(c)
                                     + part * (RemoteBlockLen(c) \div 2) + y)
           = <<LayerAndKv(c, base, part), b,
               <<GlobalHead(c, c.remote_tp, rank, (RankOffset(c) + y) \div c.tokens),
                 (RankOffset(c) + y) % c.tokens>> >>
<1> DEFINE rkv == RemoteKvLen(c)
           rbl == RemoteBlockLen(c)
           z == RankOffset(c) + y
           off == b * rbl + RankOffset(c) + part * (rbl \div 2) + y
<1>1. /\ rkv \in Nat \ {0} /\ c.blocks_first \in BOOLEAN
      /\ rbl = IF c.blocks_first THEN 2 * rkv ELSE rkv
  BY BlockLens
<1>2. RankOffset(c) \in Nat /\ RankOffset(c) + RemoteLen(c) <= rkv /\ RemoteLen(c) \in Nat
  BY AcceptedLengths
<1> HIDE DEF rkv, rbl
<1>3. z \in 0..(rkv - 1) /\ y \in Nat
  BY <1>1, <1>2
<1>4. /\ rbl \in Nat \ {0} /\ part \in Nat /\ off = rbl * b + (rkv * part + z)
      /\ rkv * part + z \in 0..(rbl - 1)
  <2>1. CASE c.blocks_first
    <3>1. rbl = 2 * rkv /\ rbl \div 2 = rkv /\ part \in 0..1
      BY <1>1, <2>1 DEF Parts
    <3> QED
      BY <1>1, <1>2, <1>3, <3>1
  <2>2. CASE ~c.blocks_first
    <3>1. rbl = rkv /\ part = 0 /\ rbl \div 2 \in Nat
      BY <1>1, <2>2 DEF Parts
    <3>2. part * (rbl \div 2) = 0 /\ b * rbl = rbl * b /\ rbl * b \in Nat /\ rkv * part = 0
      BY <1>1, <3>1
    <3> QED
      BY <1>1, <1>2, <1>3, <3>1, <3>2
  <2> QED
    BY <2>1, <2>2
<1> DEFINE within == rkv * part + z
<1> HIDE DEF z, off
<1>5. off \div rbl = b /\ off % rbl = within
  <2>1. rbl \in Nat \ {0} /\ within \in 0..(rbl - 1) /\ off = rbl * b + within
    BY <1>4
  <2> HIDE DEF within
  <2> QED
    BY <2>1, QuotientIs
<1>6. within \div rkv = part /\ within % rkv = z
  <2>1. rkv \in Nat \ {0} /\ part \in Nat /\ z \in 0..(rkv - 1) /\ within = rkv * part + z
    BY <1>1, <1>3, <1>4
  <2> HIDE DEF within
  <2> QED
    BY <2>1, QuotientIs
<1>7. RemoteCell(c, rank, base, off)
        = <<LayerAndKv(c, base, part), b,
            <<GlobalHead(c, c.remote_tp, rank, z \div c.tokens), z % c.tokens>> >>
  BY <1>5, <1>6 DEF RemoteCell, rkv, rbl
<1> QED
  BY <1>7 DEF z, off, rbl

-----------------------------------------------------------------------------
(* Which heads a worker reads, and of which rank *)

\* A worker reads l heads from each rank, from head o of that rank on, and those
\* of the i-th rank are its own from head i * l on.
SharesHeads(o, l) ==
  /\ o \in Nat /\ l \in Nat \ {0} /\ RanksRead \in Nat \ {0}
  /\ RankOffset(c) = c.tokens * o /\ RemoteLen(c) = c.tokens * l
  /\ HeadsOf(c, c.tp) = RanksRead * l
  /\ \A i \in 0..(RanksRead - 1), h \in 0..(l - 1) :
       GlobalHead(c, c.remote_tp, TargetRemoteRanks(c)[i + 1], o + h)
         = GlobalHead(c, c.tp, c.tp_rank, i * l + h)

LEMMA SharesLatent ==
  ASSUME Accepted(c), c.mla
  PROVE  SharesHeads(0, 1)
<1>1. c \in Config /\ TpRatio(c) \in Int /\ TpRatio(c) # 0
  BY Sizes DEF Accepted
<1>2. /\ HeadsOf(c, c.tp) = 1 /\ c.tokens \in Nat \ {0} /\ Unit(c) = c.tokens * 1
  BY <1>1, UnitIs DEF HeadsOf
<1>3. RankOffset(c) = 0 /\ RemoteLen(c) = Unit(c)
  BY DEF RankOffset, RemoteLen
<1>4. RanksRead = 1
  <2>1. CASE TpRatio(c) > 0
    BY <1>1, <2>1 DEF RanksRead, TargetRemoteRanks
  <2>2. CASE TpRatio(c) < 0
    BY <2>2 DEF RanksRead
  <2> QED
    BY <1>1, <2>1, <2>2
<1>5. \A rank, t, h : GlobalHead(c, t, rank, h) = 0
  BY DEF GlobalHead
<1> QED
  BY <1>1, <1>2, <1>3, <1>4, <1>5 DEF SharesHeads

\* A producer of fewer ranks, or of as many: one rank is read.
LEMMA SharesOfLarger ==
  ASSUME Accepted(c), HeadsDivide(c), ~c.mla, TpRatio(c) > 0
  PROVE  \E o, l \in Nat : SharesHeads(o, l)
<1> DEFINE t == TpRatio(c)
           hs == HeadsOf(c, c.tp)
           q == c.tp_rank \div t
           s == c.tp_rank % t
<1>1. /\ c \in Config /\ t \in Nat \ {0}
      /\ c.heads \in Nat \ {0} /\ c.tp \in Nat \ {0} /\ c.remote_tp \in Nat \ {0}
      /\ c.tp_rank \in Nat
  BY Sizes DEF Accepted, Config
<1>2. hs \in Nat \ {0} /\ c.tokens \in Nat \ {0} /\ Unit(c) = c.tokens * hs
  BY <1>1, UnitIs
<1>3. RanksRead = 1 /\ TargetRemoteRanks(c)[1] = q
  BY <1>1 DEF RanksRead, TargetRemoteRanks
<1>4. c.tp >= c.remote_tp /\ t = c.tp \div c.remote_tp
  <2>1. CASE ~(c.tp >= c.remote_tp)
    <3>1. t = -(c.remote_tp \div c.tp) /\ c.remote_tp \div c.tp \in Nat
      BY <1>1, <2>1 DEF TpRatio
    <3> QED
      BY <1>1, <3>1
  <2> QED
    BY <2>1 DEF TpRatio
<1>5. c.tp = c.remote_tp * t
  <2>1. c.tp % c.remote_tp = 0 \/ c.remote_tp % c.tp = 0
    BY DEF HeadsDivide
  <2> QED
    BY <1>1, <1>4, <2>1, Multiple
<1>6. q \in Nat /\ s \in 0..(t - 1) /\ c.tp_rank = t * q + s
  BY <1>1, Quotient
<1>7. RemoteLen(c) = c.tokens * hs
  BY <1>1, <1>2 DEF RemoteLen
<1>8. CASE IsKvReplicated(c)
  <2>1. RankOffset(c) = 0 /\ c.remote_tp >= c.heads
    BY <1>8 DEF RankOffset, IsKvReplicated
  <2>2. hs = 1
    BY <1>1, <1>4, <2>1 DEF HeadsOf
  <2> DEFINE m == c.remote_tp \div c.heads
  <2>3. m \in Nat \ {0} /\ c.remote_tp = c.heads * m
    <3>1. c.heads % c.remote_tp = 0 \/ c.remote_tp % c.heads = 0
      BY DEF HeadsDivide
    <3> QED
      BY <1>1, <2>1, <3>1, Multiple
  <2> HIDE DEF m, q, s, t
  <2>4. (q * c.heads) \div c.remote_tp = q \div m
    <3>1. c.remote_tp = m * c.heads
      BY <1>1, <2>3
    <3>2. (q * c.heads) \div (m * c.heads) = q \div m
      BY <1>1, <1>6, <2>3, Reduced
    <3> QED
      BY <3>1, <3>2
  <2>5. (c.tp_rank * c.heads) \div c.tp = c.tp_rank \div (t * m)
    <3>1. c.tp = (t * m) * c.heads /\ t * m \in Nat \ {0}
      BY <1>1, <1>5, <2>3
    <3> DEFINE e == t * m
    <3> HIDE DEF e
    <3>2. (c.tp_rank * c.heads) \div (e * c.heads) = c.tp_rank \div e
      BY <1>1, <3>1, Reduced DEF e
    <3> QED
      BY <3>1, <3>2 DEF e
  <2>6. q \div m = c.tp_rank \div (t * m)
    BY <1>1, <2>3, QuotientOfQuotient DEF q
  <2>7. \A h \in Nat : GlobalHead(c, c.remote_tp, q, h) = GlobalHead(c, c.tp, c.tp_rank, h)
    BY <2>4, <2>5, <2>6 DEF GlobalHead
  <2>8. SharesHeads(0, 1)
    BY <1>2, <1>3, <1>7, <2>1, <2>2, <2>7 DEF SharesHeads
  <2> QED
    BY <2>8
<1>9. CASE ~IsKvReplicated(c)
  <2> DEFINE rhs == HeadsOf(c, c.remote_tp)
             o == s * hs
  <2>1. RankOffset(c) = s * Unit(c)
    BY <1>1, <1>9 DEF RankOffset, Unit
  <2>2. c.remote_tp < c.heads
    BY <1>1, <1>9 DEF IsKvReplicated
  <2>3. rhs = c.heads \div c.remote_tp /\ c.heads = c.remote_tp * rhs /\ rhs \in Nat \ {0}
    <3>1. c.heads % c.remote_tp = 0 \/ c.remote_tp % c.heads = 0
      BY DEF HeadsDivide
    <3>2. rhs = c.heads \div c.remote_tp
      BY <1>1, <2>2 DEF HeadsOf
    <3>3. c.remote_tp <= c.heads
      BY <1>1, <2>2
    <3>4. /\ c.heads \div c.remote_tp \in Nat \ {0}
          /\ c.heads = c.remote_tp * (c.heads \div c.remote_tp)
      BY <1>1, <3>1, <3>3, Multiple
    <3> QED
      BY <3>2, <3>4
  <2>4. rhs = hs * t
    <3>1. RemoteKvLen(c) = Unit(c) * t
      BY <1>1, <1>9, AcceptedLengths
    <3>2. RemoteKvLen(c) = c.tokens * rhs
      BY <1>1, UnitIs
    <3> HIDE DEF rhs, hs, t
    <3>3. c.tokens * rhs = c.tokens * (hs * t) /\ hs * t \in Nat
      BY <1>1, <1>2, <3>1, <3>2
    <3> QED
      BY <1>2, <2>3, <3>3, Cancel
  <2> HIDE DEF rhs, hs, t, q, s
  <2>5. RankOffset(c) = c.tokens * o /\ o \in Nat
    <3>1. s * (c.tokens * hs) = c.tokens * (s * hs)
      BY <1>1, <1>2, <1>6
    <3> QED
      BY <1>1, <1>2, <1>6, <2>1, <3>1
  <2>6. (q * c.heads) \div c.remote_tp = q * rhs
    <3>1. q * c.heads = (q * rhs) * c.remote_tp /\ q * rhs \in Nat
      BY <1>1, <1>6, <2>3
    <3> DEFINE e == q * rhs
    <3> HIDE DEF e
    <3>2. (e * c.remote_tp) \div c.remote_tp = e
      BY <1>1, <3>1, QuotientOfProduct DEF e
    <3> QED
      BY <3>1, <3>2 DEF e
  <2>7. (c.tp_rank * c.heads) \div c.tp = c.tp_rank * hs
    <3>1. c.heads = hs * c.tp
      <4>1. c.remote_tp * (hs * t) = hs * (c.remote_tp * t)
        BY <1>1, <1>2
      <4> QED
        BY <1>5, <2>3, <2>4, <4>1
    <3>2. c.tp_rank * c.heads = (c.tp_rank * hs) * c.tp /\ c.tp_rank * hs \in Nat
      BY <1>1, <1>2, <3>1
    <3> DEFINE e == c.tp_rank * hs
    <3> HIDE DEF e
    <3>3. (e * c.tp) \div c.tp = e
      BY <1>1, <3>2, QuotientOfProduct DEF e
    <3> QED
      BY <3>2, <3>3 DEF e
  <2>8. q * rhs + o = c.tp_rank * hs
    <3>1. (t * q + s) * hs = q * (hs * t) + s * hs
      BY <1>1, <1>2, <1>6
    <3> QED
      BY <1>6, <2>4, <3>1
  <2>9. ASSUME NEW h \in Nat
        PROVE  GlobalHead(c, c.remote_tp, q, o + h) = GlobalHead(c, c.tp, c.tp_rank, h)
    <3> DEFINE a == q * rhs
               b == c.tp_rank * hs
    <3>1. a \in Nat /\ a + o = b /\ o \in Nat
      BY <1>6, <2>3, <2>5, <2>8
    <3>2. /\ GlobalHead(c, c.remote_tp, q, o + h) = a + (o + h)
          /\ GlobalHead(c, c.tp, c.tp_rank, h) = b + h
      BY <2>6, <2>7 DEF GlobalHead
    <3> HIDE DEF a, b, o
    <3> QED
      BY <3>1, <3>2
  <2>10. SharesHeads(o, hs)
    <3>1. 1 * hs = hs /\ \A h \in Nat : 0 * hs + h = h
      BY <1>2
    <3> HIDE DEF o
    <3> QED
      BY <1>2, <1>3, <1>7, <2>5, <2>9, <3>1 DEF SharesHeads, hs, q
  <2> QED
    BY <1>2, <2>5, <2>10
<1> QED
  BY <1>8, <1>9

\* A producer of more ranks: each of those read has a part of the worker's heads.
LEMMA SharesOfSmaller ==
  ASSUME Accepted(c), HeadsDivide(c), ~c.mla, TpRatio(c) < 0
  PROVE  \E l \in Nat : SharesHeads(0, l)
<1> DEFINE n == -TpRatio(c)
           hs == HeadsOf(c, c.tp)
           rhs == HeadsOf(c, c.remote_tp)
<1>1. /\ c \in Config /\ TpRatio(c) \in Int
      /\ c.heads \in Nat \ {0} /\ c.tp \in Nat \ {0} /\ c.remote_tp \in Nat \ {0}
      /\ c.tp_rank \in Nat
  BY Sizes DEF Accepted, Config
<1>2. /\ hs \in Nat \ {0} /\ rhs \in Nat \ {0} /\ c.tokens \in Nat \ {0}
      /\ Unit(c) = c.tokens * hs
  BY <1>1, UnitIs
<1>3. c.remote_tp >= c.tp /\ n = c.remote_tp \div c.tp
  <2>1. CASE c.tp >= c.remote_tp
    <3>1. TpRatio(c) = c.tp \div c.remote_tp /\ c.tp \div c.remote_tp \in Nat
      BY <1>1, <2>1 DEF TpRatio
    <3> QED
      BY <1>1, <3>1
  <2>2. CASE ~(c.tp >= c.remote_tp)
    <3>1. TpRatio(c) = -(c.remote_tp \div c.tp) /\ c.remote_tp \div c.tp \in Nat
      BY <1>1, <2>2 DEF TpRatio
    <3> QED
      BY <1>1, <2>2, <3>1
  <2> QED
    BY <2>1, <2>2
<1>4. n \in Nat \ {0} /\ c.remote_tp = c.tp * n
  <2>1. c.tp % c.remote_tp = 0 \/ c.remote_tp % c.tp = 0
    BY DEF HeadsDivide
  <2> QED
    BY <1>1, <1>3, <2>1, Multiple
<1>5. RanksRead = n
  BY RanksReadOfSplit
<1>6. c.remote_tp < c.heads /\ c.tp < c.heads
  BY <1>1, <1>3 DEF Accepted, ValidHandshake, IsKvReplicated
<1>7. c.heads = c.remote_tp * rhs /\ c.heads = c.tp * hs
  <2>1. /\ c.heads % c.remote_tp = 0 \/ c.remote_tp % c.heads = 0
        /\ c.heads % c.tp = 0 \/ c.tp % c.heads = 0
    BY DEF HeadsDivide
  <2>2. rhs = c.heads \div c.remote_tp /\ hs = c.heads \div c.tp
    BY <1>1, <1>6 DEF HeadsOf
  <2>3. c.remote_tp <= c.heads /\ c.tp <= c.heads
    BY <1>1, <1>6
  <2>4. /\ c.heads = c.remote_tp * (c.heads \div c.remote_tp)
        /\ c.heads = c.tp * (c.heads \div c.tp)
    BY <1>1, <2>1, <2>3, Multiple
  <2> QED
    BY <2>2, <2>4
<1>8. RankOffset(c) = 0 /\ RemoteLen(c) = Unit(c) \div n
  BY <1>1 DEF RankOffset, RemoteLen
<1>9. ASSUME NEW i \in 0..(n - 1) PROVE TargetRemoteRanks(c)[i + 1] = c.tp_rank * n + i
  <2>1. TargetRemoteRanks(c) = [j \in 1..n |-> c.tp_rank * n + j - 1]
    BY <1>1 DEF TargetRemoteRanks
  <2> HIDE DEF n
  <2>2. i + 1 \in 1..n /\ c.tp_rank * n \in Nat
    BY <1>1, <1>4
  <2>3. TargetRemoteRanks(c)[i + 1] = c.tp_rank * n + (i + 1) - 1
    BY <2>1, <2>2
  <2> DEFINE a == c.tp_rank * n
  <2>4. a \in Nat /\ TargetRemoteRanks(c)[i + 1] = a + (i + 1) - 1
    BY <2>2, <2>3
  <2> HIDE DEF a
  <2>5. TargetRemoteRanks(c)[i + 1] = a + i
    BY <2>4
  <2> QED
    BY <2>5 DEF a
<1> HIDE DEF n, hs, rhs
<1>10. hs = n * rhs
  <2>1. c.tp * hs = c.tp * (n * rhs) /\ n * rhs \in Nat
    BY <1>1, <1>2, <1>4, <1>7
  <2> QED
    BY <1>1, <1>2, <2>1, Cancel
<1>11. RemoteLen(c) = c.tokens * rhs
  <2> DEFINE len == c.tokens * rhs
  <2>1. Unit(c) = len * n /\ len \in Nat
    BY <1>2, <1>4, <1>10
  <2> HIDE DEF len
  <2>2. (len * n) \div n = len
    BY <1>4, <2>1, QuotientOfProduct
  <2> QED
    BY <1>8, <2>1, <2>2 DEF len
<1>12. ASSUME NEW rank \in Nat
       PROVE  (rank * c.heads) \div c.remote_tp = rank * rhs
  <2>1. rank * c.heads = (rank * rhs) * c.remote_tp /\ rank * rhs \in Nat
    BY <1>1, <1>2, <1>7
  <2> DEFINE e == rank * rhs
  <2> HIDE DEF e
  <2>2. (e * c.remote_tp) \div c.remote_tp = e
    BY <1>1, <2>1, QuotientOfProduct DEF e
  <2> QED
    BY <2>1, <2>2 DEF e
<1>13. (c.tp_rank * c.heads) \div c.tp = c.tp_rank * hs
  <2>1. c.tp_rank * c.heads = (c.tp_rank * hs) * c.tp /\ c.tp_rank * hs \in Nat
    BY <1>1, <1>2, <1>7
  <2> DEFINE e == c.tp_rank * hs
  <2> HIDE DEF e
  <2>2. (e * c.tp) \div c.tp = e
    BY <1>1, <2>1, QuotientOfProduct DEF e
  <2> QED
    BY <2>1, <2>2 DEF e
<1>14. ASSUME NEW i \in 0..(n - 1), NEW h \in 0..(rhs - 1)
       PROVE  GlobalHead(c, c.remote_tp, TargetRemoteRanks(c)[i + 1], 0 + h)
                = GlobalHead(c, c.tp, c.tp_rank, i * rhs + h)
  <2> DEFINE rank == c.tp_rank * n + i
             a == c.tp_rank * hs
             b == i * rhs
  <2>1. rank \in Nat /\ TargetRemoteRanks(c)[i + 1] = rank
    BY <1>1, <1>4, <1>9
  <2>2. (rank * c.heads) \div c.remote_tp = rank * rhs
    <3> HIDE DEF rank
    <3> QED
      BY <1>12, <2>1
  <2>3. rank * rhs = a + b /\ a \in Nat /\ b \in Nat
    <3>1. (c.tp_rank * n + i) * rhs = c.tp_rank * (n * rhs) + i * rhs
      BY <1>1, <1>2, <1>4
    <3> QED
      BY <1>1, <1>2, <1>10, <3>1
  <2>4. GlobalHead(c, c.remote_tp, rank, 0 + h) = (a + b) + (0 + h)
    <3> HIDE DEF rank, a, b
    <3> QED
      BY <2>2, <2>3 DEF GlobalHead
  <2>5. GlobalHead(c, c.tp, c.tp_rank, i * rhs + h) = a + (b + h)
    BY <1>13 DEF GlobalHead
  <2> HIDE DEF rank, a, b
  <2> QED
    BY <2>1, <2>3, <2>4, <2>5
<1>15. SharesHeads(0, rhs)
  <2>1. c.tokens * 0 = 0 /\ 0 \in Nat
    BY <1>2
  <2> QED
    BY <1>2, <1>4, <1>5, <1>8, <1>10, <1>11, <1>14, <2>1 DEF SharesHeads, hs
<1> QED
  BY <1>2, <1>15

LEMMA HeadsMatch ==
  ASSUME Accepted(c), HeadsDivide(c)
  PROVE  \E o, l \in Nat : SharesHeads(o, l)
<1>1. TpRatio(c) \in Int /\ TpRatio(c) # 0
  BY Sizes DEF Accepted
<1> QED
  BY <1>1, SharesLatent, SharesOfLarger, SharesOfSmaller

\* The y-th cell of the i-th share is the same head and token on both sides.
LEMMA SharedCell ==
  ASSUME Accepted(c), HeadsDivide(c), NEW i \in 0..(RanksRead - 1),
         NEW k \in 0..(RemoteLen(c) - 1), NEW y, y = i * RemoteLen(c) + k
  PROVE  /\ y \in 0..(Unit(c) - 1)
         /\ (RankOffset(c) + k) % c.tokens = y % c.tokens
         /\ GlobalHead(c, c.remote_tp, TargetRemoteRanks(c)[i + 1],
                       (RankOffset(c) + k) \div c.tokens)
              = GlobalHead(c, c.tp, c.tp_rank, y \div c.tokens)
<1>1. PICK o, l \in Nat : SharesHeads(o, l)
  BY HeadsMatch
<1> DEFINE n == c.tokens
           m == RanksRead
           len == RemoteLen(c)
           h == k \div n
           t == k % n
<1>2. /\ n \in Nat \ {0} /\ l \in Nat \ {0} /\ o \in Nat /\ m \in Nat \ {0}
      /\ len = n * l /\ RankOffset(c) = n * o /\ Unit(c) = n * (m * l)
      /\ i \in 0..(m - 1) /\ k \in 0..(len - 1) /\ y = i * len + k
  BY <1>1, UnitIs DEF SharesHeads, Accepted
<1> HIDE DEF n, m, len
<1>3. len \in Nat /\ k \in Nat
  BY <1>2
<1>4. h \in Nat /\ t \in 0..(n - 1) /\ k = n * h + t
  BY <1>2, <1>3, Quotient
<1>5. h \in 0..(l - 1)
  <2>1. n \in Nat \ {0} /\ l \in Nat /\ k \in Nat /\ k < n * l
    <3>1. n * l \in Nat
      BY <1>2
    <3> QED
      BY <1>2, <1>3, <3>1
  <2> QED
    BY <2>1, QuotientBelow
<1> HIDE DEF h, t
<1>6. y \in 0..(Unit(c) - 1)
  <2>1. len * i + k \in 0..(len * m - 1)
    BY <1>2, <1>3, Within
  <2>2. len * i = i * len /\ (n * l) * m = n * (m * l)
    BY <1>2, <1>3
  <2> QED
    BY <1>2, <2>1, <2>2
<1>7. y \div n = i * l + h /\ y % n = t
  <2> DEFINE q == i * l + h
  <2>1. q \in Nat /\ y = n * q + t
    <3>1. n * (i * l + h) = i * (n * l) + n * h /\ i * l \in Nat /\ i * (n * l) \in Nat
          /\ n * h \in Nat
      BY <1>2, <1>4
    <3> QED
      BY <1>2, <1>4, <3>1
  <2>2. n \in Nat \ {0} /\ t \in 0..(n - 1)
    BY <1>2, <1>4
  <2> HIDE DEF q
  <2>3. y \div n = q /\ y % n = t
    BY <2>1, <2>2, QuotientIs
  <2> QED
    BY <2>3 DEF q
<1>8. (RankOffset(c) + k) \div n = o + h /\ (RankOffset(c) + k) % n = t
  <2> DEFINE q == o + h
             z == RankOffset(c) + k
  <2>1. q \in Nat /\ z = n * q + t
    <3>1. n * (o + h) = n * o + n * h /\ n * o \in Nat /\ n * h \in Nat
      BY <1>2, <1>4
    <3> QED
      BY <1>2, <1>4, <3>1
  <2>2. n \in Nat \ {0} /\ t \in 0..(n - 1)
    BY <1>2, <1>4
  <2> HIDE DEF q, z
  <2>3. z \div n = q /\ z % n = t
    BY <2>1, <2>2, QuotientIs
  <2> QED
    BY <2>3 DEF q, z
<1>9. GlobalHead(c, c.remote_tp, TargetRemoteRanks(c)[i + 1], o + h)
        = GlobalHead(c, c.tp, c.tp_rank, i * l + h)
  BY <1>1, <1>5 DEF SharesHeads
<1> QED
  BY <1>6, <1>7, <1>8, <1>9 DEF n

\* The shares are all there is.
LEMMA EveryCellShared ==
  ASSUME Accepted(c), HeadsDivide(c), NEW y \in 0..(Unit(c) - 1)
  PROVE  \E i \in 0..(RanksRead - 1), k \in 0..(RemoteLen(c) - 1) :
            y = i * RemoteLen(c) + k
<1>1. PICK o, l \in Nat : SharesHeads(o, l)
  BY HeadsMatch
<1> DEFINE n == c.tokens
           m == RanksRead
           len == RemoteLen(c)
           i == y \div len
           k == y % len
<1>2. /\ n \in Nat \ {0} /\ l \in Nat \ {0} /\ m \in Nat \ {0}
      /\ len = n * l /\ Unit(c) = n * (m * l) /\ y \in 0..(Unit(c) - 1)
  BY <1>1, UnitIs DEF SharesHeads, Accepted
<1> HIDE DEF n, m, len
<1>3. len \in Nat \ {0} /\ Unit(c) = len * m /\ Unit(c) \in Nat
  <2>1. (n * l) * m = n * (m * l) /\ n * l \in Nat \ {0} /\ (n * l) * m \in Nat
    BY <1>2
  <2> QED
    BY <1>2, <2>1
<1>4. y \in Nat /\ y < len * m
  BY <1>2, <1>3
<1>5. i \in 0..(m - 1)
  BY <1>2, <1>3, <1>4, QuotientBelow
<1>6. k \in 0..(len - 1) /\ y = len * i + k /\ i \in Nat
  <2>1. y \in Nat /\ len \in Nat \ {0}
    BY <1>3, <1>4
  <2> QED
    BY <2>1, Quotient
<1> HIDE DEF i, k
<1>7. len * i = i * len
  BY <1>3, <1>6
<1> QED
  BY <1>5, <1>6, <1>7 DEF m, len

-----------------------------------------------------------------------------
(* The cells of a pair of descriptors *)

\* A descriptor id, and what _get_block_descs_ids made it of.
LEMMA DescPlace ==
  ASSUME Accepted(c), NEW layer \in 0..(c.layers - 1), NEW g \in 0..(RegionsPerLayer(c) - 1),
         NEW blocks \in Nat, NEW b \in 0..(blocks - 1),
         NEW d, d = (RegionsPerLayer(c) * layer + g) * blocks + b
  PROVE  /\ d \in 0..(NumBases(c) * Parts(c) * blocks - 1)
         /\ d % blocks = b /\ (d \div blocks) % Parts(c) \in 0..(Parts(c) - 1)
         /\ LayerAndKv(c, d \div (Parts(c) * blocks), (d \div blocks) % Parts(c)) = <<layer, g>>
<1> DEFINE per == RegionsPerLayer(c)
           m == per * layer + g
<1>1. /\ per \in {1, 2} /\ c.layers \in Nat /\ layer \in Nat /\ layer \in 0..(c.layers - 1)
      /\ g \in Nat /\ g \in 0..(per - 1)
      /\ c.mla \in BOOLEAN /\ c.blocks_first \in BOOLEAN /\ (c.blocks_first => ~c.mla)
  BY DEF RegionsPerLayer, Accepted, Config
<1>2. NumBases(c) * Parts(c) = per * c.layers
  BY <1>1 DEF NumBases, Parts, RegionsPerLayer
<1>3. per = (IF c.mla THEN 1 ELSE 2) /\ Parts(c) = IF c.blocks_first THEN 2 ELSE 1
  BY DEF RegionsPerLayer, Parts
<1>4. blocks \in Nat \ {0} /\ b \in Nat /\ b \in 0..(blocks - 1)
  OBVIOUS
<1> HIDE DEF per
<1>5. m \in 0..(per * c.layers - 1) /\ m \in Nat /\ per * c.layers \in Nat
  <2>1. per \in Nat
    BY <1>1
  <2>2. m \in 0..(per * c.layers - 1)
    BY <1>1, <2>1, Within
  <2>3. per * c.layers \in Nat
    BY <1>1, <2>1
  <2> QED
    BY <2>2, <2>3
<1>6. d = m * blocks + b
  BY DEF m, per
<1>7. layer = m \div per /\ g = m % per
  <2>1. per \in Nat \ {0} /\ m = per * layer + g /\ layer \in Nat /\ g \in 0..(per - 1)
    BY <1>1
  <2> HIDE DEF m
  <2>2. m \in Nat /\ m \div per = layer /\ m % per = g
    BY <2>1, QuotientIs, Zenon
  <2> QED
    BY <2>2
<1> HIDE DEF m
<1>8. d = blocks * m + b
  BY <1>4, <1>5, <1>6
<1>9. d \div blocks = m /\ d % blocks = b /\ d \in Nat
  BY <1>4, <1>5, <1>8, QuotientIs
<1>10. d \in 0..(NumBases(c) * Parts(c) * blocks - 1)
  <2> DEFINE e == per * c.layers
  <2>1. e \in Nat /\ m \in 0..(e - 1)
    BY <1>5
  <2> HIDE DEF e
  <2>2. blocks * m + b \in 0..(blocks * e - 1) /\ blocks * e = e * blocks
    BY <1>4, <2>1, Within
  <2>3. NumBases(c) * Parts(c) * blocks = e * blocks
    BY <1>2 DEF e
  <2> QED
    BY <1>8, <2>2, <2>3
<1>11. CASE c.blocks_first
  <2>1. Parts(c) = 2 /\ per = 2 /\ ~c.mla
    BY <1>1, <1>3, <1>11
  <2>2. d \div (blocks * 2) = m \div 2
    BY <1>4, <1>9, QuotientOfQuotient
  <2>3. blocks * 2 = 2 * blocks
    BY <1>4
  <2>4. LayerAndKv(c, m \div 2, m % 2) = <<m \div 2, m % 2>>
    BY <1>11, <2>1 DEF LayerAndKv
  <2>5. m % 2 \in 0..1
    BY <1>5
  <2> QED
    BY <1>7, <1>9, <1>10, <2>1, <2>2, <2>3, <2>4, <2>5
<1>12. CASE ~c.blocks_first
  <2>1. Parts(c) = 1 /\ m % 1 = 0 /\ 1 * blocks = blocks
    BY <1>3, <1>4, <1>5, <1>12
  <2>2. LayerAndKv(c, m, 0) = <<layer, g>>
    <3>1. CASE c.mla
      <4>1. per = 1 /\ layer = m /\ g = 0
        BY <1>3, <1>5, <1>7, <3>1
      <4> QED
        BY <3>1, <4>1 DEF LayerAndKv
    <3>2. CASE ~c.mla
      <4>1. per = 2
        BY <1>3, <3>2
      <4> QED
        BY <1>7, <1>12, <3>2, <4>1 DEF LayerAndKv
    <3> QED
      BY <3>1, <3>2
  <2> QED
    BY <1>9, <1>10, <2>1, <2>2
<1> QED
  BY <1>11, <1>12

\* Only a worker that has more heads than each producer rank reads several.
LEMMA OneRankRead ==
  ASSUME Accepted(c), ~(TpRatio(c) < 0 /\ ~c.mla)
  PROVE  RanksRead = 1
<1>1. TpRatio(c) \in Int /\ TpRatio(c) # 0
  BY Sizes DEF Accepted
<1>2. CASE TpRatio(c) > 0
  <2>1. TargetRemoteRanks(c) = <<c.tp_rank \div TpRatio(c)>>
    BY <1>2 DEF TargetRemoteRanks
  <2>2. RanksRead = Len(TargetRemoteRanks(c))
    BY <1>1, <1>2 DEF RanksRead
  <2> QED
    BY <2>1, <2>2
<1>3. CASE TpRatio(c) < 0
  BY <1>3 DEF RanksRead
<1> QED
  BY <1>1, <1>2, <1>3

\* The source descriptor of the i-th rank: the i-th share of a K or V part.
LEMMA SourceIs ==
  ASSUME Accepted(c), NEW i \in 0..(RanksRead - 1),
         NEW d \in 0..(NumBases(c) * Parts(c) * LocalNum(c) - 1),
         NEW s, s = (d % LocalNum(c)) * (BlockLen(c) \div c.ratio)
                      + ((d \div LocalNum(c)) % Parts(c)) * Unit(c),
         s \in Nat
  PROVE  SourceDescs(c, i)[d]
           = Desc(d \div (Parts(c) * LocalNum(c)), s + i * RemoteLen(c), RemoteLen(c))
<1>1. LocalDescs(c)[d] = Desc(d \div (Parts(c) * LocalNum(c)), s, Unit(c))
      /\ d \in DOMAIN LocalDescs(c)
  BY LocalDescsAre
<1>2. CASE TpRatio(c) < 0 /\ ~c.mla
  <2>1. RemoteLen(c) = Unit(c) \div (-TpRatio(c))
    BY <1>2 DEF RemoteLen
  <2>2. SourceDescs(c, i)[d] = SplitDescs(c, i)[d]
    BY <1>2 DEF SourceDescs
  <2>3. SplitDescs(c, i)[d]
          = Desc(LocalDescs(c)[d].base,
                 LocalDescs(c)[d].off + i * (LocalDescs(c)[d].len \div (-TpRatio(c))),
                 LocalDescs(c)[d].len \div (-TpRatio(c)))
    BY <1>1 DEF SplitDescs
  <2> DEFINE y == LocalDescs(c)[d]
             base == d \div (Parts(c) * LocalNum(c))
  <2>4. y.base = base /\ y.off = s /\ y.len = Unit(c)
    <3> HIDE DEF base
    <3>1. y = Desc(base, s, Unit(c))
      BY <1>1 DEF base
    <3> HIDE DEF y
    <3> QED
      BY <3>1 DEF Desc
  <2> HIDE DEF y, base
  <2>5. SplitDescs(c, i)[d] = Desc(y.base, y.off + i * (y.len \div (-TpRatio(c))),
                                   y.len \div (-TpRatio(c)))
    BY <2>3 DEF y
  <2> QED
    BY <2>1, <2>2, <2>4, <2>5 DEF base
<1>3. CASE ~(TpRatio(c) < 0 /\ ~c.mla)
  <2>1. RemoteLen(c) = Unit(c) /\ SourceDescs(c, i) = LocalDescs(c)
    BY <1>3 DEF RemoteLen, SourceDescs
  <2>2. RanksRead = 1
    BY <1>3, OneRankRead
  <2>3. i = 0
    BY <2>2
  <2>4. RemoteLen(c) \in Nat
    BY AcceptedLengths
  <2>5. s + i * RemoteLen(c) = s
    BY <2>3, <2>4
  <2> QED
    BY <1>1, <2>1, <2>5
<1> QED
  BY <1>2, <1>3

\* The y-th cell of producer block b, and its place in part a of the worker's.
PairAt(layer, g, a, b, y) ==
  <<<<<<layer, g>>, a \div c.ratio,
      <<y \div c.tokens, (a % c.ratio) * c.tokens + (y % c.tokens)>>>>,
    <<<<layer, g>>, b,
      <<GlobalHead(c, c.tp, c.tp_rank, y \div c.tokens), y % c.tokens>>>>>>

CellsOf(i, x, z, k) ==
  <<LocalCell(c, x.base, x.off + k),
    RemoteCell(c, TargetRemoteRanks(c)[i + 1], z.base, z.off + k)>>

PlaceOf(layer, g, blocks, b) == (RegionsPerLayer(c) * layer + g) * blocks + b

LEMMA LocalOfPair ==
  ASSUME Accepted(c), HeadsDivide(c), NEW i \in 0..(RanksRead - 1),
         NEW layer \in 0..(c.layers - 1), NEW g \in 0..(RegionsPerLayer(c) - 1),
         NEW a \in 0..(LocalNum(c) - 1), NEW k \in 0..(RemoteLen(c) - 1),
         NEW y, y = i * RemoteLen(c) + k
  PROVE  LET x == SourceDescs(c, i)[PlaceOf(layer, g, LocalNum(c), a)]
         IN  /\ x.len = RemoteLen(c)
             /\ LocalCell(c, x.base, x.off + k)
                  = <<<<layer, g>>, a \div c.ratio,
                      <<y \div c.tokens, (a % c.ratio) * c.tokens + (y % c.tokens)>>>>
<1> DEFINE d == PlaceOf(layer, g, LocalNum(c), a)
           base == d \div (Parts(c) * LocalNum(c))
           part == (d \div LocalNum(c)) % Parts(c)
           s == a * (BlockLen(c) \div c.ratio) + part * Unit(c)
<1>1. LocalNum(c) \in Nat
  BY Sizes DEF Accepted
<1>2. d = (RegionsPerLayer(c) * layer + g) * LocalNum(c) + a
  BY DEF PlaceOf
<1> HIDE DEF d
<1>3. /\ d \in 0..(NumBases(c) * Parts(c) * LocalNum(c) - 1)
      /\ d % LocalNum(c) = a /\ part \in 0..(Parts(c) - 1)
      /\ LayerAndKv(c, base, part) = <<layer, g>>
  BY <1>1, <1>2, DescPlace
<1>4. /\ BlockLen(c) \div c.ratio \in Nat /\ Unit(c) \in Nat /\ RemoteLen(c) \in Nat
      /\ i \in Nat /\ k \in Nat /\ a \in Nat /\ part \in Nat
  <2>1. BlockLen(c) \div c.ratio \in Nat /\ Unit(c) \in Nat
    BY BlockLens
  <2>2. RemoteLen(c) \in Nat
    BY AcceptedLengths
  <2>3. i \in Nat /\ k \in Nat /\ a \in Nat
    BY <1>1, <2>2
  <2>4. part \in Nat
    <3> HIDE DEF part
    <3> QED
      BY <1>3 DEF Parts
  <2> QED
    BY <2>1, <2>2, <2>3, <2>4
<1>5. s \in Nat
  <2> HIDE DEF part
  <2> QED
    BY <1>4
<1>6. s = (d % LocalNum(c)) * (BlockLen(c) \div c.ratio) + part * Unit(c)
  BY <1>3
<1>7. y \in 0..(Unit(c) - 1)
  BY SharedCell
<1>8. LocalCell(c, base, s + y)
        = <<LayerAndKv(c, base, part), a \div c.ratio,
            <<y \div c.tokens, (a % c.ratio) * c.tokens + (y % c.tokens)>>>>
  BY <1>3, <1>4, <1>7, LocalCellIs
<1> HIDE DEF s
<1>9. SourceDescs(c, i)[d] = Desc(base, s + i * RemoteLen(c), RemoteLen(c))
  BY <1>3, <1>5, <1>6, SourceIs
<1> HIDE DEF base, part
<1>10. (s + i * RemoteLen(c)) + k = s + y
  <2>1. i * RemoteLen(c) \in Nat
    BY <1>4
  <2> QED
    BY <1>4, <1>5, <2>1
<1> QED
  BY <1>3, <1>8, <1>9, <1>10 DEF Desc, d

LEMMA RemoteOfPair ==
  ASSUME Accepted(c), HeadsDivide(c), NEW i \in 0..(RanksRead - 1),
         NEW layer \in 0..(c.layers - 1), NEW g \in 0..(RegionsPerLayer(c) - 1),
         NEW b \in 0..(RemoteNum(c) - 1), NEW k \in 0..(RemoteLen(c) - 1),
         NEW y, y = i * RemoteLen(c) + k
  PROVE  LET z == RemoteDescs(c)[PlaceOf(layer, g, RemoteNum(c), b)]
         IN  RemoteCell(c, TargetRemoteRanks(c)[i + 1], z.base, z.off + k)
               = <<<<layer, g>>, b,
                   <<GlobalHead(c, c.tp, c.tp_rank, y \div c.tokens), y % c.tokens>>>>
<1> DEFINE d == PlaceOf(layer, g, RemoteNum(c), b)
           base == d \div (Parts(c) * RemoteNum(c))
           part == (d \div RemoteNum(c)) % Parts(c)
           s == b * RemoteBlockLen(c) + RankOffset(c) + part * (RemoteBlockLen(c) \div 2)
           rank == TargetRemoteRanks(c)[i + 1]
<1>1. RemoteNum(c) \in Nat
  BY Sizes DEF Accepted
<1>2. d = (RegionsPerLayer(c) * layer + g) * RemoteNum(c) + b
  BY DEF PlaceOf
<1> HIDE DEF d, rank
<1>3. /\ d \in 0..(NumBases(c) * Parts(c) * RemoteNum(c) - 1)
      /\ d % RemoteNum(c) = b /\ part \in 0..(Parts(c) - 1)
      /\ LayerAndKv(c, base, part) = <<layer, g>>
  BY <1>1, <1>2, DescPlace
<1>4. b \in Nat
  BY <1>1
<1>5. RemoteCell(c, rank, base, s + k)
        = <<LayerAndKv(c, base, part), b,
            <<GlobalHead(c, c.remote_tp, rank, (RankOffset(c) + k) \div c.tokens),
              (RankOffset(c) + k) % c.tokens>>>>
  BY <1>3, <1>4, RemoteCellIs
<1>6. /\ (RankOffset(c) + k) % c.tokens = y % c.tokens
      /\ GlobalHead(c, c.remote_tp, rank, (RankOffset(c) + k) \div c.tokens)
           = GlobalHead(c, c.tp, c.tp_rank, y \div c.tokens)
  BY SharedCell DEF rank
<1>7. RemoteDescs(c)[d] = Desc(base, s, RemoteLen(c))
  BY <1>3, RemoteDescsAre
<1> HIDE DEF s, base, part
<1> QED
  BY <1>3, <1>5, <1>6, <1>7 DEF Desc, d, rank

LEMMA PairCells ==
  ASSUME Accepted(c), HeadsDivide(c), NEW i \in 0..(RanksRead - 1),
         NEW layer \in 0..(c.layers - 1), NEW g \in 0..(RegionsPerLayer(c) - 1),
         NEW a \in 0..(LocalNum(c) - 1), NEW b \in 0..(RemoteNum(c) - 1)
  PROVE  LET x == SourceDescs(c, i)[PlaceOf(layer, g, LocalNum(c), a)]
             z == RemoteDescs(c)[PlaceOf(layer, g, RemoteNum(c), b)]
         IN  /\ x.len = RemoteLen(c)
             /\ \A k \in 0..(RemoteLen(c) - 1) :
                   CellsOf(i, x, z, k) = PairAt(layer, g, a, b, i * RemoteLen(c) + k)
<1> DEFINE x == SourceDescs(c, i)[PlaceOf(layer, g, LocalNum(c), a)]
           z == RemoteDescs(c)[PlaceOf(layer, g, RemoteNum(c), b)]
<1>1. 0 \in 0..(RemoteLen(c) - 1)
  BY AcceptedLengths
<1>2. x.len = RemoteLen(c)
  BY <1>1, LocalOfPair
<1>3. ASSUME NEW k \in 0..(RemoteLen(c) - 1)
      PROVE  CellsOf(i, x, z, k) = PairAt(layer, g, a, b, i * RemoteLen(c) + k)
  <2> DEFINE y == i * RemoteLen(c) + k
  <2>1. LocalCell(c, x.base, x.off + k)
          = <<<<layer, g>>, a \div c.ratio,
              <<y \div c.tokens, (a % c.ratio) * c.tokens + (y % c.tokens)>>>>
    BY LocalOfPair
  <2>2. RemoteCell(c, TargetRemoteRanks(c)[i + 1], z.base, z.off + k)
          = <<<<layer, g>>, b,
              <<GlobalHead(c, c.tp, c.tp_rank, y \div c.tokens), y % c.tokens>>>>
    BY RemoteOfPair
  <2> HIDE DEF x, y, z
  <2> QED
    BY <2>1, <2>2, Zenon DEF CellsOf, PairAt, y
<1> QED
  BY <1>2, <1>3

-----------------------------------------------------------------------------
(* The pairs of descriptors of a transfer *)

\* _get_block_descs_ids goes through the regions of the layer, and in each
\* through the blocks.
LEMMA DescIdsAre ==
  ASSUME NEW layer \in Nat, NEW ids \in Seq(Nat), NEW blocks \in Nat
  PROVE  LET f == DescIds(layer, ids, blocks)
             m == Len(ids)
         IN  /\ Len(f) = RegionsPerLayer(c) * m
             /\ \A n \in 1..(RegionsPerLayer(c) * m) :
                  f[n] = PlaceOf(layer, (n - 1) \div m, blocks, ids[((n - 1) % m) + 1])
<1> DEFINE f == DescIds(layer, ids, blocks)
           m == Len(ids)
           per == RegionsPerLayer(c)
           e == per * m
<1>1. per \in Nat /\ m \in Nat /\ e \in Nat
  BY DEF RegionsPerLayer
<1>2. f = [n \in 1..e |-> PlaceOf(layer, (n - 1) \div m, blocks, ids[((n - 1) % m) + 1])]
  BY DEF DescIds, PlaceOf
<1> HIDE DEF f
<1>3. ASSUME NEW n \in 1..e
      PROVE  PlaceOf(layer, (n - 1) \div m, blocks, ids[((n - 1) % m) + 1]) \in Int
  <2> DEFINE g == (n - 1) \div m
             b == ids[((n - 1) % m) + 1]
  <2>1. g \in 0..(per - 1) /\ ((n - 1) % m) + 1 \in 1..m
    <3> HIDE DEF m, per
    <3> QED
      BY <1>1, RowAndColumn
  <2>2. g \in Nat /\ b \in Nat
    BY <1>1, <2>1, ElementOfSeq
  <2> HIDE DEF g, b
  <2>3. per * layer \in Nat
    BY <1>1
  <2>4. (per * layer + g) * blocks \in Nat
    <3> DEFINE h == per * layer + g
    <3>1. h \in Nat
      BY <2>2, <2>3
    <3> HIDE DEF h
    <3>2. h * blocks \in Nat
      BY <3>1
    <3> QED
      BY <3>2 DEF h
  <2>5. PlaceOf(layer, g, blocks, b) = (per * layer + g) * blocks + b
    BY DEF PlaceOf
  <2> HIDE DEF per
  <2>6. PlaceOf(layer, g, blocks, b) \in Int
    <3> DEFINE h == (per * layer + g) * blocks
    <3> HIDE DEF h
    <3>1. h \in Nat /\ PlaceOf(layer, g, blocks, b) = h + b
      BY <2>4, <2>5 DEF h
    <3> QED
      BY <2>2, <3>1
  <2> QED
    BY <2>6 DEF g, b
<1> HIDE DEF m, per, e
<1>4. f \in [1..e -> Int]
  BY <1>2, <1>3
<1>5. f \in Seq(Int) /\ DOMAIN f = 1..e
  BY <1>1, <1>4, SeqDef
<1>6. Len(f) = e
  BY <1>1, <1>5, LenProperties
<1> QED
  BY <1>2, <1>6 DEF f, m, per, e

PairOf(i, layer, g, a, b) ==
  <<i, SourceDescs(c, i)[PlaceOf(layer, g, LocalNum(c), a)],
    RemoteDescs(c)[PlaceOf(layer, g, RemoteNum(c), b)]>>

\* A transfer pairs the j-th local with the j-th remote block of every region.
LEMMA TransferIs ==
  ASSUME Accepted(c), NEW i, NEW layer \in 0..(c.layers - 1),
         NEW ws \in Seq(Nat), NEW vs \in Seq(Nat), Len(ws) = Len(vs),
         ws = InWindow(local, layer), vs = InWindow(remote, layer)
  PROVE  Transfer(i, layer)
           = {PairOf(i, layer, gj[1], ws[gj[2]], vs[gj[2]]) :
                gj \in (0..(RegionsPerLayer(c) - 1)) \X (1..Len(ws))}
<1> DEFINE ls == DescIds(layer, ws, LocalNum(c))
           rs == DescIds(layer, vs, RemoteNum(c))
           per == RegionsPerLayer(c)
           m == Len(ws)
           Col(n) == ((n - 1) % Len(ws)) + 1
           Row(n) == (n - 1) \div Len(ws)
<1>1. LocalNum(c) \in Nat /\ RemoteNum(c) \in Nat /\ layer \in Nat
  BY Sizes DEF Accepted, Config
<1>2. /\ Len(ls) = per * m
      /\ \A n \in 1..(per * m) : ls[n] = PlaceOf(layer, Row(n), LocalNum(c), ws[Col(n)])
  BY <1>1, DescIdsAre, Zenon
<1>3. \A n \in 1..(per * m) : rs[n] = PlaceOf(layer, Row(n), RemoteNum(c), vs[Col(n)])
  <2>1. \A n \in 1..(per * Len(vs)) :
          rs[n] = PlaceOf(layer, (n - 1) \div Len(vs), RemoteNum(c), vs[((n - 1) % Len(vs)) + 1])
    BY <1>1, DescIdsAre, Zenon
  <2> HIDE DEF rs
  <2>2. Len(vs) = Len(ws)
    OBVIOUS
  <2> QED
    BY <2>1, <2>2, Zenon
<1>4. Transfer(i, layer)
        = {<<i, SourceDescs(c, i)[ls[n]], RemoteDescs(c)[rs[n]]>> : n \in 1..Len(ls)}
  BY DEF Transfer
<1>5. per \in Nat /\ m \in Nat
  BY DEF RegionsPerLayer
<1> HIDE DEF ls, rs, per, m
<1>6. /\ \A n \in 1..(per * m) : Row(n) \in 0..(per - 1) /\ Col(n) \in 1..m
      /\ \A g \in 0..(per - 1), j \in 1..m :
           \E n \in 1..(per * m) : Row(n) = g /\ Col(n) = j
  BY <1>5, RowAndColumn, Zenon DEF m
<1> HIDE DEF Row, Col
<1>7. \A n \in 1..(per * m) :
        <<i, SourceDescs(c, i)[ls[n]], RemoteDescs(c)[rs[n]]>>
          = PairOf(i, layer, Row(n), ws[Col(n)], vs[Col(n)])
  BY <1>2, <1>3 DEF PairOf
<1>8. Transfer(i, layer) = {PairOf(i, layer, Row(n), ws[Col(n)], vs[Col(n)]) : n \in 1..(per * m)}
  BY <1>2, <1>4, <1>7
<1>9. ASSUME NEW n \in 1..(per * m)
      PROVE  \E gj \in (0..(per - 1)) \X (1..m) :
               PairOf(i, layer, Row(n), ws[Col(n)], vs[Col(n)])
                 = PairOf(i, layer, gj[1], ws[gj[2]], vs[gj[2]])
  <2>1. <<Row(n), Col(n)>> \in (0..(per - 1)) \X (1..m)
    BY <1>6
  <2> QED
    BY <2>1
<1>10. ASSUME NEW gj \in (0..(per - 1)) \X (1..m)
       PROVE  \E n \in 1..(per * m) :
                PairOf(i, layer, Row(n), ws[Col(n)], vs[Col(n)])
                  = PairOf(i, layer, gj[1], ws[gj[2]], vs[gj[2]])
  <2>1. gj[1] \in 0..(per - 1) /\ gj[2] \in 1..m
    OBVIOUS
  <2>2. PICK n \in 1..(per * m) : Row(n) = gj[1] /\ Col(n) = gj[2]
    BY <1>6, <2>1
  <2> QED
    BY <2>2
<1> QED
  BY <1>8, <1>9, <1>10 DEF per, m

-----------------------------------------------------------------------------
(* The blocks that are paired *)

RemoteOK ==
  /\ remoteTable \in Seq(Nat)
  /\ \A i \in 1..Len(remoteTable) : remoteTable[i] < c.remote_blocks

\* The consumer's blocks cover the producer's, and the hit ends at a whole
\* producer block of a table, or takes all of it or nothing.
Covered ==
  /\ Len(localTable) = NumLocal(c, Len(remoteTable))
  /\ Len(remoteTable) % c.ratio = 0 \/ cached \in {0, Len(localTable)}

Hit == FirstRun - 1

\* local is the runs after the hit, up to the last the producer has.
MappedRuns ==
  /\ local \in Seq(Nat)
  /\ local # <<>> =>
       /\ Hit + Len(local) = Len(RemoteRuns)
       /\ \A j \in 1..Len(local) : local[j] = LocalRuns[Hit + j]

\* remote is the same runs.
PairedRuns == local # <<>> /\ MappedRuns /\ IsTail(remote, RemoteRuns, Hit)

PairInv ==
  /\ TablesOK /\ RemoteOK /\ Covered
  /\ pc \in {"handshake", "start"} =>
       local = KernelIds(LastOf(localTable, Len(localTable) - cached))
  /\ pc \in {"handshake", "start", "mapped"} => remote = RemoteRuns
  /\ pc = "mapped" => MappedRuns
  /\ pc = "trimmed" => PairedRuns
  /\ ReadsUncomputed

LEMMA RemoteRunsAre ==
  ASSUME TablesOK, RemoteOK
  PROVE  /\ RemoteRuns \in Seq(Nat) /\ Len(RemoteRuns) = c.physical * Len(remoteTable)
         /\ \A p \in 1..Len(RemoteRuns) : RemoteRuns[p] \in 0..(RemoteNum(c) - 1)
<1>1. /\ c \in Config /\ c.physical \in Nat \ {0} /\ c.remote_blocks \in Nat
      /\ remoteTable \in Seq(Nat)
      /\ \A i \in 1..Len(remoteTable) : remoteTable[i] < c.remote_blocks
  BY DEF TablesOK, RemoteOK, Config
<1>2. RemoteRuns = Split(remoteTable, c.physical)
  BY <1>1, Splits DEF RemoteRuns
<1>3. RemoteRuns \in Seq(Nat) /\ Len(RemoteRuns) = c.physical * Len(remoteTable)
  BY <1>1, <1>2, SplitSeq
<1>4. ASSUME NEW p \in 1..Len(Split(remoteTable, c.physical))
      PROVE  Split(remoteTable, c.physical)[p] \in 0..(c.physical * c.remote_blocks - 1)
  BY <1>1, SplitBelow
<1>5. RemoteNum(c) = c.physical * c.remote_blocks
  BY <1>1 DEF RemoteNum
<1> QED
  BY <1>2, <1>3, <1>4, <1>5

LEMMA LocalRunsAre ==
  ASSUME TablesOK
  PROVE  /\ LocalRuns \in Seq(Nat)
         /\ Len(LocalRuns) = c.ratio * (c.physical * Len(localTable))
         /\ Hit = cached * c.physical * c.ratio /\ Hit \in Nat
<1>1. /\ c \in Config /\ c.physical \in Nat \ {0} /\ c.ratio \in Nat \ {0}
      /\ localTable \in Seq(Nat) /\ cached \in Nat
  BY DEF TablesOK, Config
<1> DEFINE ids == KernelIds(localTable)
<1>2. ids = Split(localTable, c.physical)
  BY <1>1, Splits
<1>3. ids \in Seq(Nat) /\ Len(ids) = c.physical * Len(localTable)
  BY <1>1, <1>2, SplitSeq
<1>4. LocalRuns \in Seq(Nat) /\ Len(LocalRuns) = c.ratio * Len(ids)
  <2> HIDE DEF ids
  <2>1. LocalRuns = Split(ids, c.ratio)
    BY DEF LocalRuns, ids
  <2> QED
    BY <1>1, <1>3, <2>1, SplitSeq
<1> DEFINE a == cached * c.physical * c.ratio
<1>5. a \in Nat
  <2>1. cached * c.physical \in Nat
    BY <1>1
  <2> QED
    BY <1>1, <2>1
<1>6. FirstRun = a + 1
  BY DEF FirstRun
<1> HIDE DEF a
<1>7. Hit = a
  BY <1>5, <1>6 DEF Hit
<1> QED
  BY <1>3, <1>4, <1>5, <1>7 DEF a

\* The consumer's runs cover the producer's, and are no more when the last
\* consumer block is full.
LEMMA RunsCover ==
  ASSUME TablesOK, RemoteOK, Covered
  PROVE  /\ Len(RemoteRuns) \in Nat /\ Len(LocalRuns) \in Nat
         /\ Len(RemoteRuns) <= Len(LocalRuns)
         /\ Len(remoteTable) % c.ratio = 0 => Len(RemoteRuns) = Len(LocalRuns)
<1> DEFINE r == Len(remoteTable)
           l == Len(localTable)
           d == c.ratio
           w == c.physical
           z == r + d - 1
<1>1. r \in Nat /\ l \in Nat /\ d \in Nat \ {0} /\ w \in Nat \ {0}
  BY DEF TablesOK, RemoteOK, Config
<1>2. Len(RemoteRuns) = w * r /\ Len(LocalRuns) = d * (w * l)
  BY RemoteRunsAre, LocalRunsAre
<1>3. l = z \div d
  BY DEF Covered, NumLocal
<1> HIDE DEF r, l, d, w
<1>4. z \in Nat /\ z = r + d - 1
  BY <1>1
<1> HIDE DEF z
<1>5. z % d \in 0..(d - 1) /\ z = d * l + (z % d)
  BY <1>1, <1>3, <1>4, Quotient
<1>6. r <= d * l /\ d * l \in Nat
  <2>1. d * l \in Nat
    BY <1>1
  <2> QED
    BY <1>1, <1>4, <1>5, <2>1
<1>7. ASSUME r % d = 0 PROVE r = d * l
  <2> DEFINE q == r \div d
  <2>1. q \in Nat /\ r = d * q + (r % d)
    BY <1>1, Quotient
  <2> HIDE DEF q
  <2>2. d * q \in Nat /\ r = d * q
    BY <1>1, <1>7, <2>1
  <2> DEFINE s == d - 1
  <2>3. s \in 0..(d - 1) /\ z = d * q + s
    BY <1>1, <1>4, <2>2
  <2> HIDE DEF s
  <2>4. z \div d = q
    BY <1>1, <2>1, <2>3, QuotientIs
  <2> QED
    BY <1>3, <2>2, <2>4
<1>8. d * (w * l) = w * (d * l) /\ w * r \in Nat /\ w * (d * l) \in Nat
  BY <1>1, <1>6
<1>9. w * r <= w * (d * l)
  BY <1>1, <1>6, Grows
<1>10. r % d = 0 => w * r = w * (d * l)
  BY <1>7
<1> QED
  BY <1>2, <1>8, <1>9, <1>10 DEF r, d

\* get_mapped_blocks and the clipping leave the runs after the hit that the
\* producer has.
LEMMA MapLocalPairs ==
  ASSUME TablesOK, RemoteOK, Covered, MapLocal,
         local = KernelIds(LastOf(localTable, Len(localTable) - cached)),
         remote = RemoteRuns
  PROVE  MappedRuns'
<1> DEFINE mapped == MappedBlocks(local)
           m == Len(remote)
<1>1. /\ local' = IF c.ratio > 1 /\ Len(mapped) > m THEN SubSeq(mapped, 1, m) ELSE mapped
      /\ c' = c /\ localTable' = localTable /\ remoteTable' = remoteTable /\ cached' = cached
  BY DEF MapLocal, tables
<1>2. IsTail(mapped, LocalRuns, Hit)
  BY UncachedRuns DEF Hit
<1> HIDE DEF mapped
<1>3. /\ mapped \in Seq(Nat) /\ Len(mapped) \in Nat /\ Hit \in Nat
      /\ Len(LocalRuns) = Hit + Len(mapped)
      /\ \A j \in 1..Len(mapped) : mapped[j] = LocalRuns[Hit + j]
  <2> DEFINE h == Hit
             runs == LocalRuns
  <2> HIDE DEF h, runs
  <2>1. IsTail(mapped, runs, h)
    BY <1>2 DEF h, runs
  <2>2. /\ mapped \in Seq(Nat) /\ h \in Nat /\ Len(runs) = h + Len(mapped)
        /\ \A j \in 1..Len(mapped) : mapped[j] = runs[h + j]
    BY <2>1 DEF IsTail
  <2> QED
    BY <2>2 DEF h, runs
<1>4. /\ m \in Nat /\ m = Len(RemoteRuns) /\ m <= Len(LocalRuns)
      /\ Len(remoteTable) % c.ratio = 0 => m = Len(LocalRuns)
  BY RunsCover
<1> HIDE DEF m
<1>5. Hit' = Hit /\ LocalRuns' = LocalRuns /\ RemoteRuns' = RemoteRuns
  BY <1>1 DEF Hit, FirstRun, LocalRuns, RemoteRuns, KernelIds
<1>6. ASSUME local' = mapped, Hit + Len(mapped) = m PROVE MappedRuns'
  <2>1. local' \in Seq(Nat) /\ Len(local') = Len(mapped)
    BY <1>3, <1>6
  <2>2. Hit' + Len(local') = Len(RemoteRuns')
    BY <1>4, <1>5, <1>6, <2>1
  <2>3. \A j \in 1..Len(local') : local'[j] = LocalRuns'[Hit' + j]
    BY <1>3, <1>5, <1>6, <2>1
  <2> QED
    BY <2>1, <2>2, <2>3 DEF MappedRuns
<1>7. CASE Len(remoteTable) % c.ratio = 0
  <2>1. ~(Len(mapped) > m) /\ Hit + Len(mapped) = m
    BY <1>3, <1>4, <1>7
  <2> QED
    BY <1>1, <1>6, <2>1
<1>8. CASE cached = Len(localTable)
  <2>1. Hit = Len(LocalRuns)
    <3> DEFINE l == Len(localTable)
    <3>1. l \in Nat /\ c.physical \in Nat /\ c.ratio \in Nat
      BY DEF TablesOK, Config
    <3>2. Hit = l * c.physical * c.ratio /\ Len(LocalRuns) = c.ratio * (c.physical * l)
      BY <1>8, LocalRunsAre
    <3> HIDE DEF l
    <3>3. l * c.physical * c.ratio = c.ratio * (c.physical * l)
      BY <3>1
    <3> QED
      BY <3>2, <3>3
  <2>2. Len(mapped) = 0
    BY <1>3, <2>1
  <2>3. mapped = <<>> /\ local' = mapped
    BY <1>1, <1>3, <1>4, <2>2, EmptySeq
  <2> QED
    BY <1>3, <2>3 DEF MappedRuns
<1>9. CASE cached = 0 /\ ~(Len(remoteTable) % c.ratio = 0)
  <2>1. Hit = 0
    <3>1. c.physical \in Nat /\ c.ratio \in Nat
      BY DEF TablesOK, Config
    <3>2. 0 * c.physical = 0 /\ 0 * c.ratio = 0
      BY <3>1
    <3> QED
      BY <1>9, <3>2, LocalRunsAre
  <2>2. c.ratio > 1
    <3>1. Len(remoteTable) \in Nat /\ c.ratio \in Nat \ {0}
      BY DEF TablesOK, RemoteOK, Config
    <3>2. c.ratio # 1
      BY <1>9, <3>1
    <3> QED
      BY <3>1, <3>2
  <2>3. CASE Len(mapped) > m
    <3> DEFINE t == SubSeq(mapped, 1, m)
    <3>1. \A i \in 1..m : i \in 1..Len(mapped) /\ mapped[i] \in Nat
      BY <1>3, <1>4, <2>3, ElementOfSeq
    <3>2. /\ t \in Seq(Nat) /\ Len(t) = IF 1 <= m THEN m - 1 + 1 ELSE 0
          /\ \A i \in 1..(m - 1 + 1) : t[i] = mapped[1 + i - 1]
      BY <1>4, <3>1, SubSeqProperties
    <3>3. local' = t
      BY <1>1, <2>2, <2>3
    <3> HIDE DEF t
    <3>4. Len(t) = m /\ \A i \in 1..m : t[i] = mapped[i]
      BY <1>4, <3>2
    <3>5. \A i \in 1..m : t[i] = LocalRuns[Hit + i]
      BY <1>3, <3>1, <3>4
    <3> QED
      BY <1>4, <1>5, <2>1, <3>2, <3>3, <3>4, <3>5 DEF MappedRuns
  <2>4. CASE ~(Len(mapped) > m)
    BY <1>1, <1>3, <1>4, <1>6, <2>1, <2>4
  <2> QED
    BY <2>3, <2>4
<1> QED
  BY <1>7, <1>8, <1>9 DEF Covered

\* "Partial prefix cache hit: just read uncomputed blocks."
LEMMA TrimRemotePairs ==
  ASSUME TablesOK, RemoteOK, MappedRuns, TrimRemote, remote = RemoteRuns
  PROVE  PairedRuns'
<1>1. /\ local # <<>> /\ local' = local /\ remote' = LastOf(RemoteRuns, Len(local))
      /\ c' = c /\ localTable' = localTable /\ remoteTable' = remoteTable /\ cached' = cached
  BY DEF TrimRemote, tables
<1>2. /\ local \in Seq(Nat) /\ Len(local) \in Nat /\ Hit \in Nat
      /\ Hit + Len(local) = Len(RemoteRuns) /\ RemoteRuns \in Seq(Nat)
  BY <1>1, LocalRunsAre, RemoteRunsAre DEF MappedRuns
<1>3. Len(local) \in 0..Len(RemoteRuns) /\ Len(RemoteRuns) - Len(local) = Hit
  BY <1>2
<1>4. IsTail(LastOf(RemoteRuns, Len(local)), RemoteRuns, Hit)
  <2> DEFINE n == Len(local)
  <2>1. n \in 0..Len(RemoteRuns) /\ Len(RemoteRuns) - n = Hit
    BY <1>3
  <2> HIDE DEF n
  <2>2. IsTail(LastOf(RemoteRuns, n), RemoteRuns, Len(RemoteRuns) - n)
    BY <1>2, <2>1, LastOfSeq
  <2> QED
    BY <2>1, <2>2 DEF n
<1>5. Hit' = Hit /\ LocalRuns' = LocalRuns /\ RemoteRuns' = RemoteRuns
  BY <1>1 DEF Hit, FirstRun, LocalRuns, RemoteRuns, KernelIds
<1>6. MappedRuns'
  BY <1>1, <1>5 DEF MappedRuns
<1>7. IsTail(remote, RemoteRuns, Hit)'
  BY <1>1, <1>4, <1>5 DEF IsTail
<1> QED
  BY <1>1, <1>6, <1>7 DEF PairedRuns

\* A layer's window is the end of the block ids.
LEMMA WindowTail ==
  ASSUME NEW t \in Seq(Nat), NEW layer, Window(layer) \in Nat
  PROVE  LET w == InWindow(t, layer)
         IN  /\ w \in Seq(Nat) /\ Len(w) \in Nat /\ Len(t) \in Nat
             /\ Len(w) = IF Window(layer) \in 1..(Len(t) - 1) THEN Window(layer) ELSE Len(t)
             /\ Len(t) - Len(w) \in Nat
             /\ \A j \in 1..Len(w) : w[j] = t[(Len(t) - Len(w)) + j]
<1>1. Len(t) \in Nat
  OBVIOUS
<1>2. CASE Window(layer) \in 1..(Len(t) - 1)
  <2> DEFINE n == Window(layer)
             w == LastOf(t, n)
  <2>1. n \in 0..Len(t) /\ Len(t) - n \in Nat
    BY <1>1, <1>2
  <2>2. InWindow(t, layer) = w
    BY <1>2 DEF InWindow
  <2>3. IsTail(w, t, Len(t) - n)
    BY <2>1, LastOfSeq
  <2> HIDE DEF w
  <2>4. /\ w \in Seq(Nat) /\ Len(w) \in Nat /\ Len(t) = (Len(t) - n) + Len(w)
        /\ \A j \in 1..Len(w) : w[j] = t[(Len(t) - n) + j]
    BY <2>3 DEF IsTail
  <2>5. Len(w) = n
    BY <1>1, <2>1, <2>4
  <2> QED
    BY <1>1, <1>2, <2>1, <2>2, <2>4, <2>5
<1>3. CASE ~(Window(layer) \in 1..(Len(t) - 1))
  <2>1. InWindow(t, layer) = t
    BY <1>3 DEF InWindow
  <2>2. \A j \in 1..Len(t) : (Len(t) - Len(t)) + j = j
    BY <1>1
  <2> QED
    BY <1>1, <1>3, <2>1, <2>2
<1> QED
  BY <1>2, <1>3

\* A layer without windows has window 0, which stands for None.
LEMMA WindowNat ==
  ASSUME NEW layer \in 0..(c.layers - 1), c \in Configs
  PROVE  Window(layer) \in Nat
<1>1. c.window \in Seq(Nat) /\ c.layers \in Nat /\ Len(c.window) \in {0, c.layers}
  BY BlockMapAssumption DEF Config
<1>2. CASE c.window = <<>>
  BY <1>2 DEF Window
<1>3. CASE c.window # <<>>
  <2>1. Len(c.window) = c.layers
    BY <1>1, <1>3, EmptySeq
  <2>2. layer + 1 \in 1..Len(c.window)
    BY <1>1, <2>1
  <2> DEFINE n == layer + 1
             s == c.window
  <2>3. n \in 1..Len(s) /\ s \in Seq(Nat)
    BY <1>1, <2>2
  <2> HIDE DEF n, s
  <2>4. s[n] \in Nat
    BY <2>3, ElementOfSeq
  <2> QED
    BY <1>3, <2>4 DEF Window, n, s
<1> QED
  BY <1>2, <1>3

\* What a layer's window leaves of the paired blocks are the runs its attention
\* needs.
LEMMA WindowRuns ==
  ASSUME TablesOK, RemoteOK, PairedRuns, NEW layer, Window(layer) \in Nat
  PROVE  LET ws == InWindow(local, layer)
             vs == InWindow(remote, layer)
         IN  /\ ws \in Seq(Nat) /\ vs \in Seq(Nat) /\ Len(ws) = Len(vs)
             /\ \E f \in Nat :
                  /\ RunsToRead(layer) = {f + j : j \in 1..Len(ws)}
                  /\ \A j \in 1..Len(ws) : ws[j] = LocalRuns[f + j] /\ vs[j] = RemoteRuns[f + j]
<1> DEFINE ws == InWindow(local, layer)
           vs == InWindow(remote, layer)
           m == Len(local)
           q == Len(ws)
           last == Len(RemoteRuns)
           w == Window(layer)
           f == Hit + (m - q)
           h == Hit
           lr == LocalRuns
           rr == RemoteRuns
<1>1. /\ local \in Seq(Nat) /\ m \in Nat /\ h \in Nat /\ h + m = last /\ last \in Nat
      /\ \A j \in 1..m : local[j] = lr[h + j]
  BY LocalRunsAre, RemoteRunsAre DEF PairedRuns, MappedRuns
<1>2. /\ remote \in Seq(Nat) /\ last = h + Len(remote) /\ Len(remote) \in Nat
      /\ \A j \in 1..Len(remote) : remote[j] = rr[h + j]
  <2> HIDE DEF h, rr
  <2>1. IsTail(remote, rr, h)
    BY DEF PairedRuns, h, rr
  <2>2. /\ remote \in Seq(Nat) /\ Len(rr) = h + Len(remote)
        /\ \A j \in 1..Len(remote) : remote[j] = rr[h + j]
    BY <2>1 DEF IsTail
  <2> QED
    BY <2>2 DEF rr
<1> HIDE DEF h, lr, rr, last, m, w
<1>3. Len(remote) = m
  BY <1>1, <1>2
<1>4. /\ ws \in Seq(Nat) /\ q \in Nat /\ m - q \in Nat
      /\ q = IF w \in 1..(m - 1) THEN w ELSE m
      /\ \A j \in 1..q : ws[j] = local[(m - q) + j]
  BY <1>1, WindowTail DEF m, w
<1>5. /\ vs \in Seq(Nat) /\ Len(vs) = q
      /\ \A j \in 1..q : vs[j] = remote[(m - q) + j]
  <2>1. /\ vs \in Seq(Nat)
        /\ Len(vs) = IF w \in 1..(Len(remote) - 1) THEN w ELSE Len(remote)
        /\ \A j \in 1..Len(vs) : vs[j] = remote[(Len(remote) - Len(vs)) + j]
    BY <1>2, WindowTail DEF w
  <2> HIDE DEF vs, q
  <2> QED
    BY <1>3, <1>4, <2>1
<1> HIDE DEF ws, vs, q
<1>6. f \in Nat /\ f + q = last /\ h <= f /\ f = h + (m - q)
  BY <1>1, <1>4 DEF h
<1>7. ASSUME NEW j \in 1..q
      PROVE  ws[j] = lr[f + j] /\ vs[j] = rr[f + j]
  <2>1. (m - q) + j \in 1..m /\ h + ((m - q) + j) = f + j
    BY <1>1, <1>4, <1>6
  <2>2. local[(m - q) + j] = lr[h + ((m - q) + j)] /\ remote[(m - q) + j] = rr[h + ((m - q) + j)]
    BY <1>1, <1>2, <1>3, <2>1
  <2> QED
    BY <1>4, <1>5, <2>1, <2>2
<1>8. RunsToRead(layer) = {p \in (h + 1)..last : w # 0 => p > last - w}
  <2>1. FirstRun = h + 1
    <3>1. FirstRun \in Int
      <4>1. cached \in Nat /\ c.physical \in Nat /\ c.ratio \in Nat
        BY DEF TablesOK, Config
      <4> QED
        BY <4>1 DEF FirstRun
    <3> QED
      BY <3>1 DEF h, Hit
  <2> QED
    BY <2>1 DEF RunsToRead, w, last
<1> HIDE DEF f
<1>9. \A p : p \in RunsToRead(layer) <=> p \in (f + 1)..last
  <2>1. w \in Nat
    BY DEF w
  <2>2. CASE w \in 1..(m - 1)
    <3>1. f = last - w
      BY <1>1, <1>4, <1>6, <2>2
    <3> QED
      BY <1>1, <1>6, <1>8, <2>1, <2>2, <3>1
  <2>3. CASE ~(w \in 1..(m - 1))
    <3>1. f = h /\ (w = 0 \/ last - w <= h)
      BY <1>1, <1>4, <1>6, <2>1, <2>3
    <3> QED
      BY <1>1, <1>8, <2>1, <3>1
  <2> QED
    BY <2>2, <2>3
<1>10. RunsToRead(layer) = {f + j : j \in 1..q}
  <2>1. ASSUME NEW p \in RunsToRead(layer) PROVE p \in {f + j : j \in 1..q}
    <3>1. p \in (f + 1)..last
      BY <1>9
    <3>2. p - f \in 1..q /\ p = f + (p - f)
      BY <1>4, <1>6, <3>1
    <3> QED
      BY <3>2
  <2>2. ASSUME NEW j \in 1..q PROVE f + j \in RunsToRead(layer)
    <3>0. f \in Nat /\ q \in Nat /\ f + q = last
      BY <1>4, <1>6
    <3>1. f + j \in (f + 1)..last
      BY <3>0
    <3> QED
      BY <1>9, <3>1
  <2> QED
    BY <2>1, <2>2
<1> QED
  BY <1>4, <1>5, <1>6, <1>7, <1>10 DEF ws, vs, q, lr, rr

\* The pairs of descriptors that one layer's transfer from a rank has.
LEMMA TransferRuns ==
  ASSUME Accepted(c), c \in Configs, TablesOK, RemoteOK, PairedRuns,
         NEW i, NEW layer \in 0..(c.layers - 1)
  PROVE  Transfer(i, layer)
           = {PairOf(i, layer, gp[1], LocalRuns[gp[2]], RemoteRuns[gp[2]]) :
                gp \in (0..(RegionsPerLayer(c) - 1)) \X RunsToRead(layer)}
<1> DEFINE ws == InWindow(local, layer)
           vs == InWindow(remote, layer)
           gs == 0..(RegionsPerLayer(c) - 1)
           Runs(gp) == PairOf(i, layer, gp[1], LocalRuns[gp[2]], RemoteRuns[gp[2]])
           Ids(gj) == PairOf(i, layer, gj[1], ws[gj[2]], vs[gj[2]])
<1>1. Window(layer) \in Nat
  BY WindowNat
<1>2. ws \in Seq(Nat) /\ vs \in Seq(Nat) /\ Len(ws) = Len(vs)
  BY <1>1, WindowRuns
<1>3. PICK f \in Nat :
        /\ RunsToRead(layer) = {f + j : j \in 1..Len(ws)}
        /\ \A j \in 1..Len(ws) : ws[j] = LocalRuns[f + j] /\ vs[j] = RemoteRuns[f + j]
  BY <1>1, WindowRuns
<1>4. Transfer(i, layer) = {Ids(gj) : gj \in gs \X (1..Len(ws))}
  BY <1>2, TransferIs
<1> HIDE DEF ws, vs, gs
<1>5. ASSUME NEW g \in gs, NEW j \in 1..Len(ws)
      PROVE  Ids(<<g, j>>) = Runs(<<g, f + j>>)
  BY <1>3
<1> HIDE DEF Ids, Runs
<1>6. ASSUME NEW gj \in gs \X (1..Len(ws))
      PROVE  Ids(gj) \in {Runs(gp) : gp \in gs \X RunsToRead(layer)}
  <2>1. gj[1] \in gs /\ gj[2] \in 1..Len(ws) /\ gj = <<gj[1], gj[2]>>
    OBVIOUS
  <2>2. Ids(gj) = Runs(<<gj[1], f + gj[2]>>)
    BY <1>5, <2>1
  <2>3. <<gj[1], f + gj[2]>> \in gs \X RunsToRead(layer)
    BY <1>3, <2>1
  <2> QED
    BY <2>2, <2>3
<1>7. ASSUME NEW gp \in gs \X RunsToRead(layer)
      PROVE  Runs(gp) \in {Ids(gj) : gj \in gs \X (1..Len(ws))}
  <2>1. gp[1] \in gs /\ gp[2] \in RunsToRead(layer) /\ gp = <<gp[1], gp[2]>>
    OBVIOUS
  <2>2. PICK j \in 1..Len(ws) : gp[2] = f + j
    BY <1>3, <2>1
  <2>3. Runs(gp) = Ids(<<gp[1], j>>) /\ <<gp[1], j>> \in gs \X (1..Len(ws))
    BY <1>5, <2>1, <2>2
  <2> QED
    BY <2>3
<1>8. Transfer(i, layer) = {Runs(gp) : gp \in gs \X RunsToRead(layer)}
  BY <1>4, <1>6, <1>7
<1> QED
  BY <1>8 DEF Runs, gs

-----------------------------------------------------------------------------
(* What is read is what is needed *)

\* Head h and token t of a run: its cell h * tokens + t.
LEMMA NeededIs ==
  ASSUME c \in Config, NEW layer, NEW g, NEW p,
         NEW h \in 0..(HeadsOf(c, c.tp) - 1), NEW t \in 0..(c.tokens - 1),
         NEW y, y = c.tokens * h + t
  PROVE  /\ y \in 0..(Unit(c) - 1)
         /\ Needed(layer, g, p, t, h) = PairAt(layer, g, LocalRuns[p], RemoteRuns[p], y)
<1> DEFINE n == c.tokens
           hs == HeadsOf(c, c.tp)
<1>1. /\ n \in Nat \ {0} /\ hs \in Nat /\ Unit(c) = n * hs
      /\ h \in 0..(hs - 1) /\ t \in 0..(n - 1) /\ h \in Nat /\ y = n * h + t
  BY UnitIs
<1> HIDE DEF n, hs
<1>2. y \in 0..(Unit(c) - 1)
  <2>1. n * h + t \in 0..(n * hs - 1)
    BY <1>1, Within
  <2> QED
    BY <1>1, <2>1
<1>3. y \div n = h /\ y % n = t
  BY <1>1, QuotientIs
<1> QED
  BY <1>2, <1>3 DEF Needed, PairAt, n

\* Every cell of a run is of one of its heads and tokens.
LEMMA CellNeeded ==
  ASSUME c \in Config, NEW y \in 0..(Unit(c) - 1)
  PROVE  \E h \in 0..(HeadsOf(c, c.tp) - 1), t \in 0..(c.tokens - 1) : y = c.tokens * h + t
<1> DEFINE n == c.tokens
           hs == HeadsOf(c, c.tp)
           h == y \div n
           t == y % n
<1>1. n \in Nat \ {0} /\ hs \in Nat /\ Unit(c) = n * hs
  BY UnitIs
<1> HIDE DEF n, hs
<1>2. y \in Nat /\ y < n * hs
  <2>1. n * hs \in Nat /\ y \in 0..(n * hs - 1)
    BY <1>1
  <2> QED
    BY <2>1
<1>3. h \in Nat /\ t \in 0..(n - 1) /\ y = n * h + t
  BY <1>1, <1>2, Quotient
<1>4. h \in 0..(hs - 1)
  BY <1>1, <1>2, QuotientBelow
<1> HIDE DEF h, t
<1> QED
  BY <1>3, <1>4 DEF n, hs

\* The cells of the runs that attention needs: of one part of a layer, and all.
RunCells(layer, g) ==
  {PairAt(layer, g, LocalRuns[p], RemoteRuns[p], y) :
     p \in RunsToRead(layer), y \in 0..(Unit(c) - 1)}

CellsOfRuns ==
  UNION {RunCells(layer, g) :
           layer \in 0..(c.layers - 1), g \in 0..(RegionsPerLayer(c) - 1)}

LEMMA NeededAre ==
  ASSUME c \in Config
  PROVE  NeededCells = CellsOfRuns
<1>1. ASSUME NEW e \in NeededCells PROVE e \in CellsOfRuns
  <2>1. PICK layer \in 0..(c.layers - 1), g \in 0..(RegionsPerLayer(c) - 1),
             t \in 0..(c.tokens - 1), h \in 0..(HeadsOf(c, c.tp) - 1) :
               e \in {Needed(layer, g, p, t, h) : p \in RunsToRead(layer)}
    BY DEF NeededCells
  <2>2. PICK p \in RunsToRead(layer) : e = Needed(layer, g, p, t, h)
    BY <2>1
  <2> DEFINE y == c.tokens * h + t
  <2>3. y \in 0..(Unit(c) - 1) /\ e = PairAt(layer, g, LocalRuns[p], RemoteRuns[p], y)
    BY <2>2, NeededIs
  <2> HIDE DEF y
  <2>4. e \in RunCells(layer, g)
    BY <2>3 DEF RunCells
  <2> QED
    BY <2>4 DEF CellsOfRuns
<1>2. ASSUME NEW e \in CellsOfRuns PROVE e \in NeededCells
  <2>1. PICK layer \in 0..(c.layers - 1), g \in 0..(RegionsPerLayer(c) - 1) :
          e \in RunCells(layer, g)
    BY DEF CellsOfRuns
  <2>2. PICK p \in RunsToRead(layer), y \in 0..(Unit(c) - 1) :
          e = PairAt(layer, g, LocalRuns[p], RemoteRuns[p], y)
    BY <2>1 DEF RunCells
  <2>3. PICK h \in 0..(HeadsOf(c, c.tp) - 1), t \in 0..(c.tokens - 1) : y = c.tokens * h + t
    BY CellNeeded
  <2>4. e = Needed(layer, g, p, t, h)
    BY <2>2, <2>3, NeededIs
  <2> DEFINE S(la, kv, tt, hh) == {Needed(la, kv, q, tt, hh) : q \in RunsToRead(la)}
  <2>5. e \in S(layer, g, t, h)
    BY <2>4
  <2>6. NeededCells = UNION {S(la, kv, tt, hh) :
                               la \in 0..(c.layers - 1), kv \in 0..(RegionsPerLayer(c) - 1),
                               tt \in 0..(c.tokens - 1), hh \in 0..(HeadsOf(c, c.tp) - 1)}
    BY DEF NeededCells
  <2> HIDE DEF S
  <2>7. S(layer, g, t, h) \in {S(la, kv, tt, hh) :
                               la \in 0..(c.layers - 1), kv \in 0..(RegionsPerLayer(c) - 1),
                               tt \in 0..(c.tokens - 1), hh \in 0..(HeadsOf(c, c.tp) - 1)}
    OBVIOUS
  <2> QED
    BY <2>5, <2>6, <2>7
<1> QED
  BY <1>1, <1>2

\* The runs that are needed are in both tables.
LEMMA RunsInTables ==
  ASSUME TablesOK, RemoteOK, Covered, NEW layer, NEW p \in RunsToRead(layer)
  PROVE  LocalRuns[p] \in 0..(LocalNum(c) - 1) /\ RemoteRuns[p] \in 0..(RemoteNum(c) - 1)
<1>1. p \in FirstRun..Len(RemoteRuns)
  BY DEF RunsToRead
<1>2. Hit \in Nat /\ FirstRun \in Int
  <2>1. cached \in Nat /\ c.physical \in Nat /\ c.ratio \in Nat
    BY DEF TablesOK, Config
  <2> QED
    BY <2>1, LocalRunsAre DEF FirstRun
<1>3. Len(RemoteRuns) \in Nat /\ Len(LocalRuns) \in Nat /\ Len(RemoteRuns) <= Len(LocalRuns)
  BY RunsCover
<1>4. p \in 1..Len(RemoteRuns) /\ p \in 1..Len(LocalRuns)
  <2>1. FirstRun >= 1
    BY <1>2 DEF Hit
  <2> QED
    BY <1>1, <1>2, <1>3, <2>1
<1> QED
  BY <1>4, UncachedRuns, RemoteRunsAre

CellsRead(reads) ==
  UNION {{CellsOf(x[1], x[2], x[3], k) : k \in 0..(x[2].len - 1)} : x \in reads}

\* The cells of one pair are the share of its rank.
LEMMA CellsOfPair ==
  ASSUME Accepted(c), HeadsDivide(c), TablesOK, RemoteOK, Covered,
         NEW i \in 0..(RanksRead - 1), NEW layer \in 0..(c.layers - 1),
         NEW g \in 0..(RegionsPerLayer(c) - 1), NEW p \in RunsToRead(layer),
         NEW x, x = PairOf(i, layer, g, LocalRuns[p], RemoteRuns[p])
  PROVE  /\ x[2].len = RemoteLen(c)
         /\ \A k \in 0..(RemoteLen(c) - 1) :
               CellsOf(x[1], x[2], x[3], k)
                 = PairAt(layer, g, LocalRuns[p], RemoteRuns[p], i * RemoteLen(c) + k)
<1> DEFINE a == LocalRuns[p]
           b == RemoteRuns[p]
           s == SourceDescs(c, i)[PlaceOf(layer, g, LocalNum(c), a)]
           z == RemoteDescs(c)[PlaceOf(layer, g, RemoteNum(c), b)]
<1>1. a \in 0..(LocalNum(c) - 1) /\ b \in 0..(RemoteNum(c) - 1)
  BY RunsInTables
<1> HIDE DEF a, b
<1>2. /\ s.len = RemoteLen(c)
      /\ \A k \in 0..(RemoteLen(c) - 1) :
            CellsOf(i, s, z, k) = PairAt(layer, g, a, b, i * RemoteLen(c) + k)
  BY <1>1, PairCells
<1>3. x = <<i, s, z>>
  BY DEF PairOf, a, b
<1> HIDE DEF s, z
<1> QED
  BY <1>2, <1>3 DEF a, b

LEMMA PostReads ==
  ASSUME Accepted(c), HeadsDivide(c), c \in Configs, TablesOK, RemoteOK, Covered,
         PairedRuns, Post
  PROVE  (ReadCells = NeededCells)'
<1> DEFINE ranks == 0..(RanksRead - 1)
           layers == 0..(c.layers - 1)
           gs == 0..(RegionsPerLayer(c) - 1)
           reads == UNION {Transfer(i, layer) : i \in ranks, layer \in layers}
<1>1. /\ posted' = reads
      /\ c' = c /\ localTable' = localTable /\ remoteTable' = remoteTable /\ cached' = cached
  BY DEF Post, tables
<1>2. ASSUME NEW i \in ranks, NEW layer \in layers
      PROVE  Transfer(i, layer)
               = {PairOf(i, layer, gp[1], LocalRuns[gp[2]], RemoteRuns[gp[2]]) :
                    gp \in gs \X RunsToRead(layer)}
  BY TransferRuns
<1>3. ASSUME NEW e \in CellsRead(reads) PROVE e \in CellsOfRuns
  <2>1. PICK x \in reads : e \in {CellsOf(x[1], x[2], x[3], k) : k \in 0..(x[2].len - 1)}
    BY DEF CellsRead
  <2>2. PICK k \in 0..(x[2].len - 1) : e = CellsOf(x[1], x[2], x[3], k)
    BY <2>1
  <2>3. PICK i \in ranks, layer \in layers : x \in Transfer(i, layer)
    OBVIOUS
  <2>4. PICK gp \in gs \X RunsToRead(layer) :
               x = PairOf(i, layer, gp[1], LocalRuns[gp[2]], RemoteRuns[gp[2]])
    BY <1>2, <2>3
  <2> DEFINE g == gp[1]
             p == gp[2]
             y == i * RemoteLen(c) + k
  <2>5. g \in gs /\ p \in RunsToRead(layer)
    OBVIOUS
  <2>6. x = PairOf(i, layer, g, LocalRuns[p], RemoteRuns[p])
    BY <2>4
  <2> HIDE DEF g, p
  <2>7. k \in 0..(RemoteLen(c) - 1)
        /\ e = PairAt(layer, g, LocalRuns[p], RemoteRuns[p], y)
    <3>1. x[2].len = RemoteLen(c)
      BY <2>5, <2>6, CellsOfPair
    <3>2. k \in 0..(RemoteLen(c) - 1)
      BY <3>1
    <3>3. CellsOf(x[1], x[2], x[3], k) = PairAt(layer, g, LocalRuns[p], RemoteRuns[p], y)
      BY <2>5, <2>6, <3>2, CellsOfPair
    <3> QED
      BY <2>2, <3>2, <3>3
  <2>8. y \in 0..(Unit(c) - 1)
    BY <2>7, SharedCell
  <2> HIDE DEF y
  <2>9. e \in RunCells(layer, g)
    BY <2>5, <2>7, <2>8 DEF RunCells
  <2> QED
    BY <2>5, <2>9 DEF CellsOfRuns
<1>4. ASSUME NEW e \in CellsOfRuns PROVE e \in CellsRead(reads)
  <2>1. PICK layer \in layers, g \in gs :
          e \in RunCells(layer, g)
    BY DEF CellsOfRuns
  <2>2. PICK p \in RunsToRead(layer), y \in 0..(Unit(c) - 1) :
          e = PairAt(layer, g, LocalRuns[p], RemoteRuns[p], y)
    BY <2>1 DEF RunCells
  <2>3. PICK i \in ranks, k \in 0..(RemoteLen(c) - 1) : y = i * RemoteLen(c) + k
    BY EveryCellShared
  <2> DEFINE x == PairOf(i, layer, g, LocalRuns[p], RemoteRuns[p])
  <2>4. x \in reads
    <3>1. <<g, p>> \in gs \X RunsToRead(layer)
      OBVIOUS
    <3>2. x \in Transfer(i, layer)
      BY <1>2, <3>1
    <3> QED
      BY <3>2
  <2>5. x[2].len = RemoteLen(c)
        /\ CellsOf(x[1], x[2], x[3], k) = PairAt(layer, g, LocalRuns[p], RemoteRuns[p], y)
    BY <2>3, CellsOfPair
  <2> HIDE DEF x, reads
  <2>6. k \in 0..(x[2].len - 1)
    BY <2>5
  <2> QED
    BY <2>2, <2>4, <2>5, <2>6 DEF CellsRead
<1> HIDE DEF reads
<1>5. CellsRead(reads) = CellsOfRuns
  BY <1>3, <1>4
<1>6. ReadCells' = CellsRead(posted')
  BY <1>1 DEF ReadCells, CellsRead, CellsOf
<1>7. NeededCells' = NeededCells
  BY <1>1 DEF NeededCells, Needed, RunsToRead, LocalRuns, RemoteRuns, FirstRun, Window, KernelIds
<1>8. NeededCells = CellsOfRuns
  BY NeededAre DEF TablesOK
<1> QED
  BY <1>1, <1>5, <1>6, <1>7, <1>8

LEMMA PairInit ==
  ASSUME ~PartialTails, Init
  PROVE  PairInv
<1>1. /\ c \in Configs /\ pc = "handshake" /\ remote = RemoteRuns
      /\ local = KernelIds(LastOf(localTable, Len(localTable) - cached))
  BY DEF Init, RemoteRuns
<1>2. /\ c \in Config /\ c.ratio \in Nat \ {0} /\ c.local_blocks \in Nat
      /\ c.remote_blocks \in Nat
  BY <1>1, ConfigsAre DEF Config
<1>3. PICK r \in 1..c.remote_blocks :
        /\ remoteTable \in Tables(c.remote_blocks, r)
        /\ localTable \in Tables(c.local_blocks, NumLocal(c, r))
        /\ cached \in 0..NumLocal(c, r)
        /\ r % c.ratio = 0 \/ cached \in {0, NumLocal(c, r)}
  BY DEF Init
<1> DEFINE m == NumLocal(c, r)
<1>4. r \in Nat /\ m \in Nat
  <2>1. r \in Nat /\ r + c.ratio - 1 \in Nat
    BY <1>2
  <2>2. (r + c.ratio - 1) \div c.ratio \in Nat
    BY <1>2, <2>1, Quotient
  <2> QED
    BY <2>1, <2>2 DEF NumLocal
<1>5. RemoteOK /\ Len(remoteTable) = r
  BY <1>2, <1>3, <1>4, TableSeq DEF RemoteOK
<1>6. /\ localTable \in Seq(Nat) /\ Len(localTable) = m
      /\ \A i \in 1..Len(localTable) : localTable[i] < c.local_blocks
  <2> HIDE DEF m
  <2>1. localTable \in Tables(c.local_blocks, m)
    BY <1>3 DEF m
  <2> QED
    BY <1>2, <1>4, <2>1, TableSeq
<1>7. TablesOK
  BY <1>2, <1>3, <1>6 DEF TablesOK
<1>8. Covered
  BY <1>3, <1>5, <1>6 DEF Covered
<1> QED
  BY <1>1, <1>5, <1>7, <1>8 DEF PairInv, ReadsUncomputed

LEMMA PairNext ==
  ASSUME PairInv, AcceptInv, [Next]_vars
  PROVE  PairInv'
<1> DEFINE Uncached == KernelIds(LastOf(localTable, Len(localTable) - cached))
<1>1. TablesOK /\ RemoteOK /\ Covered /\ ReadsUncomputed
  BY DEF PairInv
<1>2. ASSUME UNCHANGED tables
      PROVE  /\ TablesOK' /\ RemoteOK' /\ Covered'
             /\ RemoteRuns' = RemoteRuns /\ LocalRuns' = LocalRuns /\ Hit' = Hit
             /\ Uncached' = Uncached
  <2>1. c' = c /\ localTable' = localTable /\ remoteTable' = remoteTable /\ cached' = cached
    BY <1>2 DEF tables
  <2> QED
    BY <1>1, <2>1
       DEF TablesOK, RemoteOK, Covered, RemoteRuns, LocalRuns, Hit, FirstRun, KernelIds
<1>3. CASE Handshake
  <2>1. /\ UNCHANGED tables /\ local' = local /\ remote' = remote /\ pc = "handshake"
        /\ pc' \in {"start", "refused"}
    BY <1>3 DEF Handshake
  <2>2. local = Uncached /\ remote = RemoteRuns
    BY <2>1 DEF PairInv
  <2> HIDE DEF Uncached
  <2>3. local' = Uncached' /\ remote' = RemoteRuns'
    BY <1>2, <2>1, <2>2
  <2> QED
    BY <1>2, <2>1, <2>3 DEF PairInv, ReadsUncomputed, Uncached
<1>4. CASE MapLocal
  <2>1. UNCHANGED tables /\ remote' = remote /\ pc = "start" /\ pc' = "mapped"
    BY <1>4 DEF MapLocal
  <2>2. local = Uncached /\ remote = RemoteRuns
    BY <2>1 DEF PairInv
  <2>3. MappedRuns'
    BY <1>1, <1>4, <2>2, MapLocalPairs
  <2>4. remote' = RemoteRuns'
    BY <1>2, <2>1, <2>2
  <2> QED
    BY <1>2, <2>1, <2>3, <2>4 DEF PairInv, ReadsUncomputed
<1>5. CASE NotifyOnly
  <2>1. UNCHANGED tables /\ pc' = "notified"
    BY <1>5 DEF NotifyOnly
  <2> QED
    BY <1>2, <2>1 DEF PairInv, ReadsUncomputed
<1>6. CASE TrimRemote
  <2>1. UNCHANGED tables /\ pc = "mapped" /\ pc' = "trimmed"
    BY <1>6 DEF TrimRemote
  <2>2. MappedRuns /\ remote = RemoteRuns
    BY <2>1 DEF PairInv
  <2>3. PairedRuns'
    BY <1>1, <1>6, <2>2, TrimRemotePairs
  <2> QED
    BY <1>2, <2>1, <2>3 DEF PairInv, ReadsUncomputed
<1>7. CASE Post
  <2>1. UNCHANGED tables /\ pc = "trimmed" /\ pc' = "posted"
    BY <1>7 DEF Post
  <2>2. PairedRuns
    BY <2>1 DEF PairInv
  <2>3. c \in Configs /\ Accepted(c) /\ HeadsDivide(c)
    BY <2>1, ConfigsAre, TopologyAssumption DEF AcceptInv, Accepted
  <2>4. (ReadCells = NeededCells)'
    BY <1>1, <1>7, <2>2, <2>3, PostReads
  <2> QED
    BY <1>2, <2>1, <2>4 DEF PairInv, ReadsUncomputed
<1>8. CASE UNCHANGED vars
  <2>1. /\ UNCHANGED tables /\ local' = local /\ remote' = remote /\ pc' = pc
        /\ posted' = posted /\ c' = c
    BY <1>8 DEF vars, tables
  <2>2. MappedRuns => MappedRuns'
    BY <1>2, <2>1 DEF MappedRuns
  <2>3. PairedRuns => PairedRuns'
    BY <1>2, <2>1, <2>2 DEF PairedRuns, IsTail
  <2>4. ReadCells' = ReadCells
    BY <2>1 DEF ReadCells
  <2>5. NeededCells' = NeededCells
    BY <1>8 DEF vars, NeededCells, Needed, RunsToRead, LocalRuns, RemoteRuns, FirstRun,
                Window, KernelIds
  <2>6. ReadsUncomputed'
    BY <1>1, <2>1, <2>4, <2>5 DEF ReadsUncomputed
  <2>7. pc' \in {"handshake", "start"} => local' = Uncached'
    <3>1. pc \in {"handshake", "start"} => local = Uncached
      BY DEF PairInv
    <3> HIDE DEF Uncached
    <3> QED
      BY <1>2, <2>1, <3>1
  <2>8. pc' \in {"handshake", "start", "mapped"} => remote' = RemoteRuns'
    BY <1>2, <2>1 DEF PairInv
  <2>9. (pc = "mapped" => MappedRuns) /\ (pc = "trimmed" => PairedRuns)
    BY DEF PairInv
  <2>10. (pc' = "mapped" => MappedRuns') /\ (pc' = "trimmed" => PairedRuns')
    BY <2>1, <2>2, <2>3, <2>9
  <2> QED
    BY <1>2, <2>1, <2>6, <2>7, <2>8, <2>10 DEF PairInv
<1> QED
  BY <1>3, <1>4, <1>5, <1>6, <1>7, <1>8 DEF Next

\* Once its reads are done and its blocks rearranged, a request has in every
\* uncached block, for every layer, K and V, head and token, what the producer
\* has for that same head and token, and no other cell was read: whatever the
\* tensor-parallel sizes, block sizes, layouts and windows of two engines whose
\* handshake passed.  The hypothesis is the one the code does not establish: a
\* prefix hit never meets a last consumer block that is partly filled.
THEOREM ReadsCorrect == ~PartialTails => (Spec => []ReadsUncomputed)
<1> SUFFICES ASSUME ~PartialTails PROVE Spec => []ReadsUncomputed
  OBVIOUS
<1>1. Init => PairInv
  BY PairInit
<1>2. PairInv /\ AcceptInv /\ [Next]_vars => PairInv'
  BY PairNext
<1>3. PairInv => ReadsUncomputed
  BY DEF PairInv
<1> QED
  BY <1>1, <1>2, <1>3, AcceptInvariant, PTL DEF Spec
=============================================================================
