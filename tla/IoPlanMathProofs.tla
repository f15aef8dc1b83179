-------------------------- MODULE IoPlanMathProofs --------------------------
(***************************************************************************)
(* Facts about the arithmetic of the plan scheduler, for every range,      *)
(* queue depth and buffer size.                                            *)
(***************************************************************************)
EXTENDS IoPlanMath, TLAPS

(* What TLA+ division is: quotient and remainder.                          *)
LEMMA DivisionFacts ==
  ASSUME NEW a \in Nat, NEW b \in Nat \ {0}
  PROVE  /\ a \div b \in Nat
         /\ b * (a \div b) <= a
         /\ a < b * (a \div b) + b
  OBVIOUS

(* Multiplication by a natural number is monotone.                         *)
LEMMA ProductMonotone ==
  ASSUME NEW a \in Nat, NEW b \in Nat, NEW c \in Nat, a <= b
  PROVE  a * c \in Nat /\ b * c \in Nat /\ a * c <= b * c
  OBVIOUS

(* One more share.                                                         *)
LEMMA ProductStep ==
  ASSUME NEW a \in Nat, NEW c \in Nat
  PROVE  a * c \in Nat /\ (a + 1) * c \in Nat /\ (a + 1) * c = a * c + c
  OBVIOUS

(* A range that is not empty needs a buffer load, and no more loads than   *)
(* it has blocks.                                                          *)
LEMMA BufferLoadsBounds ==
  ASSUME NEW nlb \in Nat \ {0}, NEW cap \in Nat \ {0}
  PROVE  BufferLoads(nlb, cap) \in 1..nlb
<1> DEFINE q == BufferLoads(nlb, cap)
<1>1. q \in Nat /\ cap * q <= nlb + cap - 1 /\ nlb + cap - 1 < cap * q + cap
  BY DivisionFacts DEF BufferLoads
<1>2. q # 0
  BY <1>1
<1>3. q <= nlb
  BY <1>1
<1> QED  BY <1>1, <1>2, <1>3

(* There are never more plans than asked for, nor more than blocks, and    *)
(* every plan gets a share.                                                *)
LEMMA PlanCountBounds ==
  ASSUME NEW nlb \in Nat, NEW qd \in Nat \ {0}, NEW cap \in Nat \ {0}
  PROVE  /\ PlanCount(nlb, qd, cap) \in Nat
         /\ PlanCount(nlb, qd, cap) <= qd
         /\ PlanCount(nlb, qd, cap) <= nlb
         /\ nlb # 0 => PlanCount(nlb, qd, cap) # 0
<1>1. CASE nlb = 0
  BY <1>1 DEF PlanCount
<1>2. CASE nlb # 0
  <2>1. BufferLoads(nlb, cap) \in 1..nlb
    BY <1>2, BufferLoadsBounds
  <2> QED  BY <1>2, <2>1 DEF PlanCount, LesserOf
<1> QED  BY <1>1, <1>2

(* Every plan gets at least one block, and the shares fit in the range.    *)
LEMMA PlanShareBounds ==
  ASSUME NEW nlb \in Nat \ {0}, NEW qd \in Nat \ {0}, NEW cap \in Nat \ {0}
  PROVE  /\ PlanShare(nlb, qd, cap) \in Nat \ {0}
         /\ PlanCount(nlb, qd, cap) * PlanShare(nlb, qd, cap) <= nlb
<1> DEFINE n == PlanCount(nlb, qd, cap)
           q == PlanShare(nlb, qd, cap)
<1>1. n \in Nat \ {0} /\ n <= nlb
  BY PlanCountBounds
<1>2. q \in Nat /\ n * q <= nlb /\ nlb < n * q + n
  BY <1>1, DivisionFacts DEF PlanShare
<1>3. q # 0
  BY <1>1, <1>2
<1> QED  BY <1>2, <1>3

(* The plan boundaries: the plans lie in order inside the range, each has  *)
(* at least one block, the first starts where the range starts, the last   *)
(* ends where it ends, and each starts where the one before it ended.      *)
LEMMA PlanBounds ==
  ASSUME NEW nlb \in Nat, NEW qd \in Nat \ {0}, NEW cap \in Nat \ {0},
         NEW i \in 0 .. (PlanCount(nlb, qd, cap) - 1)
  PROVE  /\ PlanBegin(i, nlb, qd, cap) \in Nat
         /\ PlanEnd(i, nlb, qd, cap) \in Nat
         /\ PlanBegin(i, nlb, qd, cap) < PlanEnd(i, nlb, qd, cap)
         /\ PlanEnd(i, nlb, qd, cap) <= nlb
         /\ i = 0 => PlanBegin(i, nlb, qd, cap) = 0
         /\ i = PlanCount(nlb, qd, cap) - 1 => PlanEnd(i, nlb, qd, cap) = nlb
         /\ i # PlanCount(nlb, qd, cap) - 1 =>
              PlanEnd(i, nlb, qd, cap) = PlanBegin(i + 1, nlb, qd, cap)
<1> DEFINE n == PlanCount(nlb, qd, cap)
           q == PlanShare(nlb, qd, cap)
<1>1. n \in Nat /\ n <= nlb /\ i \in Nat /\ i + 1 <= n
  BY PlanCountBounds
<1>2. q \in Nat \ {0} /\ n * q <= nlb
  BY <1>1, PlanShareBounds
<1>3. i * q \in Nat /\ (i + 1) * q <= n * q /\ (i + 1) * q = i * q + q
  BY <1>1, <1>2, ProductMonotone
<1> HIDE DEF n, q
<1>4. i = 0 => i * q = 0
  BY <1>2
<1>5. CASE i = n - 1
  BY <1>1, <1>2, <1>3, <1>4, <1>5 DEF PlanBegin, PlanEnd, n, q
<1>6. CASE i # n - 1
  BY <1>1, <1>2, <1>3, <1>4, <1>6 DEF PlanBegin, PlanEnd, n, q
<1> QED  BY <1>5, <1>6

(* A plan ends before any later plan begins.                               *)
LEMMA PlanOrder ==
  ASSUME NEW nlb \in Nat, NEW qd \in Nat \ {0}, NEW cap \in Nat \ {0},
         NEW i \in 0 .. (PlanCount(nlb, qd, cap) - 1),
         NEW j \in 0 .. (PlanCount(nlb, qd, cap) - 1), i < j
  PROVE  PlanEnd(i, nlb, qd, cap) <= PlanBegin(j, nlb, qd, cap)
<1> DEFINE n == PlanCount(nlb, qd, cap)
           q == PlanShare(nlb, qd, cap)
<1>0. n \in Nat /\ n <= nlb
  BY PlanCountBounds
<1>1. i \in Nat /\ j \in Nat /\ i + 1 <= j /\ i # n - 1 /\ n # 0
  BY <1>0
<1>2. q \in Nat \ {0}
  BY <1>0, <1>1, PlanShareBounds
<1>3. (i + 1) * q <= j * q /\ (i + 1) * q = i * q + q
  BY <1>1, <1>2, ProductMonotone
<1> QED  BY <1>0, <1>1, <1>2, <1>3 DEF PlanBegin, PlanEnd

(* Every block of the range lies in some plan.                             *)
LEMMA PlanOfBlock ==
  ASSUME NEW nlb \in Nat, NEW qd \in Nat \ {0}, NEW cap \in Nat \ {0},
         NEW b \in 0 .. (nlb - 1)
  PROVE  \E k \in 0 .. (PlanCount(nlb, qd, cap) - 1) :
           PlanBegin(k, nlb, qd, cap) <= b /\ b < PlanEnd(k, nlb, qd, cap)
<1> DEFINE n == PlanCount(nlb, qd, cap)
           q == PlanShare(nlb, qd, cap)
           d == b \div q
<1>0. nlb \in Nat \ {0} /\ b \in Nat
  OBVIOUS
<1>1. n \in Nat /\ n # 0
  BY PlanCountBounds
<1>2. q \in Nat \ {0}
  BY <1>0, PlanShareBounds
<1>3. d \in Nat /\ q * d <= b /\ b < q * d + q
  BY <1>0, <1>2, DivisionFacts
<1>4. CASE d < n
  <2>1. d \in 0 .. (n - 1) /\ PlanBegin(d, nlb, qd, cap) = q * d
    BY <1>1, <1>2, <1>3, <1>4 DEF PlanBegin
  <2>2. b < PlanEnd(d, nlb, qd, cap)
    BY <1>1, <1>2, <1>3, <2>1 DEF PlanEnd
  <2> QED  BY <1>3, <2>1, <2>2
<1>5. CASE d >= n
  <2>1. (n - 1) * q <= d * q /\ d * q = q * d
    BY <1>1, <1>2, <1>3, <1>5, ProductMonotone
  <2>2. n - 1 \in 0 .. (n - 1) /\ PlanEnd(n - 1, nlb, qd, cap) = nlb
    BY <1>1 DEF PlanEnd
  <2>3. PlanBegin(n - 1, nlb, qd, cap) <= b
    BY <1>1, <1>2, <1>3, <2>1 DEF PlanBegin
  <2> QED  BY <2>2, <2>3
<1> QED  BY <1>1, <1>3, <1>4, <1>5

(* Every plan has a buffer load of its own: those before the last plan's   *)
(* do not reach the end of the range.                                      *)
LEMMA PlanLoads ==
  ASSUME NEW nlb \in Nat, NEW qd \in Nat \ {0}, NEW cap \in Nat \ {0},
         NEW k \in 0 .. (PlanCount(nlb, qd, cap) - 1)
  PROVE  k * cap \in Nat /\ k * cap < nlb
<1> DEFINE q == BufferLoads(nlb, cap)
<1>1. nlb # 0 /\ PlanCount(nlb, qd, cap) \in Nat
  BY PlanCountBounds DEF PlanCount
<1>2. q \in Nat /\ cap * q <= nlb + cap - 1
  BY <1>1, DivisionFacts DEF BufferLoads
<1>3. k \in Nat /\ k + 1 <= q
  BY <1>1, <1>2 DEF PlanCount, LesserOf
<1> HIDE DEF q
<1>4. (k + 1) * cap <= q * cap /\ (k + 1) * cap = k * cap + cap /\ k * cap \in Nat
  BY <1>2, <1>3, ProductMonotone, ProductStep
<1>5. q * cap = cap * q
  BY <1>2
<1> QED  BY <1>1, <1>2, <1>4, <1>5
=============================================================================
