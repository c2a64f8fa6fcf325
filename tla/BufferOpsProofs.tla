-------------------------- MODULE BufferOpsProofs --------------------------
(***************************************************************************)
(* Facts about the capacity arithmetic and the operations of Buffer, for   *)
(* every chunk size and every width of usize.  The rounding functions      *)
(* return supported capacities that hold what was asked for, and none of   *)
(* their sums and products wraps.  Every operation preserves the invariant *)
(* of its doc comment, for every capacity, length and position, provided   *)
(* the client keeps its two obligations: the sum of consume fits a usize,  *)
(* and the target of shrink_targeted is covered by the capacity.           *)
(***************************************************************************)
EXTENDS BufferOps, WellFoundedInduction, TLAPS

-----------------------------------------------------------------------------
(* Division by a chunk size, which SMT decides one step at a time. *)
LEMMA Division ==
  ASSUME NEW a \in Nat, NEW c \in Nat \ {0}
  PROVE  /\ a \div c \in Nat
         /\ (a \div c) * c <= a
         /\ a < (a \div c) * c + c
  OBVIOUS

LEMMA MulMod ==
  ASSUME NEW q \in Nat, NEW c \in Nat \ {0}
  PROVE  q * c \in Nat /\ (q * c) % c = 0
  OBVIOUS

LEMMA ModMul ==
  ASSUME NEW a \in Nat, NEW c \in Nat \ {0}, a % c = 0
  PROVE  a \div c \in Nat /\ a = (a \div c) * c
  OBVIOUS

LEMMA MulMono ==
  ASSUME NEW q \in Nat, NEW r \in Nat, NEW c \in Nat \ {0}, q < r
  PROVE  q * c + c <= r * c
  OBVIOUS

(* A quotient is monotonic in its multiple. *)
LEMMA MulCancel ==
  ASSUME NEW q \in Nat, NEW r \in Nat, NEW c \in Nat \ {0}, q * c < r * c
  PROVE  q < r
  OBVIOUS

(* A set of naturals that is not empty has a least element. *)
LEMMA Least ==
  ASSUME NEW S \in SUBSET Nat, NEW e \in S
  PROVE  \E n \in S : \A m \in S : n <= m
  <1>1. PICK x \in S : \A y \in S : ~(<<y, x>> \in OpToRel(<, Nat))
    BY NatLessThanWellFounded, WFMin
  <1>2. ASSUME NEW y \in S, y < x
        PROVE  FALSE
    <2>1. <<y, x>> \in Nat \X Nat /\ <<y, x>>[1] < <<y, x>>[2]
      BY <1>2
    <2>2. <<y, x>> \in OpToRel(<, Nat)
      BY <2>1, Zenon DEF OpToRel
    <2>. QED BY <2>2, <1>1
  <1>. QED BY <1>2

-----------------------------------------------------------------------------
(***************************************************************************)
(* The ceiling is a whole number M >= 2 of chunks, in the lower half of    *)
(* usize: a capacity and two more chunks never wrap.                       *)
(***************************************************************************)
LEMMA Ceiling ==
  LET M == MAX_SUPPORTED_CAPACITY \div CHUNK_SIZE
  IN  /\ M \in Nat /\ M >= 2
      /\ MAX_SUPPORTED_CAPACITY \in Nat
      /\ MAX_SUPPORTED_CAPACITY = M * CHUNK_SIZE
      /\ 2 * CHUNK_SIZE <= MAX_SUPPORTED_CAPACITY
      /\ 2 * MAX_SUPPORTED_CAPACITY <= USIZE_MAX
  <1> DEFINE half == USIZE_MAX \div 2
             m    == half \div CHUNK_SIZE
  <1>1. CHUNK_SIZE \in Nat \ {0} /\ USIZE_MAX \in Nat /\ 4 * CHUNK_SIZE <= USIZE_MAX
    BY CapacityAssumption
  <1>2. half \in Nat /\ 2 * half <= USIZE_MAX /\ 2 * CHUNK_SIZE <= half
    BY <1>1
  <1> HIDE DEF half
  <1>3. m \in Nat /\ m * CHUNK_SIZE <= half /\ half < m * CHUNK_SIZE + CHUNK_SIZE
    BY <1>1, <1>2, Division
  <1> HIDE DEF m
  <1>4. m >= 2
    <2>1. m * CHUNK_SIZE \in Nat
      BY <1>1, <1>3, MulMod
    <2>2. 1 * CHUNK_SIZE < m * CHUNK_SIZE
      BY <1>1, <1>2, <1>3, <2>1
    <2>3. 1 < m
      BY <2>2, <1>1, <1>3, MulCancel
    <2>. QED BY <2>3, <1>3
  <1>5. MAX_SUPPORTED_CAPACITY = m * CHUNK_SIZE
    BY DEF MAX_SUPPORTED_CAPACITY, m, half
  <1>6. MAX_SUPPORTED_CAPACITY \in Nat /\ MAX_SUPPORTED_CAPACITY % CHUNK_SIZE = 0
    BY <1>5, <1>1, <1>3, MulMod
  <1>7. /\ MAX_SUPPORTED_CAPACITY \div CHUNK_SIZE \in Nat
        /\ MAX_SUPPORTED_CAPACITY = (MAX_SUPPORTED_CAPACITY \div CHUNK_SIZE) * CHUNK_SIZE
    BY <1>6, <1>1, ModMul
  <1>8. MAX_SUPPORTED_CAPACITY <= half /\ 2 * CHUNK_SIZE <= MAX_SUPPORTED_CAPACITY
    <2>1. 1 * CHUNK_SIZE + CHUNK_SIZE <= m * CHUNK_SIZE
      BY <1>4, <1>3, <1>1, MulMono
    <2>. QED BY <2>1, <1>5, <1>3, <1>1, <1>6
  <1>9. MAX_SUPPORTED_CAPACITY \div CHUNK_SIZE >= 2
    <2>1. 1 * CHUNK_SIZE < (MAX_SUPPORTED_CAPACITY \div CHUNK_SIZE) * CHUNK_SIZE
      BY <1>7, <1>8, <1>1, <1>6
    <2>2. 1 < MAX_SUPPORTED_CAPACITY \div CHUNK_SIZE
      BY <2>1, <1>7, <1>1, MulCancel
    <2>. QED BY <2>2, <1>7
  <1>. QED BY <1>6, <1>7, <1>8, <1>9, <1>2, <1>1

(* Capacities are the numbers of chunks from 1 to M. *)
LEMMA CapacityChunks ==
  ASSUME NEW c \in Capacities
  PROVE  /\ c \in Nat /\ CHUNK_SIZE <= c /\ c <= MAX_SUPPORTED_CAPACITY
         /\ c \div CHUNK_SIZE \in Nat
         /\ c = (c \div CHUNK_SIZE) * CHUNK_SIZE
  <1>1. c \in Nat /\ CHUNK_SIZE <= c /\ c <= MAX_SUPPORTED_CAPACITY /\ c % CHUNK_SIZE = 0
    BY CapacityAssumption, Ceiling DEF Capacities
  <1>2. c \div CHUNK_SIZE \in Nat /\ c = (c \div CHUNK_SIZE) * CHUNK_SIZE
    BY <1>1, CapacityAssumption, ModMul
  <1>. QED BY <1>1, <1>2

LEMMA ChunksCapacity ==
  ASSUME NEW k \in Nat,
         CHUNK_SIZE <= k * CHUNK_SIZE, k * CHUNK_SIZE <= MAX_SUPPORTED_CAPACITY
  PROVE  k * CHUNK_SIZE \in Capacities
  <1>1. k * CHUNK_SIZE \in Nat /\ (k * CHUNK_SIZE) % CHUNK_SIZE = 0
    BY CapacityAssumption, MulMod
  <1>. QED BY <1>1, CapacityAssumption, Ceiling DEF Capacities

LEMMA Extremes == CHUNK_SIZE \in Capacities /\ MAX_SUPPORTED_CAPACITY \in Capacities
  <1>1. 1 * CHUNK_SIZE = CHUNK_SIZE /\ CHUNK_SIZE \in Nat /\ CHUNK_SIZE <= MAX_SUPPORTED_CAPACITY
    BY CapacityAssumption, Ceiling
  <1>2. 1 * CHUNK_SIZE \in Capacities
    BY ChunksCapacity, <1>1
  <1>3. MAX_SUPPORTED_CAPACITY \in Capacities
    BY Ceiling, ChunksCapacity, <1>1
  <1>. QED BY <1>1, <1>2, <1>3

(* Two capacities that differ, differ by a chunk at least. *)
LEMMA Spacing ==
  ASSUME NEW a \in Capacities, NEW b \in Capacities, a < b
  PROVE  a + CHUNK_SIZE <= b
  <1> DEFINE p == a \div CHUNK_SIZE
             q == b \div CHUNK_SIZE
  <1>1. p \in Nat /\ q \in Nat /\ a = p * CHUNK_SIZE /\ b = q * CHUNK_SIZE
    BY CapacityChunks
  <1> HIDE DEF p, q
  <1>2. p * CHUNK_SIZE < q * CHUNK_SIZE
    BY <1>1
  <1>3. p < q
    BY <1>1, <1>2, CapacityAssumption, MulCancel
  <1>4. p * CHUNK_SIZE + CHUNK_SIZE <= q * CHUNK_SIZE
    BY <1>1, <1>3, CapacityAssumption, MulMono
  <1>. QED BY <1>1, <1>4

(* An amount of bytes that does not reach the ceiling takes Chunks chunks. *)
LEMMA ChunkCount ==
  ASSUME NEW n \in Nat, n <= MAX_SUPPORTED_CAPACITY
  PROVE  /\ Chunks(n) \in Nat
         /\ n <= Chunks(n) * CHUNK_SIZE
         /\ Chunks(n) * CHUNK_SIZE <= n + CHUNK_SIZE - 1
  <1>1. CHUNK_SIZE \in Nat \ {0} /\ USIZE_MAX \in Nat
    BY CapacityAssumption
  <1>2. Wrap(n + CHUNK_SIZE - 1) = n + CHUNK_SIZE - 1 /\ n + CHUNK_SIZE - 1 \in Nat
    BY <1>1, Ceiling DEF Wrap
  <1> DEFINE t == n + CHUNK_SIZE - 1
             q == t \div CHUNK_SIZE
  <1>3. Chunks(n) = q
    BY <1>2 DEF Chunks
  <1>4. q \in Nat /\ q * CHUNK_SIZE <= t /\ t < q * CHUNK_SIZE + CHUNK_SIZE
    BY <1>1, <1>2, Division
  <1>5. q * CHUNK_SIZE \in Nat
    BY <1>1, <1>4, MulMod
  <1> HIDE DEF q
  <1>. QED BY <1>1, <1>3, <1>4, <1>5

-----------------------------------------------------------------------------
(* What cap_up_linear returns: see LinearRounding of CapacitySweep. *)
LEMMA LinearUp ==
  ASSUME NEW n \in Nat
  PROVE  /\ CapUpLinear(n) \in Capacities
         /\ Smaller(n, MAX_SUPPORTED_CAPACITY) <= CapUpLinear(n)
         /\ \A c \in Capacities :
              Smaller(n, MAX_SUPPORTED_CAPACITY) <= c => CapUpLinear(n) <= c
  <1>1. CHUNK_SIZE \in Nat \ {0} /\ MAX_SUPPORTED_CAPACITY \in Nat
    BY CapacityAssumption, Ceiling
  <1>2. CASE n > MAX_SUPPORTED_CAPACITY - CHUNK_SIZE
    <2>1. CapUpLinear(n) = MAX_SUPPORTED_CAPACITY
      BY <1>2 DEF CapUpLinear
    <2>2. ASSUME NEW c \in Capacities, Smaller(n, MAX_SUPPORTED_CAPACITY) <= c
          PROVE  MAX_SUPPORTED_CAPACITY <= c
      <3>1. c \in Nat /\ c > MAX_SUPPORTED_CAPACITY - CHUNK_SIZE
        BY <2>2, <1>2, <1>1, CapacityChunks DEF Smaller
      <3>2. c < MAX_SUPPORTED_CAPACITY => c + CHUNK_SIZE <= MAX_SUPPORTED_CAPACITY
        BY Extremes, Spacing
      <3>. QED BY <3>1, <3>2, <1>1
    <2>. QED BY <2>1, <2>2, <1>1, Extremes DEF Smaller
  <1>3. CASE n <= MAX_SUPPORTED_CAPACITY - CHUNK_SIZE /\ n <= CHUNK_SIZE
    <2>1. CapUpLinear(n) = CHUNK_SIZE
      BY <1>3, <1>1 DEF CapUpLinear
    <2>. QED BY <2>1, <1>3, <1>1, Extremes, CapacityChunks DEF Smaller
  <1>4. CASE n <= MAX_SUPPORTED_CAPACITY - CHUNK_SIZE /\ n > CHUNK_SIZE
    <2> DEFINE r == Chunks(n) * CHUNK_SIZE
    <2>1. CapUpLinear(n) = r /\ n <= MAX_SUPPORTED_CAPACITY
      BY <1>4, <1>1 DEF CapUpLinear
    <2>2. Chunks(n) \in Nat /\ n <= r /\ r <= n + CHUNK_SIZE - 1
      BY <2>1, ChunkCount
    <2>3. r \in Nat
      BY <2>2, <1>1, MulMod
    <2>4. r \in Capacities
      BY <2>2, <2>3, <1>4, <1>1, ChunksCapacity
    <2> HIDE DEF r
    <2>5. ASSUME NEW c \in Capacities, n <= c
          PROVE  r <= c
      <3>1. c < r => c + CHUNK_SIZE <= r
        BY <2>4, Spacing
      <3>. QED BY <3>1, <2>2, <2>3, <2>5, <1>1, CapacityChunks
    <2>. QED BY <2>1, <2>2, <2>3, <2>4, <2>5, <1>4, <1>1 DEF Smaller
  <1>. QED BY <1>1, <1>2, <1>3, <1>4

-----------------------------------------------------------------------------
(* The powers of two: what halving one gives, and the least that holds n.  *)
LEMMA Half ==
  ASSUME NEW p \in PowersOfTwo, p >= 2
  PROVE  /\ p \in Nat /\ p \div 2 \in Nat \ {0}
         /\ p \div 2 \in PowersOfTwo
         /\ p = 2 * (p \div 2)
  <1> DEFINE h == p \div 2
  <1>1. p \in Nat /\ p <= USIZE_MAX /\ USIZE_MAX \in Nat
    BY CapacityAssumption DEF PowersOfTwo
  <1>2. p % 2 = 0
    <2>1. p % p = 0
      BY <1>1
    <2>. QED BY <2>1, <1>1 DEF PowersOfTwo
  <1>3. p = 2 * h /\ h \in Nat \ {0}
    BY <1>1, <1>2
  <1> HIDE DEF h
  <1>4. ASSUME NEW d \in 2..h, h % d = 0
        PROVE  d % 2 = 0
    <2> DEFINE k == h \div d
    <2>1. d \in Nat \ {0}
      BY <1>3
    <2>2. h = k * d /\ k \in Nat
      BY <1>4, <2>1, <1>3, ModMul
    <2> HIDE DEF k
    <2>3. p = (2 * k) * d /\ 2 * k \in Nat
      BY <2>1, <2>2, <1>3
    <2>4. p % d = 0
      BY <2>1, <2>3, MulMod
    <2>5. d \in 2..p
      BY <1>3, <1>1
    <2>. QED BY <2>4, <2>5 DEF PowersOfTwo
  <1>5. h \in PowersOfTwo
    BY <1>1, <1>3, <1>4 DEF PowersOfTwo
  <1>. QED BY <1>1, <1>3, <1>5 DEF h

LEMMA NextPower ==
  ASSUME NEW n \in Nat, NEW q \in PowersOfTwo, n <= q
  PROVE  /\ NextPowerOfTwo(n) \in PowersOfTwo
         /\ n <= NextPowerOfTwo(n)
         /\ \A r \in PowersOfTwo : n <= r => NextPowerOfTwo(n) <= r
  <1> DEFINE S == {p \in PowersOfTwo : n <= p}
  <1>1. S \in SUBSET Nat /\ q \in S
    BY DEF PowersOfTwo
  <1>2. PICK p \in S : \A m \in S : p <= m
    BY <1>1, Least
  <1>3. \E x \in PowersOfTwo : n <= x /\ \A y \in PowersOfTwo : n <= y => x <= y
    BY <1>2
  <1>. QED BY <1>3, Zenon DEF NextPowerOfTwo

(* No power of two lies strictly between one and its double. *)
LEMMA Doubling ==
  ASSUME NEW h \in PowersOfTwo, NEW k \in PowersOfTwo, h < k
  PROVE  2 * h <= k
  <1> DEFINE Between(x) == \E g \in PowersOfTwo : g < x /\ x < 2 * g
             S          == {x \in PowersOfTwo : Between(x)}
  <1>1. SUFFICES ASSUME k < 2 * h PROVE FALSE
    BY DEF PowersOfTwo
  <1>2. k \in S /\ S \in SUBSET Nat
    BY <1>1 DEF PowersOfTwo
  <1>3. PICK x \in S : \A m \in S : x <= m
    BY <1>2, Least
  <1>4. PICK g \in PowersOfTwo : g < x /\ x < 2 * g
    BY <1>3
  <1>5. g \in Nat /\ x \in Nat /\ x \in PowersOfTwo /\ g >= 2 /\ x >= 2
    BY <1>3, <1>4 DEF PowersOfTwo
  <1>6. /\ g \div 2 \in PowersOfTwo /\ g = 2 * (g \div 2) /\ g \div 2 \in Nat
        /\ x \div 2 \in PowersOfTwo /\ x = 2 * (x \div 2) /\ x \div 2 \in Nat \ {0}
    BY <1>4, <1>5, Half
  <1>7. g \div 2 < x \div 2 /\ x \div 2 < 2 * (g \div 2)
    BY <1>4, <1>5, <1>6
  <1>8. x \div 2 \in S
    BY <1>6, <1>7
  <1>9. x <= x \div 2
    BY <1>3, <1>8
  <1>. QED BY <1>9, <1>6, <1>5

(***************************************************************************)
(* MAX_EXPONENTIAL_CAPACITY is the greatest power-of-two number of chunks  *)
(* below the ceiling.                                                      *)
(***************************************************************************)
LEMMA ExponentialCeiling ==
  \E h \in PowersOfTwo :
    /\ MAX_EXPONENTIAL_CAPACITY = h * CHUNK_SIZE
    /\ h * CHUNK_SIZE + CHUNK_SIZE <= MAX_SUPPORTED_CAPACITY
    /\ MAX_SUPPORTED_CAPACITY <= (2 * h) * CHUNK_SIZE
  <1> DEFINE M == MAX_SUPPORTED_CAPACITY \div CHUNK_SIZE
             N == NextPowerOfTwo(M)
             h == N \div 2
  <1>1. CHUNK_SIZE \in Nat \ {0} /\ USIZE_MAX \in Nat
    BY CapacityAssumption
  <1>2. M \in Nat /\ M >= 2 /\ MAX_SUPPORTED_CAPACITY = M * CHUNK_SIZE
    BY Ceiling
  <1> HIDE DEF M
  <1>3. \E q \in PowersOfTwo : M <= q
    <2>1. PICK q \in PowersOfTwo : USIZE_MAX = 2 * q - 1
      BY WordAssumption
    <2>2. 2 * (M * CHUNK_SIZE) <= USIZE_MAX
      BY <1>2, Ceiling
    <2>3. M <= M * CHUNK_SIZE
      BY <1>1, <1>2
    <2>4. M * CHUNK_SIZE \in Nat
      BY <1>1, <1>2, MulMod
    <2>5. q \in Nat
      BY DEF PowersOfTwo
    <2>. QED BY <2>1, <2>2, <2>3, <2>4, <2>5, <1>2
  <1>4. /\ N \in PowersOfTwo /\ M <= N
        /\ \A r \in PowersOfTwo : M <= r => N <= r
    BY <1>2, <1>3, NextPower
  <1>5. MAX_EXPONENTIAL_CAPACITY = h * CHUNK_SIZE
    BY DEF MAX_EXPONENTIAL_CAPACITY, M
  <1> HIDE DEF N
  <1>6. N \in Nat /\ N >= 2
    BY <1>4, <1>2 DEF PowersOfTwo
  <1>7. h \in PowersOfTwo /\ N = 2 * h /\ h \in Nat \ {0}
    BY <1>4, <1>6, Half
  <1> HIDE DEF h
  <1>8. h < M
    BY <1>4, <1>7, <1>2
  <1>9. h * CHUNK_SIZE + CHUNK_SIZE <= M * CHUNK_SIZE
    BY <1>1, <1>2, <1>7, <1>8, MulMono
  <1>10. M * CHUNK_SIZE <= N * CHUNK_SIZE
    BY <1>1, <1>2, <1>4, <1>6
  <1>. QED BY <1>2, <1>5, <1>7, <1>9, <1>10

-----------------------------------------------------------------------------
(***************************************************************************)
(* What cap_up returns: see ExponentialRounding of CapacitySweep.  OnStep  *)
(* are the capacities that exponential growth stops at.                    *)
(***************************************************************************)
OnStep(c) == c \div CHUNK_SIZE \in PowersOfTwo \/ c = MAX_SUPPORTED_CAPACITY

LEMMA ExponentialUp ==
  ASSUME NEW n \in Nat
  PROVE  /\ CapUp(n) \in Capacities /\ OnStep(CapUp(n))
         /\ Smaller(n, MAX_SUPPORTED_CAPACITY) <= CapUp(n)
         /\ \A c \in Capacities :
              OnStep(c) /\ Smaller(n, MAX_SUPPORTED_CAPACITY) <= c => CapUp(n) <= c
  <1>1. CHUNK_SIZE \in Nat \ {0} /\ MAX_SUPPORTED_CAPACITY \in Nat /\ USIZE_MAX \in Nat
    BY CapacityAssumption, Ceiling
  <1>2. PICK h \in PowersOfTwo :
          /\ MAX_EXPONENTIAL_CAPACITY = h * CHUNK_SIZE
          /\ h * CHUNK_SIZE + CHUNK_SIZE <= MAX_SUPPORTED_CAPACITY
          /\ MAX_SUPPORTED_CAPACITY <= (2 * h) * CHUNK_SIZE
    BY ExponentialCeiling
  <1>3. h \in Nat \ {0}
    BY <1>1 DEF PowersOfTwo
  <1>4. h * CHUNK_SIZE \in Nat /\ CHUNK_SIZE <= h * CHUNK_SIZE
    BY <1>1, <1>3
  <1>5. CASE n > MAX_EXPONENTIAL_CAPACITY
    <2>1. CapUp(n) = MAX_SUPPORTED_CAPACITY
      BY <1>5 DEF CapUp
    <2>2. ASSUME NEW c \in Capacities, OnStep(c), Smaller(n, MAX_SUPPORTED_CAPACITY) <= c
          PROVE  MAX_SUPPORTED_CAPACITY <= c
      <3> DEFINE k == c \div CHUNK_SIZE
      <3>1. c \in Nat /\ k \in Nat /\ c = k * CHUNK_SIZE
        BY CapacityChunks
      <3>2. SUFFICES ASSUME k \in PowersOfTwo
                     PROVE  MAX_SUPPORTED_CAPACITY <= c
        BY <2>2, <3>1, <1>1 DEF OnStep
      <3> HIDE DEF k
      <3>3. h * CHUNK_SIZE < k * CHUNK_SIZE
        BY <1>1, <1>2, <1>4, <1>5, <2>2, <3>1 DEF Smaller
      <3>4. h < k
        BY <1>1, <1>3, <3>1, <3>3, MulCancel
      <3>5. 2 * h <= k
        BY <3>2, <3>4, Doubling
      <3>6. (2 * h) * CHUNK_SIZE <= k * CHUNK_SIZE
        BY <3>5, <3>1, <1>1, <1>3
      <3>7. (2 * h) * CHUNK_SIZE \in Nat /\ k * CHUNK_SIZE \in Nat
        BY <3>1, <1>1, <1>3, MulMod
      <3>. QED BY <3>6, <3>7, <3>1, <1>1, <1>2
    <2>. QED BY <2>1, <2>2, <1>1, Extremes DEF Smaller, OnStep
  <1>6. CASE n <= MAX_EXPONENTIAL_CAPACITY /\ n <= CHUNK_SIZE
    <2>1. CapUp(n) = CHUNK_SIZE
      BY <1>6, <1>1, <1>2, <1>4 DEF CapUp
    <2>2. CHUNK_SIZE \div CHUNK_SIZE = 1
      BY <1>1
    <2>3. 1 \in PowersOfTwo
      BY <1>1, CapacityAssumption DEF PowersOfTwo
    <2>. QED BY <2>1, <2>2, <2>3, <1>6, <1>1, Extremes, CapacityChunks DEF Smaller, OnStep
  <1>7. CASE n <= MAX_EXPONENTIAL_CAPACITY /\ n > CHUNK_SIZE
    <2> DEFINE q == Chunks(n)
               p == NextPowerOfTwo(q)
    <2>1. n <= MAX_SUPPORTED_CAPACITY
      BY <1>7, <1>1, <1>2, <1>4
    <2>2. q \in Nat /\ n <= q * CHUNK_SIZE /\ q * CHUNK_SIZE <= n + CHUNK_SIZE - 1
      BY <2>1, ChunkCount
    <2> HIDE DEF q
    <2>3. q * CHUNK_SIZE \in Nat
      BY <2>2, <1>1, MulMod
    <2>4. q <= h
      <3>1. q * CHUNK_SIZE < (h + 1) * CHUNK_SIZE
        <4>1. (h + 1) * CHUNK_SIZE = h * CHUNK_SIZE + CHUNK_SIZE
          BY <1>1, <1>3
        <4>. QED BY <4>1, <2>2, <2>3, <1>1, <1>2, <1>4, <1>7
      <3>2. q < h + 1
        BY <3>1, <2>2, <1>1, <1>3, MulCancel
      <3>. QED BY <3>2, <2>2, <1>3
    <2>5. /\ p \in PowersOfTwo /\ q <= p /\ p <= h
          /\ \A r \in PowersOfTwo : q <= r => p <= r
      BY <2>2, <2>4, NextPower
    <2> HIDE DEF p
    <2>6. p \in Nat
      BY <2>5 DEF PowersOfTwo
    <2>7. p * CHUNK_SIZE \in Nat /\ q * CHUNK_SIZE <= p * CHUNK_SIZE /\ p * CHUNK_SIZE <= h * CHUNK_SIZE
      BY <2>2, <2>5, <2>6, <1>1, <1>3
    <2>8. n <= p * CHUNK_SIZE /\ p * CHUNK_SIZE <= MAX_SUPPORTED_CAPACITY
      BY <2>2, <2>3, <2>7, <1>1, <1>2, <1>4
    <2>9. p * CHUNK_SIZE <= USIZE_MAX
      BY <2>7, <2>8, <1>1, Ceiling
    <2>10. CapUp(n) = p * CHUNK_SIZE
      BY <1>7, <1>1, <1>2, <1>4, <2>7, <2>9 DEF CapUp, Wrap, p, q
    <2>11. p * CHUNK_SIZE \in Capacities
      BY <2>6, <2>7, <2>8, <1>1, <1>7, ChunksCapacity
    <2>12. (p * CHUNK_SIZE) \div CHUNK_SIZE = p
      BY <2>6, <1>1
    <2>13. ASSUME NEW c \in Capacities, OnStep(c), n <= c
           PROVE  p * CHUNK_SIZE <= c
      <3> DEFINE k == c \div CHUNK_SIZE
      <3>1. c \in Nat /\ k \in Nat /\ c = k * CHUNK_SIZE
        BY CapacityChunks
      <3>2. SUFFICES ASSUME k \in PowersOfTwo
                     PROVE  p * CHUNK_SIZE <= c
        BY <2>13, <2>8, <3>1, <1>1 DEF OnStep
      <3> HIDE DEF k
      <3>3. q <= k
        <4>1. k < q => k * CHUNK_SIZE + CHUNK_SIZE <= q * CHUNK_SIZE
          BY <3>1, <2>2, <1>1, MulMono
        <4>. QED BY <4>1, <3>1, <2>2, <2>3, <2>13, <1>1
      <3>4. p <= k
        BY <3>2, <3>3, <2>5
      <3>5. p * CHUNK_SIZE <= k * CHUNK_SIZE
        BY <3>4, <3>1, <2>6, <1>1
      <3>. QED BY <3>1, <3>5
    <2>14. Smaller(n, MAX_SUPPORTED_CAPACITY) = n
      BY <2>1, <1>1 DEF Smaller
    <2>. QED BY <2>5, <2>8, <2>10, <2>11, <2>12, <2>13, <2>14 DEF OnStep
  <1>8. MAX_EXPONENTIAL_CAPACITY \in Nat
    BY <1>2, <1>4
  <1>. QED BY <1>1, <1>5, <1>6, <1>7, <1>8

(* Growing by a chunk below the ceiling: no wrap, and more room. *)
LEMMA RoomAbove ==
  ASSUME NEW c \in Capacities
  PROVE  /\ Wrap(c + CHUNK_SIZE) = c + CHUNK_SIZE
         /\ c # MAX_SUPPORTED_CAPACITY => c + CHUNK_SIZE <= MAX_SUPPORTED_CAPACITY
         /\ c # MAX_SUPPORTED_CAPACITY => c < CapUp(c + CHUNK_SIZE)
  <1>1. /\ c \in Nat /\ CHUNK_SIZE <= c /\ c <= MAX_SUPPORTED_CAPACITY
        /\ CHUNK_SIZE \in Nat \ {0} /\ MAX_SUPPORTED_CAPACITY \in Nat /\ USIZE_MAX \in Nat
    BY CapacityChunks, CapacityAssumption, Ceiling
  <1>2. Wrap(c + CHUNK_SIZE) = c + CHUNK_SIZE
    BY <1>1, Ceiling DEF Wrap
  <1>3. ASSUME c # MAX_SUPPORTED_CAPACITY
        PROVE  c + CHUNK_SIZE <= MAX_SUPPORTED_CAPACITY
    BY <1>1, <1>3, Extremes, Spacing
  <1>4. ASSUME c # MAX_SUPPORTED_CAPACITY
        PROVE  c < CapUp(c + CHUNK_SIZE)
    <2>1. c + CHUNK_SIZE \in Nat
      BY <1>1
    <2>2. CapUp(c + CHUNK_SIZE) \in Nat /\ c + CHUNK_SIZE <= CapUp(c + CHUNK_SIZE)
      BY <2>1, <1>1, <1>3, <1>4, ExponentialUp, CapacityChunks DEF Smaller
    <2>. QED BY <2>2, <1>1
  <1>. QED BY <1>2, <1>3, <1>4

(* What cap_down returns: see DownwardRounding of CapacitySweep. *)
LEMMA Down ==
  ASSUME NEW n \in Nat
  PROVE  /\ CapDown(n) \in Capacities
         /\ CapDown(n) <= Larger(n, CHUNK_SIZE)
         /\ \A c \in Capacities : c <= Larger(n, CHUNK_SIZE) => c <= CapDown(n)
  <1>1. CHUNK_SIZE \in Nat \ {0} /\ MAX_SUPPORTED_CAPACITY \in Nat
    BY CapacityAssumption, Ceiling
  <1>2. CASE n <= CHUNK_SIZE \/ n >= MAX_SUPPORTED_CAPACITY
    BY <1>1, <1>2, Extremes, CapacityChunks, Ceiling DEF CapDown, Larger
  <1>3. CASE n > CHUNK_SIZE /\ n < MAX_SUPPORTED_CAPACITY
    <2> DEFINE k == n \div CHUNK_SIZE
               r == k * CHUNK_SIZE
    <2>1. CapDown(n) = r /\ Larger(n, CHUNK_SIZE) = n
      BY <1>1, <1>3 DEF CapDown, Larger
    <2>2. k \in Nat /\ r <= n /\ n < r + CHUNK_SIZE
      BY <1>1, Division
    <2> HIDE DEF k
    <2>3. r \in Nat
      BY <2>2, <1>1, MulMod
    <2>4. CHUNK_SIZE <= r
      <3>1. 0 * CHUNK_SIZE < k * CHUNK_SIZE
        BY <1>1, <1>3, <2>2, <2>3
      <3>2. 0 < k
        BY <3>1, <2>2, <1>1, MulCancel
      <3>3. 0 * CHUNK_SIZE + CHUNK_SIZE <= k * CHUNK_SIZE
        BY <3>2, <2>2, <1>1, MulMono
      <3>. QED BY <3>3, <1>1
    <2>5. r \in Capacities
      BY <2>2, <2>3, <2>4, <1>1, <1>3, ChunksCapacity
    <2> HIDE DEF r
    <2>6. ASSUME NEW c \in Capacities, c <= n
          PROVE  c <= r
      <3>1. r < c => r + CHUNK_SIZE <= c
        BY <2>5, Spacing
      <3>. QED BY <3>1, <2>2, <2>3, <2>6, <1>1, CapacityChunks
    <2>. QED BY <2>1, <2>2, <2>5, <2>6
  <1>. QED BY <1>1, <1>2, <1>3

-----------------------------------------------------------------------------
(* The vectors that the operations build. *)
LEMMA Vector ==
  ASSUME NEW n \in Nat, NEW v \in [1..n -> Nat]
  PROVE  v \in Seq(Nat) /\ Len(v) = n
  OBVIOUS

LEMMA ResizeVector ==
  ASSUME NEW v \in Seq(Nat), NEW n \in Nat
  PROVE  /\ Resize(v, n) \in Seq(Nat)
         /\ Len(Resize(v, n)) = n
         /\ \A i \in 1..n : i <= Len(v) => Resize(v, n)[i] = v[i]
  <1>1. Resize(v, n) \in [1..n -> Nat]
    BY DEF Resize, Zero
  <1>2. \A i \in 1..n : i <= Len(v) => Resize(v, n)[i] = v[i]
    BY DEF Resize
  <1>. QED BY <1>1, <1>2, Vector

LEMMA CopyVector ==
  ASSUME NEW v \in Seq(Nat), NEW from \in Nat, NEW n \in Nat, from + n <= Len(v)
  PROVE  /\ CopyToFront(v, from, n) \in Seq(Nat)
         /\ Len(CopyToFront(v, from, n)) = Len(v)
         /\ \A i \in 1..n : CopyToFront(v, from, n)[i] = v[from + i]
  <1>1. Len(v) \in Nat /\ \A i \in 1..Len(v) : v[i] \in Nat
    OBVIOUS
  <1>2. \A i \in 1..n : from + i \in 1..Len(v)
    BY <1>1
  <1>3. CopyToFront(v, from, n) \in [1..Len(v) -> Nat]
    BY <1>1, <1>2 DEF CopyToFront
  <1>4. \A i \in 1..n : CopyToFront(v, from, n)[i] = v[from + i]
    BY <1>1 DEF CopyToFront
  <1>. QED BY <1>1, <1>3, <1>4, Vector

LEMMA WriteVector ==
  ASSUME NEW v \in Seq(Nat), NEW at \in Nat, NEW n \in Nat, NEW taken \in Nat
  PROVE  /\ WriteAt(v, at, n, taken) \in Seq(Nat)
         /\ Len(WriteAt(v, at, n, taken)) = Len(v)
         /\ \A i \in 1..Len(v) : i <= at => WriteAt(v, at, n, taken)[i] = v[i]
         /\ \A i \in 1..Len(v) :
              at < i /\ i <= at + n => WriteAt(v, at, n, taken)[i] = taken + (i - at)
  <1>1. Len(v) \in Nat /\ \A i \in 1..Len(v) : v[i] \in Nat
    OBVIOUS
  <1>2. \A i \in 1..Len(v) : at < i => taken + (i - at) \in Nat
    OBVIOUS
  <1>3. WriteAt(v, at, n, taken) \in [1..Len(v) -> Nat]
    BY <1>1, <1>2 DEF WriteAt
  <1>4. \A i \in 1..Len(v) : i <= at => WriteAt(v, at, n, taken)[i] = v[i]
    BY <1>1 DEF WriteAt
  <1>5. \A i \in 1..Len(v) :
          at < i /\ i <= at + n => WriteAt(v, at, n, taken)[i] = taken + (i - at)
    BY <1>1 DEF WriteAt
  <1>. QED BY <1>1, <1>3, <1>4, <1>5, Vector

(* The fields of a well-formed buffer. *)
LEMMA Fields ==
  ASSUME NEW b, WellFormed(b)
  PROVE  /\ b \in BufferType
         /\ b.vec \in Seq(Nat) /\ b.cap \in Nat /\ b.len \in Nat /\ b.pos \in Nat
         /\ b.pos <= b.len /\ b.len <= b.cap /\ b.cap = Len(b.vec)
         /\ b.cap \in Capacities /\ b.cap <= MAX_SUPPORTED_CAPACITY
  BY CapacityChunks DEF WellFormed, BufferType

LEMMA Repositioned ==
  ASSUME NEW b, WellFormed(b), NEW pos \in Nat, pos <= b.len
  PROVE  LET g == [b EXCEPT !.pos = pos]
         IN  WellFormed(g) /\ g.vec = b.vec /\ g.cap = b.cap /\ g.len = b.len /\ g.pos = pos
  <1> DEFINE g == [b EXCEPT !.pos = pos]
  <1>1. b \in BufferType
    BY Fields
  <1>2. g \in BufferType /\ g.vec = b.vec /\ g.cap = b.cap /\ g.len = b.len /\ g.pos = pos
    BY <1>1 DEF BufferType
  <1> HIDE DEF g
  <1>3. WellFormed(g)
    BY <1>2 DEF WellFormed
  <1>. QED BY <1>2, <1>3 DEF g

-----------------------------------------------------------------------------
(* The rounded capacity for the data of a buffer is within its capacity.   *)
LEMMA FitsData ==
  ASSUME NEW n \in Nat, NEW c \in Capacities, n <= c
  PROVE  /\ CapUpLinear(n) \in Capacities /\ CapUpLinear(n) \in Nat
         /\ n <= CapUpLinear(n) /\ CapUpLinear(n) <= c
  <1>1. c \in Nat /\ c <= MAX_SUPPORTED_CAPACITY /\ MAX_SUPPORTED_CAPACITY \in Nat
    BY CapacityChunks, Ceiling
  <1>2. Smaller(n, MAX_SUPPORTED_CAPACITY) = n
    BY <1>1 DEF Smaller
  <1>. QED BY <1>2, LinearUp, CapacityChunks

(* Rounding leaves a capacity as it is. *)
LEMMA Aligned ==
  ASSUME NEW c \in Capacities
  PROVE  CapUpLinear(c) = c
  BY FitsData, CapacityChunks

LEMMA NewWellFormed ==
  ASSUME NEW n \in Nat
  PROVE  /\ WellFormed(WithCapacity(n))
         /\ WithCapacity(n).cap = CapUpLinear(n)
         /\ WithCapacity(n).len = 0 /\ WithCapacity(n).pos = 0
  <1> DEFINE cap == CapUpLinear(n)
  <1>1. cap \in Capacities /\ cap \in Nat
    BY LinearUp, CapacityChunks
  <1>2. Resize(<<>>, cap) \in Seq(Nat) /\ Len(Resize(<<>>, cap)) = cap
    <2>1. <<>> \in Seq(Nat)
      OBVIOUS
    <2>. QED BY <1>1, <2>1, ResizeVector
  <1>3. WithCapacity(n) = [vec |-> Resize(<<>>, cap), cap |-> cap, len |-> 0, pos |-> 0]
    BY DEF WithCapacity
  <1> HIDE DEF cap
  <1>4. WellFormed(WithCapacity(n))
    BY <1>1, <1>2, <1>3, CapacityChunks DEF WellFormed, BufferType
  <1>. QED BY <1>3, <1>4 DEF cap

LEMMA NewBufferWellFormed == WellFormed(NewBuffer)
  BY NewWellFormed, CapacityAssumption DEF NewBuffer

LEMMA ClearWellFormed ==
  ASSUME NEW b, WellFormed(b)
  PROVE  /\ WellFormed(Clear(b))
         /\ Clear(b).len = 0 /\ Clear(b).cap = b.cap
  <1>1. b \in BufferType
    BY Fields
  <1>2. Clear(b) \in BufferType /\ Clear(b).vec = b.vec /\ Clear(b).cap = b.cap
    BY <1>1 DEF Clear, BufferType
  <1>3. Clear(b).len = 0 /\ Clear(b).pos = 0
    BY <1>1 DEF Clear, BufferType
  <1>4. WellFormed(Clear(b))
    BY <1>2, <1>3, Fields DEF WellFormed
  <1>. QED BY <1>2, <1>3, <1>4

LEMMA ConsumeWellFormed ==
  ASSUME NEW b, WellFormed(b), NEW amt \in Nat, b.pos + amt <= USIZE_MAX
  PROVE  /\ WellFormed(Consume(b, amt))
         /\ Consume(b, amt).vec = b.vec /\ Consume(b, amt).len = b.len
         /\ b.pos <= Consume(b, amt).pos
  <1> DEFINE p == Smaller(Wrap(b.pos + amt), b.len)
  <1>1. b.pos \in Nat /\ b.len \in Nat /\ b.pos <= b.len
    BY Fields
  <1>2. Wrap(b.pos + amt) = b.pos + amt
    BY DEF Wrap
  <1>3. p \in Nat /\ p <= b.len /\ b.pos <= p
    BY <1>1, <1>2 DEF Smaller
  <1> HIDE DEF p
  <1>4. Consume(b, amt) = [b EXCEPT !.pos = p]
    BY DEF Consume, p
  <1>. QED BY <1>3, <1>4, Repositioned

LEMMA UnconsumeWellFormed ==
  ASSUME NEW b, WellFormed(b), NEW amt \in Nat
  PROVE  /\ WellFormed(Unconsume(b, amt))
         /\ Unconsume(b, amt).vec = b.vec /\ Unconsume(b, amt).len = b.len
  <1> DEFINE p == IF amt <= b.pos THEN b.pos - amt ELSE 0
  <1>1. b.pos \in Nat /\ b.len \in Nat /\ b.pos <= b.len
    BY Fields
  <1>2. p \in Nat /\ p <= b.len
    BY <1>1
  <1> HIDE DEF p
  <1>3. Unconsume(b, amt) = [b EXCEPT !.pos = p]
    BY DEF Unconsume, p
  <1>. QED BY <1>2, <1>3, Repositioned

(* Compacting moves the unconsumed bytes to the front, and keeps them all. *)
LEMMA CompactWellFormed ==
  ASSUME NEW b, WellFormed(b)
  PROVE  /\ WellFormed(Compact(b))
         /\ Compact(b).len = b.len - b.pos
         /\ \A i \in 1..(b.len - b.pos) : Compact(b).vec[i] = b.vec[b.pos + i]
  <1> DEFINE n == b.len - b.pos
             v == CopyToFront(b.vec, b.pos, n)
             g == [b EXCEPT !.vec = v, !.len = n, !.pos = 0]
  <1>1. n \in Nat /\ b.pos + n <= Len(b.vec) /\ n <= b.cap
    BY Fields
  <1>2. Compact(b) = g
    BY DEF Compact
  <1>3. b \in BufferType /\ b.vec \in Seq(Nat) /\ b.pos \in Nat
    BY Fields
  <1> HIDE DEF n
  <1>4. v \in Seq(Nat) /\ Len(v) = Len(b.vec) /\ \A i \in 1..n : v[i] = b.vec[b.pos + i]
    BY <1>1, <1>3, CopyVector
  <1> HIDE DEF v
  <1>5. g \in BufferType /\ g.vec = v /\ g.cap = b.cap /\ g.len = n /\ g.pos = 0
    BY <1>1, <1>3, <1>4 DEF BufferType
  <1> HIDE DEF g
  <1>6. WellFormed(g)
    BY <1>1, <1>4, <1>5, Fields DEF WellFormed
  <1>. QED BY <1>2, <1>4, <1>5, <1>6 DEF n

(* Growing to an aligned capacity never loses any. *)
LEMMA GrowToWellFormed ==
  ASSUME NEW b, WellFormed(b), NEW next \in Capacities
  PROVE  /\ WellFormed(GrowTo(b, next))
         /\ GrowTo(b, next).cap = Larger(b.cap, next)
         /\ GrowTo(b, next).len = b.len /\ GrowTo(b, next).pos = b.pos
         /\ \A i \in 1..b.len : GrowTo(b, next).vec[i] = b.vec[i]
  <1>1. next \in Nat
    BY CapacityChunks
  <1>2. CASE next > b.cap
    <2> DEFINE v == Resize(b.vec, next)
               g == [b EXCEPT !.vec = v, !.cap = next]
    <2>1. /\ b \in BufferType /\ b.vec \in Seq(Nat)
          /\ b.len \in Nat /\ b.len <= Len(b.vec) /\ b.len <= next
      BY <1>1, <1>2, Fields
    <2>2. /\ v \in Seq(Nat) /\ Len(v) = next
          /\ \A i \in 1..next : i <= Len(b.vec) => v[i] = b.vec[i]
      BY <1>1, <2>1, ResizeVector
    <2>3. \A i \in 1..b.len : i \in 1..next /\ i <= Len(b.vec)
      BY <1>1, <2>1
    <2> HIDE DEF v
    <2>4. g \in BufferType /\ g.vec = v /\ g.cap = next /\ g.len = b.len /\ g.pos = b.pos
      BY <1>1, <2>1, <2>2 DEF BufferType
    <2>5. GrowTo(b, next) = g
      BY <1>2 DEF GrowTo, v
    <2> HIDE DEF g
    <2>6. WellFormed(g)
      BY <2>1, <2>2, <2>4, Fields DEF WellFormed
    <2>7. Larger(b.cap, next) = next
      BY <1>1, <1>2, Fields DEF Larger
    <2>. QED BY <2>2, <2>3, <2>4, <2>5, <2>6, <2>7
  <1>3. CASE ~(next > b.cap)
    BY <1>1, <1>3, Fields DEF GrowTo, Larger
  <1>. QED BY <1>2, <1>3

(* Shrinking within the capacity keeps the data. *)
LEMMA ShrinkWellFormed ==
  ASSUME NEW b, WellFormed(b), NEW target \in Nat, CapUpLinear(target) <= b.cap
  PROVE  /\ WellFormed(ShrinkTargeted(b, target))
         /\ ShrinkTargeted(b, target).cap = Larger(CapUpLinear(b.len), CapUpLinear(target))
         /\ ShrinkTargeted(b, target).len = b.len
         /\ ShrinkTargeted(b, target).pos = b.pos
         /\ \A i \in 1..b.len : ShrinkTargeted(b, target).vec[i] = b.vec[i]
  <1> DEFINE next == Larger(CapUpLinear(b.len), CapUpLinear(target))
             v    == Resize(b.vec, next)
             g    == [b EXCEPT !.vec = v, !.cap = next]
  <1>1. b \in BufferType /\ b.vec \in Seq(Nat) /\ b.len \in Nat /\ b.cap = Len(b.vec)
    BY Fields
  <1>2. next \in Capacities /\ next \in Nat /\ b.len <= next /\ next <= b.cap
    <2>1. /\ CapUpLinear(b.len) \in Capacities /\ CapUpLinear(b.len) \in Nat
          /\ b.len <= CapUpLinear(b.len) /\ CapUpLinear(b.len) <= b.cap
      BY Fields, FitsData
    <2>2. CapUpLinear(target) \in Capacities /\ CapUpLinear(target) \in Nat
      BY LinearUp, CapacityChunks
    <2>. QED BY <1>1, <2>1, <2>2 DEF Larger
  <1> HIDE DEF next
  <1>3. Truncate(b.vec, next) = v
    BY <1>1, <1>2 DEF Truncate, Smaller
  <1>4. ShrinkTargeted(b, target) = g
    BY <1>3 DEF ShrinkTargeted, next
  <1>5. /\ v \in Seq(Nat) /\ Len(v) = next
        /\ \A i \in 1..next : i <= Len(b.vec) => v[i] = b.vec[i]
    BY <1>1, <1>2, ResizeVector
  <1> HIDE DEF v
  <1>6. \A i \in 1..b.len : i \in 1..next /\ i <= Len(b.vec)
    BY <1>1, <1>2
  <1>7. g \in BufferType /\ g.vec = v /\ g.cap = next /\ g.len = b.len /\ g.pos = b.pos
    BY <1>1, <1>2, <1>5 DEF BufferType
  <1> HIDE DEF g
  <1>8. WellFormed(g)
    BY <1>2, <1>5, <1>7, Fields DEF WellFormed
  <1>. QED BY <1>4, <1>5, <1>6, <1>7, <1>8 DEF next

(* shrink is within any capacity. *)
LEMMA OneChunk ==
  ASSUME NEW b, WellFormed(b)
  PROVE  CHUNK_SIZE \in Nat /\ CapUpLinear(CHUNK_SIZE) <= b.cap
  <1>1. CapUpLinear(CHUNK_SIZE) = CHUNK_SIZE
    BY Extremes, Aligned
  <1>. QED BY <1>1, Fields, CapacityChunks, CapacityAssumption

LEMMA DiscardWellFormed ==
  ASSUME NEW b, WellFormed(b)
  PROVE  WellFormed(Discard(b)) /\ Discard(b).len = 0
  <1>1. WellFormed(Clear(b)) /\ Clear(b).len = 0
    BY ClearWellFormed
  <1>. QED BY <1>1, OneChunk, ShrinkWellFormed DEF Discard, Shrink

LEMMA CloneWellFormed ==
  ASSUME NEW b, WellFormed(b)
  PROVE  /\ WellFormed(Clone(b))
         /\ Clone(b).len = b.len /\ Clone(b).pos = b.pos
         /\ \A i \in 1..b.len : Clone(b).vec[i] = b.vec[i]
  <1> DEFINE cap == CapUpLinear(b.len)
             s   == Buf(b)
             v   == Resize(s, cap)
  <1>1. /\ b.vec \in Seq(Nat) /\ b.len \in Nat /\ b.pos \in Nat
        /\ b.pos <= b.len /\ b.len <= Len(b.vec)
    BY Fields
  <1>2. s \in Seq(Nat) /\ Len(s) = b.len /\ \A i \in 1..b.len : s[i] = b.vec[i]
    BY <1>1 DEF Buf
  <1>3. cap \in Capacities /\ cap \in Nat /\ b.len <= cap
    BY Fields, FitsData
  <1> HIDE DEF cap, s
  <1>4. /\ v \in Seq(Nat) /\ Len(v) = cap
        /\ \A i \in 1..cap : i <= Len(s) => v[i] = s[i]
    BY <1>2, <1>3, ResizeVector
  <1>5. \A i \in 1..b.len : i \in 1..cap /\ i <= Len(s)
    BY <1>1, <1>2, <1>3
  <1> HIDE DEF v
  <1>6. Clone(b) = [vec |-> v, cap |-> cap, len |-> b.len, pos |-> b.pos]
    BY DEF Clone, v, cap, s
  <1>7. WellFormed(Clone(b))
    BY <1>1, <1>3, <1>4, <1>6 DEF WellFormed, BufferType
  <1>. QED BY <1>2, <1>4, <1>5, <1>6, <1>7

(***************************************************************************)
(* take_consumed: what leaves is the consumed prefix, what stays is the    *)
(* rest, and both are well formed.                                         *)
(***************************************************************************)
LEMMA TakenWellFormed ==
  ASSUME NEW b, WellFormed(b)
  PROVE  /\ WellFormed(TakenPart(b)) /\ TakenPart(b).len = b.pos
         /\ \A i \in 1..b.pos : TakenPart(b).vec[i] = b.vec[i]
  <1>1. CASE b.pos = 0
    <2>1. WellFormed(NewBuffer) /\ NewBuffer.len = 0
      BY CapacityAssumption, NewWellFormed DEF NewBuffer
    <2>2. \A i \in 1..0 : NewBuffer.vec[i] = b.vec[i]
      OBVIOUS
    <2>3. TakenPart(b) = NewBuffer
      BY <1>1 DEF TakenPart
    <2>. QED BY <1>1, <2>1, <2>2, <2>3
  <1>2. CASE b.pos # 0
    <2> DEFINE g == [b EXCEPT !.len = b.pos]
    <2>1. b \in BufferType
      BY Fields
    <2>2. g \in BufferType /\ g.vec = b.vec /\ g.cap = b.cap /\ g.len = b.pos /\ g.pos = b.pos
      BY <2>1 DEF BufferType
    <2>3. TakenPart(b) = ShrinkTargeted(g, CHUNK_SIZE)
      BY <1>2 DEF TakenPart, Shrink
    <2> HIDE DEF g
    <2>4. WellFormed(g)
      BY <2>2, Fields DEF WellFormed
    <2>5. CHUNK_SIZE \in Nat /\ CapUpLinear(CHUNK_SIZE) <= g.cap
      BY <2>4, OneChunk
    <2>6. /\ WellFormed(ShrinkTargeted(g, CHUNK_SIZE)) /\ ShrinkTargeted(g, CHUNK_SIZE).len = g.len
          /\ \A i \in 1..g.len : ShrinkTargeted(g, CHUNK_SIZE).vec[i] = g.vec[i]
      BY <2>4, <2>5, ShrinkWellFormed
    <2>. QED BY <2>2, <2>3, <2>6
  <1>. QED BY <1>1, <1>2

LEMMA KeptWellFormed ==
  ASSUME NEW b, WellFormed(b)
  PROVE  /\ WellFormed(KeptPart(b))
         /\ KeptPart(b).len = b.len - b.pos
         /\ \A i \in 1..(b.len - b.pos) : KeptPart(b).vec[i] = b.vec[b.pos + i]
  <1>1. CASE b.pos = 0
    BY <1>1, Fields DEF KeptPart
  <1>2. CASE b.pos # 0
    <2> DEFINE n == b.len - b.pos
               f == WithCapacity(n)
               v == [i \in 1..Len(f.vec) |-> IF i <= n THEN b.vec[b.pos + i] ELSE f.vec[i]]
               g == [f EXCEPT !.vec = v, !.len = n]
    <2>1. n \in Nat /\ n <= b.cap /\ b.cap \in Capacities
      BY Fields
    <2>2. KeptPart(b) = g
      BY <1>2 DEF KeptPart
    <2>3. \A i \in 1..n : b.vec[b.pos + i] \in Nat
      <3>1. \A i \in 1..n : b.pos + i \in 1..Len(b.vec)
        BY Fields
      <3>2. b.vec \in Seq(Nat)
        BY Fields
      <3>. QED BY <3>1, <3>2
    <2> HIDE DEF n
    <2>4. WellFormed(f) /\ f.cap = CapUpLinear(n) /\ f.len = 0 /\ f.pos = 0
      BY <2>1, NewWellFormed
    <2>5. n <= CapUpLinear(n)
      BY <2>1, FitsData
    <2> HIDE DEF f
    <2>6. f \in BufferType /\ f.vec \in Seq(Nat) /\ f.cap = Len(f.vec) /\ f.cap \in Capacities /\ f.cap \in Nat
      BY <2>4, Fields
    <2>7. v \in [1..Len(f.vec) -> Nat]
      <3>1. \A i \in 1..Len(f.vec) : f.vec[i] \in Nat
        BY <2>6
      <3>2. \A i \in 1..Len(f.vec) : i <= n => b.vec[b.pos + i] \in Nat
        BY <2>1, <2>3, <2>6
      <3>. QED BY <3>1, <3>2
    <2>8. \A i \in 1..n : v[i] = b.vec[b.pos + i]
      BY <2>1, <2>4, <2>5, <2>6
    <2> HIDE DEF v
    <2>9. v \in Seq(Nat) /\ Len(v) = f.cap
      BY <2>6, <2>7, Vector
    <2>10. g \in BufferType /\ g.vec = v /\ g.cap = f.cap /\ g.len = n /\ g.pos = f.pos
      BY <2>1, <2>6, <2>9 DEF BufferType
    <2> HIDE DEF g
    <2>11. WellFormed(g)
      BY <2>1, <2>4, <2>5, <2>6, <2>9, <2>10 DEF WellFormed
    <2>. QED BY <2>2, <2>8, <2>10, <2>11 DEF n
  <1>. QED BY <1>1, <1>2

-----------------------------------------------------------------------------
(* Reading n bytes into the space behind the data. *)
LEMMA AbsorbWellFormed ==
  ASSUME NEW b, WellFormed(b), NEW n \in Nat, b.len + n <= b.cap, NEW taken \in Nat
  PROVE  /\ WellFormed(Absorb(b, n, taken))
         /\ Absorb(b, n, taken).cap = b.cap
         /\ Absorb(b, n, taken).len = b.len + n
         /\ Absorb(b, n, taken).pos = b.pos
         /\ \A i \in 1..b.len : Absorb(b, n, taken).vec[i] = b.vec[i]
         /\ \A i \in (b.len + 1)..(b.len + n) :
              Absorb(b, n, taken).vec[i] = taken + (i - b.len)
  <1> DEFINE v == WriteAt(b.vec, b.len, n, taken)
             g == [b EXCEPT !.vec = v, !.len = b.len + n]
  <1>1. /\ b \in BufferType /\ b.vec \in Seq(Nat) /\ b.len \in Nat
        /\ b.cap = Len(b.vec) /\ b.len + n \in Nat
    BY Fields
  <1>2. Absorb(b, n, taken) = g
    BY DEF Absorb
  <1>3. /\ v \in Seq(Nat) /\ Len(v) = Len(b.vec)
        /\ \A i \in 1..Len(b.vec) : i <= b.len => v[i] = b.vec[i]
        /\ \A i \in 1..Len(b.vec) :
             b.len < i /\ i <= b.len + n => v[i] = taken + (i - b.len)
    <2>1. v \in Seq(Nat) /\ Len(v) = Len(b.vec)
      BY <1>1, WriteVector, SMTT(30)
    <2>2. \A i \in 1..Len(b.vec) : i <= b.len => v[i] = b.vec[i]
      BY <1>1, WriteVector, SMTT(30)
    <2>3. \A i \in 1..Len(b.vec) : b.len < i /\ i <= b.len + n => v[i] = taken + (i - b.len)
      BY <1>1 DEF WriteAt
    <2>. QED BY <2>1, <2>2, <2>3
  <1> HIDE DEF v
  <1>4. g \in BufferType /\ g.vec = v /\ g.cap = b.cap /\ g.len = b.len + n /\ g.pos = b.pos
    <2>1. b \in BufferType /\ v \in Seq(Nat) /\ b.len + n \in Nat
      BY <1>1, <1>3
    <2>2. g.vec = v /\ g.cap = b.cap /\ g.len = b.len + n /\ g.pos = b.pos
      BY ONLY <2>1 DEF BufferType
    <2>3. g \in BufferType
      BY ONLY <2>1 DEF BufferType
    <2>. QED BY <2>2, <2>3
  <1> HIDE DEF g
  <1>5. WellFormed(g)
    BY <1>1, <1>3, <1>4, Fields DEF WellFormed
  <1>6. \A i \in 1..b.len : i \in 1..Len(b.vec) /\ i <= b.len
    BY <1>1
  <1>7. \A i \in (b.len + 1)..(b.len + n) : i \in 1..Len(b.vec) /\ b.len < i /\ i <= b.len + n
    <2>1. b.len \in Nat /\ b.cap = Len(b.vec) /\ b.cap \in Nat /\ b.len + n <= b.cap
      BY Fields
    <2>. QED BY ONLY <2>1, n \in Nat
  <1>. QED BY <1>2, <1>3, <1>4, <1>5, <1>6, <1>7

(* A failed read_exact leaves bytes behind the data, and nothing else. *)
LEMMA SpoiltWellFormed ==
  ASSUME NEW b, WellFormed(b), NEW n \in Nat, NEW taken \in Nat
  PROVE  LET g == [b EXCEPT !.vec = WriteAt(b.vec, b.len, n, taken)]
         IN  /\ WellFormed(g)
             /\ g.cap = b.cap /\ g.len = b.len /\ g.pos = b.pos
             /\ \A i \in 1..b.len : g.vec[i] = b.vec[i]
  <1> DEFINE v == WriteAt(b.vec, b.len, n, taken)
             g == [b EXCEPT !.vec = v]
  <1>1. /\ b \in BufferType /\ b.vec \in Seq(Nat) /\ b.len \in Nat
        /\ b.cap = Len(b.vec) /\ b.len <= Len(b.vec)
    BY Fields
  <1>2. /\ v \in Seq(Nat) /\ Len(v) = Len(b.vec)
        /\ \A i \in 1..Len(b.vec) : i <= b.len => v[i] = b.vec[i]
        /\ \A i \in 1..Len(b.vec) :
             b.len < i /\ i <= b.len + n => v[i] = taken + (i - b.len)
    <2>1. v \in Seq(Nat) /\ Len(v) = Len(b.vec)
      BY <1>1, WriteVector, SMTT(30)
    <2>2. \A i \in 1..Len(b.vec) : i <= b.len => v[i] = b.vec[i]
      BY <1>1, WriteVector, SMTT(30)
    <2>3. \A i \in 1..Len(b.vec) : b.len < i /\ i <= b.len + n => v[i] = taken + (i - b.len)
      BY <1>1 DEF WriteAt
    <2>. QED BY <2>1, <2>2, <2>3
  <1>3. \A i \in 1..b.len : v[i] = b.vec[i]
    BY <1>1, <1>2
  <1> HIDE DEF v
  <1>4. g \in BufferType /\ g.vec = v /\ g.cap = b.cap /\ g.len = b.len /\ g.pos = b.pos
    BY <1>1, <1>2 DEF BufferType
  <1> HIDE DEF g
  <1>5. WellFormed(g)
    BY <1>1, <1>2, <1>4, Fields DEF WellFormed
  <1>. QED BY <1>3, <1>4, <1>5 DEF g, v

(***************************************************************************)
(* read_once grows only upwards, so the slice it reads into is in range.   *)
(***************************************************************************)
LEMMA GrownWellFormed ==
  ASSUME NEW b, WellFormed(b), NEW limit \in Nat \cup {NoLimit}
  PROVE  LET g == GrownForRead(b, limit)
         IN  /\ WellFormed(g) /\ SliceInRange(g)
             /\ b.cap <= g.cap /\ g.len = b.len /\ g.pos = b.pos
             /\ \A i \in 1..b.len : g.vec[i] = b.vec[i]
  <1> DEFINE g == GrownForRead(b, limit)
  <1>1. b.cap \in Capacities /\ b.cap \in Nat
    BY Fields
  <1>2. g = b \/ \E next \in Capacities : g = GrowTo(b, next)
    <2>1. b.cap + CHUNK_SIZE \in Nat /\ Wrap(b.cap + CHUNK_SIZE) = b.cap + CHUNK_SIZE
      BY <1>1, RoomAbove, CapacityAssumption
    <2>2. CapUp(Wrap(b.cap + CHUNK_SIZE)) \in Capacities
      BY <2>1, ExponentialUp
    <2>3. limit # NoLimit => CapUpLinear(CapUpLinear(limit)) \in Capacities
      BY LinearUp, Aligned
    <2>. QED BY <2>2, <2>3 DEF GrownForRead, Grow, GrowTargeted, GrowTargetedLinear
  <1>3. /\ WellFormed(g) /\ b.cap <= g.cap /\ g.len = b.len /\ g.pos = b.pos
        /\ \A i \in 1..b.len : g.vec[i] = b.vec[i]
    <2>1. CASE g = b
      BY <2>1, <1>1
    <2>2. ASSUME NEW next \in Capacities, g = GrowTo(b, next)
          PROVE  /\ WellFormed(g) /\ b.cap <= g.cap /\ g.len = b.len /\ g.pos = b.pos
                 /\ \A i \in 1..b.len : g.vec[i] = b.vec[i]
      <3>1. /\ WellFormed(GrowTo(b, next)) /\ GrowTo(b, next).cap = Larger(b.cap, next)
            /\ GrowTo(b, next).len = b.len /\ GrowTo(b, next).pos = b.pos
            /\ \A i \in 1..b.len : GrowTo(b, next).vec[i] = b.vec[i]
        BY GrowToWellFormed
      <3>2. b.cap <= Larger(b.cap, next)
        BY <1>1, CapacityChunks DEF Larger
      <3> HIDE DEF g
      <3>. QED BY <2>2, <3>1, <3>2
    <2>. QED BY <1>2, <2>1, <2>2
  <1> HIDE DEF g
  <1>4. SliceInRange(g)
    BY <1>3, Fields DEF SliceInRange
  <1>. QED BY <1>3, <1>4 DEF g

(***************************************************************************)
(* Growing for a read does not pass the limit, and leaves room to read     *)
(* into, unless there is no limit and no larger capacity.                  *)
(***************************************************************************)
LEMMA GrownRoom ==
  ASSUME NEW b, WellFormed(b), NEW limit \in Nat \cup {NoLimit}, ~IsCapped(b, limit)
  PROVE  LET g == GrownForRead(b, limit)
         IN  /\ limit # NoLimit => g.cap <= Larger(b.cap, CapUpLinear(limit))
             /\ b.len < g.cap \/ (limit = NoLimit /\ b.len = MAX_SUPPORTED_CAPACITY)
  <1> DEFINE g     == GrownForRead(b, limit)
             next  == NextExponential(b)
             bound == CapUpLinear(limit)
  <1>1. b.len \in Nat /\ b.cap \in Nat /\ b.len <= b.cap /\ b.cap \in Capacities
    BY Fields
  <1>2. next \in Capacities /\ next \in Nat /\ (b.cap # MAX_SUPPORTED_CAPACITY => b.cap < next)
    <2>1. b.cap + CHUNK_SIZE \in Nat /\ Wrap(b.cap + CHUNK_SIZE) = b.cap + CHUNK_SIZE
      BY <1>1, RoomAbove, CapacityAssumption
    <2>2. next = CapUp(b.cap + CHUNK_SIZE)
      BY <2>1 DEF NextExponential
    <2>3. next \in Capacities
      BY <2>1, <2>2, ExponentialUp
    <2>4. b.cap # MAX_SUPPORTED_CAPACITY => b.cap < CapUp(b.cap + CHUNK_SIZE)
      BY <1>1, RoomAbove
    <2>. QED BY <2>2, <2>3, <2>4, CapacityChunks
  <1>3. limit # NoLimit => /\ limit \in Nat /\ bound \in Capacities /\ bound \in Nat
                           /\ bound <= MAX_SUPPORTED_CAPACITY /\ CapUpLinear(bound) = bound
    BY LinearUp, Aligned, CapacityChunks
  <1>4. \A c \in Capacities : GrowTo(b, c).cap = Larger(b.cap, c)
    BY GrowToWellFormed
  <1>5. MAX_SUPPORTED_CAPACITY \in Nat
    BY Ceiling
  <1>6. Grow(b) = GrowTo(b, next)
    BY DEF Grow, GrowTargeted, NextExponential
  <1>7. CASE ~IsFull(b)
    <2>1. g = b /\ b.len < b.cap
      BY <1>1, <1>7 DEF GrownForRead, IsFull
    <2>. QED BY <1>1, <1>3, <2>1 DEF Larger
  <1>8. CASE IsFull(b) /\ limit = NoLimit
    <2>1. g = GrowTo(b, next) /\ b.len = b.cap
      BY <1>1, <1>6, <1>8 DEF GrownForRead, IsFull
    <2>2. g.cap = Larger(b.cap, next)
      BY <1>2, <1>4, <2>1
    <2>. QED BY <1>1, <1>2, <1>5, <1>8, <2>1, <2>2 DEF Larger
  <1>9. CASE IsFull(b) /\ limit # NoLimit
    <2>1. b.len = b.cap /\ b.cap < bound
      BY <1>1, <1>3, <1>9 DEF IsCapped, IsFull
    <2>2. CASE next <= bound
      <3>1. g = GrowTo(b, next)
        BY <1>6, <1>9, <2>2 DEF GrownForRead
      <3>2. g.cap = Larger(b.cap, next)
        BY <1>2, <1>4, <3>1
      <3> HIDE DEF g, next, bound
      <3>3. g.cap <= Larger(b.cap, bound) /\ b.len < g.cap
        BY <1>1, <1>2, <1>3, <1>5, <1>9, <2>1, <2>2, <3>2 DEF Larger
      <3>. QED BY <1>9, <3>3 DEF g, bound
    <2>3. CASE ~(next <= bound)
      <3>1. g = GrowTo(b, bound)
        BY <1>3, <1>9, <2>3 DEF GrownForRead, GrowTargetedLinear
      <3>2. g.cap = Larger(b.cap, bound)
        BY <1>3, <1>4, <1>9, <3>1
      <3> HIDE DEF g, next, bound
      <3>3. g.cap <= Larger(b.cap, bound) /\ b.len < g.cap
        BY <1>1, <1>3, <1>9, <2>1, <3>2 DEF Larger
      <3>. QED BY <1>9, <3>3 DEF g, bound
    <2>. QED BY <2>2, <2>3
  <1>. QED BY <1>7, <1>8, <1>9

(* Capped means full, at the limit at least. *)
LEMMA CappedFull ==
  ASSUME NEW b, NEW limit \in Nat, IsCapped(b, limit)
  PROVE  IsFull(b) /\ b.cap >= CapUpLinear(limit)
  <1>1. CapUpLinear(limit) \in Nat /\ CapUpLinear(CapUpLinear(limit)) = CapUpLinear(limit)
    BY LinearUp, Aligned, CapacityChunks
  <1>. QED BY <1>1 DEF IsCapped

-----------------------------------------------------------------------------
(* A stretch of a vector. *)
LEMMA Stretch ==
  ASSUME NEW v \in Seq(Nat), NEW k \in Nat, NEW n \in Nat, k + n <= Len(v)
  PROVE  /\ SubSeq(v, k + 1, k + n) \in Seq(Nat)
         /\ Len(SubSeq(v, k + 1, k + n)) = n
         /\ \A i \in 1..n : SubSeq(v, k + 1, k + n)[i] = v[k + i]
  <1>1. SubSeq(v, k + 1, k + n) = [i \in 1..n |-> v[k + i]]
    OBVIOUS
  <1>2. [i \in 1..n |-> v[k + i]] \in [1..n -> Nat]
    OBVIOUS
  <1>. QED BY <1>1, <1>2, Vector

(* Two vectors that agree on a stretch have it as a common subsequence.    *)
LEMMA SameStretch ==
  ASSUME NEW u \in Seq(Nat), NEW v \in Seq(Nat), NEW k \in Nat, NEW n \in Nat,
         n <= Len(u), k + n <= Len(v), \A i \in 1..n : u[i] = v[k + i]
  PROVE  SubSeq(u, 1, n) = SubSeq(v, k + 1, k + n)
  <1>1. SubSeq(u, 1, n) = [i \in 1..n |-> u[i]]
    OBVIOUS
  <1>2. SubSeq(v, k + 1, k + n) = [i \in 1..n |-> v[k + i]]
    OBVIOUS
  <1>. QED BY <1>1, <1>2
=============================================================================
