------------------------------ MODULE Capacity ------------------------------
(***************************************************************************)
(* The capacity arithmetic of strata-reader: src/constants.rs and the      *)
(* rounding functions cap_down, cap_up and cap_up_linear of                *)
(* src/buffer.rs.  Capacities are usize values; the chunk size and the     *)
(* width of usize are parameters, so that the saturation at the allocator  *)
(* ceiling can be reached by a small instance.                             *)
(***************************************************************************)
EXTENDS Integers

CONSTANTS
  CHUNK_SIZE,   (* src/constants.rs: 1 << 13 in the code.                   *)
  USIZE_MAX     (* usize::MAX of the target.                                *)

(***************************************************************************)
(* src/constants/tests.rs asserts that MAX_SUPPORTED_CAPACITY exceeds the  *)
(* default maximum, which exceeds one chunk.  All that is needed here is   *)
(* room for two chunks below the signed half of usize.                     *)
(***************************************************************************)
ASSUME CapacityAssumption ==
  /\ CHUNK_SIZE \in Nat \ {0}
  /\ USIZE_MAX \in Nat
  /\ 4 * CHUNK_SIZE <= USIZE_MAX

Smaller(a, b) == IF a <= b THEN a ELSE b
Larger(a, b)  == IF a >= b THEN a ELSE b

(***************************************************************************)
(* Unchecked usize addition and multiplication in a build without overflow *)
(* checks: the result is reduced modulo 2^w.                               *)
(***************************************************************************)
Wrap(n) == IF n <= USIZE_MAX THEN n ELSE n % (USIZE_MAX + 1)

(***************************************************************************)
(* The powers of two that a usize can hold: the numbers all of whose       *)
(* divisors, one excepted, are even.                                       *)
(***************************************************************************)
PowersOfTwo ==
  {p \in 1..USIZE_MAX : \A d \in 2..p : p % d = 0 => d % 2 = 0}

(* usize is a binary word. *)
ASSUME WordAssumption == \E p \in PowersOfTwo : USIZE_MAX = 2 * p - 1

(* usize::next_power_of_two *)
NextPowerOfTwo(n) ==
  CHOOSE p \in PowersOfTwo :
    /\ n <= p
    /\ \A q \in PowersOfTwo : n <= q => p <= q

MAX_SUPPORTED_CAPACITY == ((USIZE_MAX \div 2) \div CHUNK_SIZE) * CHUNK_SIZE

MAX_EXPONENTIAL_CAPACITY ==
  (NextPowerOfTwo(MAX_SUPPORTED_CAPACITY \div CHUNK_SIZE) \div 2) * CHUNK_SIZE

(* The number of chunks that hold n bytes, as the code computes it. *)
Chunks(n) == Wrap(n + CHUNK_SIZE - 1) \div CHUNK_SIZE

(* Fault: the lower bound check of cap_down is missing. *)
CapDown_NoMinimum(capacity) ==
  IF capacity >= MAX_SUPPORTED_CAPACITY THEN MAX_SUPPORTED_CAPACITY
  ELSE (capacity \div CHUNK_SIZE) * CHUNK_SIZE

(* Buffer::cap_down *)
CapDown(capacity) ==
  IF capacity <= CHUNK_SIZE THEN CHUNK_SIZE
  ELSE IF capacity >= MAX_SUPPORTED_CAPACITY THEN MAX_SUPPORTED_CAPACITY
  ELSE (capacity \div CHUNK_SIZE) * CHUNK_SIZE

(* Faults: the upper bound check one too early, and one chunk lost. *)
CapUp_Early(capacity) ==
  IF capacity >= MAX_EXPONENTIAL_CAPACITY THEN MAX_SUPPORTED_CAPACITY
  ELSE IF capacity <= CHUNK_SIZE THEN CHUNK_SIZE
  ELSE Wrap(NextPowerOfTwo(Chunks(capacity)) * CHUNK_SIZE)

CapUp_OneShort(capacity) ==
  IF capacity > MAX_EXPONENTIAL_CAPACITY THEN MAX_SUPPORTED_CAPACITY
  ELSE IF capacity <= CHUNK_SIZE THEN CHUNK_SIZE
  ELSE Wrap(NextPowerOfTwo(Chunks(capacity) - 1) * CHUNK_SIZE)

(* Buffer::cap_up *)
CapUp(capacity) ==
  IF capacity > MAX_EXPONENTIAL_CAPACITY THEN MAX_SUPPORTED_CAPACITY
  ELSE IF capacity <= CHUNK_SIZE THEN CHUNK_SIZE
  ELSE Wrap(NextPowerOfTwo(Chunks(capacity)) * CHUNK_SIZE)

(* Fault: a chunk multiple is rounded up to the next one. *)
CapUpLinear_PastBoundary(capacity) ==
  IF capacity > MAX_SUPPORTED_CAPACITY - CHUNK_SIZE THEN MAX_SUPPORTED_CAPACITY
  ELSE IF capacity <= CHUNK_SIZE THEN CHUNK_SIZE
  ELSE Chunks(capacity + 1) * CHUNK_SIZE

(* Buffer::cap_up_linear *)
CapUpLinear(capacity) ==
  IF capacity > MAX_SUPPORTED_CAPACITY - CHUNK_SIZE THEN MAX_SUPPORTED_CAPACITY
  ELSE IF capacity <= CHUNK_SIZE THEN CHUNK_SIZE
  ELSE Chunks(capacity) * CHUNK_SIZE

(* The capacities a Buffer may have: chunk multiples up to the ceiling. *)
Capacities == {c \in CHUNK_SIZE..MAX_SUPPORTED_CAPACITY : c % CHUNK_SIZE = 0}
=============================================================================
