----------------------------- MODULE MCCapacity -----------------------------
(* Constants of the capacity sweep, and two sanity checks of the instance. *)
EXTENDS CapacitySweep

(* The divisor characterisation of powers of two is the usual one.         *)
ASSUME PowersAreExact ==
  PowersOfTwo = {2^k : k \in 0..20} \cap 1..USIZE_MAX

(***************************************************************************)
(* What src/constants/tests.rs asserts of the real constants is also true  *)
(* of this instance: the exponential maximum is strictly below the         *)
(* ceiling, and the next chunk would pass the signed half of usize.        *)
(***************************************************************************)
ASSUME ConstantsAsTested ==
  /\ MAX_EXPONENTIAL_CAPACITY < MAX_SUPPORTED_CAPACITY
  /\ MAX_SUPPORTED_CAPACITY \in (USIZE_MAX \div 2 - CHUNK_SIZE + 1)..(USIZE_MAX \div 2)
=============================================================================
