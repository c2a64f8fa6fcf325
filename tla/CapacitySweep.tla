--------------------------- MODULE CapacitySweep ---------------------------
(***************************************************************************)
(* Presents every usize value to the rounding functions of Capacity, one   *)
(* request after the other, and compares each answer with what its doc     *)
(* comment promises.                                                       *)
(***************************************************************************)
EXTENDS Capacity

VARIABLE request      (* the capacity asked for                             *)

Init == request = 0

NextRequest == request < USIZE_MAX /\ request' = request + 1

Spec == Init /\ [][NextRequest]_request

-----------------------------------------------------------------------------
(* What has to fit: a request above the ceiling saturates at it.           *)
Needed == Smaller(request, MAX_SUPPORTED_CAPACITY)

(* The capacities that exponential growth stops at.                        *)
Ladder == {c \in Capacities : c \div CHUNK_SIZE \in PowersOfTwo}
            \cup {MAX_SUPPORTED_CAPACITY}

(***************************************************************************)
(* cap_up_linear returns the least supported chunk multiple that holds the *)
(* request, for every usize: neither the `capacity + CHUNK_SIZE - 1` of    *)
(* the rounding nor the guard near the ceiling loses or adds a chunk.      *)
(***************************************************************************)
LinearRounding ==
  /\ CapUpLinear(request) \in Capacities
  /\ Needed <= CapUpLinear(request)
  /\ \A c \in Capacities : Needed <= c => CapUpLinear(request) <= c

(***************************************************************************)
(* cap_up returns the least power-of-two number of chunks that holds the   *)
(* request, or the ceiling when no such capacity is supported.             *)
(***************************************************************************)
ExponentialRounding ==
  /\ CapUp(request) \in Ladder
  /\ Needed <= CapUp(request)
  /\ \A c \in Ladder : Needed <= c => CapUp(request) <= c

(***************************************************************************)
(* cap_down returns the greatest supported chunk multiple within the       *)
(* request, and never less than one chunk.                                 *)
(***************************************************************************)
DownwardRounding ==
  /\ CapDown(request) \in Capacities
  /\ CapDown(request) <= Larger(request, CHUNK_SIZE)
  /\ \A c \in Capacities :
       c <= Larger(request, CHUNK_SIZE) => c <= CapDown(request)

(***************************************************************************)
(* Growing from any capacity below the ceiling makes room: the target that *)
(* Buffer::grow computes (cap + CHUNK_SIZE) does not wrap, and rounding it *)
(* never gives back the capacity the buffer already has.  A fill that      *)
(* grows therefore always reads into a slice that is not empty.            *)
(***************************************************************************)
GrowthMakesRoom ==
  request \in Capacities \ {MAX_SUPPORTED_CAPACITY} =>
    request < CapUp(Wrap(request + CHUNK_SIZE))
=============================================================================
