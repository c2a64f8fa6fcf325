------------------------ MODULE CapacitySweepProofs ------------------------
(***************************************************************************)
(* The rounding promises of CapacitySweep, for every usize of every width  *)
(* and every chunk size.                                                   *)
(***************************************************************************)
EXTENDS CapacitySweep, BufferOpsProofs

RequestType == request \in Nat

LEMMA RequestInvariant == Spec => []RequestType
  <1>1. Init => RequestType
    BY DEF Init, RequestType
  <1>2. RequestType /\ [NextRequest]_request => RequestType'
    BY CapacityAssumption DEF NextRequest, RequestType
  <1>. QED BY <1>1, <1>2, PTL DEF Spec

(***************************************************************************)
(* Buffer::cap_up_linear rounds every request to the least capacity that   *)
(* holds it, or saturates at the ceiling.                                  *)
(***************************************************************************)
THEOREM LinearRoundingHolds == Spec => []LinearRounding
  <1>1. RequestType => LinearRounding
    BY LinearUp DEF RequestType, LinearRounding, Needed
  <1>. QED BY <1>1, RequestInvariant, PTL

(***************************************************************************)
(* Buffer::cap_up rounds every request to the least power-of-two number of *)
(* chunks that holds it, or saturates at the ceiling.                      *)
(***************************************************************************)
THEOREM ExponentialRoundingHolds == Spec => []ExponentialRounding
  <1>1. RequestType => ExponentialRounding
    <2>1. \A c : c \in Ladder <=> c \in Capacities /\ OnStep(c)
      BY Extremes DEF Ladder, OnStep
    <2>. QED BY <2>1, ExponentialUp DEF RequestType, ExponentialRounding, Needed
  <1>. QED BY <1>1, RequestInvariant, PTL

(***************************************************************************)
(* Buffer::cap_down rounds every request to the greatest capacity within   *)
(* it, and never below one chunk.                                          *)
(***************************************************************************)
THEOREM DownwardRoundingHolds == Spec => []DownwardRounding
  <1>1. RequestType => DownwardRounding
    BY Down DEF RequestType, DownwardRounding
  <1>. QED BY <1>1, RequestInvariant, PTL

(***************************************************************************)
(* Buffer::grow makes room whenever the buffer is below the ceiling, and   *)
(* the sum it rounds never wraps.                                          *)
(***************************************************************************)
THEOREM GrowthMakesRoomHolds == Spec => []GrowthMakesRoom
  <1>1. RequestType => GrowthMakesRoom
    <2>1. \A c \in Capacities \ {MAX_SUPPORTED_CAPACITY} : c < CapUp(Wrap(c + CHUNK_SIZE))
      BY RoomAbove
    <2>. QED BY <2>1 DEF RequestType, GrowthMakesRoom
  <1>. QED BY <1>1, RequestInvariant, PTL
=============================================================================
