------------------------------ MODULE BufferOps ------------------------------
(***************************************************************************)
(* The value of a strata-reader Buffer (src/buffer.rs) and its operations, *)
(* each as an operator from the buffer before the call to the buffer after *)
(* it.  A buffer is the record of the four fields of the struct: the       *)
(* backing Vec `vec` (the field buf), and cap, len and pos.                *)
(*                                                                         *)
(* A byte is abstracted to where it came from: k > 0 is the k-th byte of   *)
(* the source stream, and Zero is a byte that Vec::resize or vec![0; n]    *)
(* wrote.  Bytes past len are kept as the code leaves them.                *)
(***************************************************************************)
EXTENDS Capacity, Sequences

CONSTANT NoLimit     (* growth_limit == None                                *)
ASSUME NoLimitAssumption == NoLimit \notin Nat

Zero == 0

(* The buffers of the type, whatever their fields. *)
BufferType == [vec : Seq(Nat), cap : Nat, len : Nat, pos : Nat]

-----------------------------------------------------------------------------
(* Vec::resize(n, 0), and Vec::truncate(n).                                *)
Resize(v, n) == [i \in 1..n |-> IF i <= Len(v) THEN v[i] ELSE Zero]
Truncate(v, n) == Resize(v, Smaller(n, Len(v)))

(***************************************************************************)
(* buf[at..at + n] receives n consecutive bytes of the source, of which    *)
(* the first `taken` were already handed out.                              *)
(***************************************************************************)
WriteAt(v, at, n, taken) ==
  [i \in 1..Len(v) |-> IF at < i /\ i <= at + n THEN taken + (i - at) ELSE v[i]]

(* copy_within(from..from + n, 0) *)
CopyToFront(v, from, n) ==
  [i \in 1..Len(v) |-> IF i <= n THEN v[from + i] ELSE v[i]]

-----------------------------------------------------------------------------
(* Buffer::with_capacity; Buffer::new and Default are the one-chunk case.  *)
WithCapacity(capacity) ==
  LET cap == CapUpLinear(capacity)
  IN  [vec |-> Resize(<<>>, cap), cap |-> cap, len |-> 0, pos |-> 0]

NewBuffer == WithCapacity(CHUNK_SIZE)

(* Buffer::buf, and its consumed and unconsumed halves.                    *)
Buf(b)        == SubSeq(b.vec, 1, b.len)
Consumed(b)   == SubSeq(b.vec, 1, b.pos)
Unconsumed(b) == SubSeq(b.vec, b.pos + 1, b.len)

(* The PartialEq of buffers: retained bytes and read position. *)
SameBuffer(a, b) == a.pos = b.pos /\ Buf(a) = Buf(b)

Clear(b) == [b EXCEPT !.pos = 0, !.len = 0]

Consume(b, amt) == [b EXCEPT !.pos = Smaller(Wrap(b.pos + amt), b.len)]

(* Fault: the subtraction of unconsume does not saturate. *)
Unconsume_Unchecked(b, amt) == [b EXCEPT !.pos = b.pos - amt]

Unconsume(b, amt) == [b EXCEPT !.pos = IF amt <= b.pos THEN b.pos - amt ELSE 0]

(* Faults: only the bookkeeping moves; and len - pos the wrong way round. *)
Compact_InPlace(b) == [b EXCEPT !.len = b.len - b.pos, !.pos = 0]

Compact_Swapped(b) ==
  [b EXCEPT !.vec = CopyToFront(b.vec, b.pos, b.len - b.pos),
            !.len = b.pos - b.len,
            !.pos = 0]

Compact(b) ==
  [b EXCEPT !.vec = CopyToFront(b.vec, b.pos, b.len - b.pos),
            !.len = b.len - b.pos,
            !.pos = 0]

(* The common part of grow_targeted and grow_targeted_linear. *)
GrowTo(b, next) ==
  IF next > b.cap THEN [b EXCEPT !.vec = Resize(b.vec, next), !.cap = next] ELSE b

GrowTargeted(b, target)       == GrowTo(b, CapUp(target))
GrowTargetedLinear(b, target) == GrowTo(b, CapUpLinear(target))
Grow(b)                       == GrowTargeted(b, Wrap(b.cap + CHUNK_SIZE))

(* Fault: the data is not taken into account. *)
ShrinkTargeted_IgnoresData(b, target) ==
  LET next == CapUpLinear(target)
  IN  [b EXCEPT !.vec = Truncate(b.vec, next), !.cap = next]

(***************************************************************************)
(* shrink_targeted.  The vector is only ever truncated, while cap is set   *)
(* to the rounded target whatever it was before.                           *)
(***************************************************************************)
ShrinkTargeted(b, target) ==
  LET next == Larger(CapUpLinear(b.len), CapUpLinear(target))
  IN  [b EXCEPT !.vec = Truncate(b.vec, next), !.cap = next]

Shrink(b)  == ShrinkTargeted(b, CHUNK_SIZE)
Discard(b) == Shrink(Clear(b))

(* Clone::clone rebuilds the storage around the retained bytes. *)
Clone(b) ==
  LET cap == CapUpLinear(b.len)
  IN  [vec |-> Resize(Buf(b), cap), cap |-> cap, len |-> b.len, pos |-> b.pos]

(* Fault: the storage leaves with the unconsumed bytes still in it. *)
TakenPart_Whole(b) == IF b.pos = 0 THEN NewBuffer ELSE Shrink(b)

(***************************************************************************)
(* take_consumed: what leaves with the consumed bytes, and what stays.     *)
(***************************************************************************)
TakenPart(b) ==
  IF b.pos = 0 THEN NewBuffer ELSE Shrink([b EXCEPT !.len = b.pos])

KeptPart(b) ==
  IF b.pos = 0 THEN b
  ELSE LET n     == b.len - b.pos
           fresh == WithCapacity(n)
       IN  [fresh EXCEPT !.vec = [i \in 1..Len(fresh.vec) |->
                                     IF i <= n THEN b.vec[b.pos + i] ELSE fresh.vec[i]],
                         !.len = n]

-----------------------------------------------------------------------------
(***************************************************************************)
(* The growth policy of read_once.  A full buffer is consulted against its *)
(* growth limit; below the limit it grows exponentially, or linearly up to *)
(* the limit when the exponential step would pass it.                      *)
(***************************************************************************)
IsFull(b) == b.len >= b.cap

NextExponential(b) == CapUp(Wrap(b.cap + CHUNK_SIZE))

(* Fault: a buffer that is exactly at its limit is not taken to be there. *)
IsCapped_PastLimit(b, limit) ==
  IsFull(b) /\ limit # NoLimit /\ b.cap > CapUpLinear(limit)

IsCapped(b, limit) ==
  /\ IsFull(b)
  /\ limit # NoLimit
  /\ LET bound == CapUpLinear(limit)
     IN  \/ b.cap >= bound
         \/ NextExponential(b) > bound /\ CapUpLinear(bound) > bound

(* Fault: the exponential step is taken although it passes the limit. *)
GrownForRead_Overshoots(b, limit) == IF IsFull(b) THEN Grow(b) ELSE b

GrownForRead(b, limit) ==
  IF ~IsFull(b) THEN b
  ELSE IF limit = NoLimit \/ NextExponential(b) <= CapUpLinear(limit) THEN Grow(b)
  ELSE GrowTargetedLinear(b, CapUpLinear(limit))

(* The slice buf[len..cap] that read_once hands to the source exists;       *)
(* indexing panics otherwise.                                               *)
SliceInRange(b) == b.len <= b.cap /\ b.cap <= Len(b.vec)

(* n bytes were read into the buffer, after the first `taken` of the source. *)
Absorb(b, n, taken) ==
  [b EXCEPT !.vec = WriteAt(b.vec, b.len, n, taken), !.len = b.len + n]

-----------------------------------------------------------------------------
(***************************************************************************)
(* The invariant that the doc comment of Buffer promises at all times, and *)
(* the alignment of capacities.                                            *)
(***************************************************************************)
WellFormed(b) ==
  /\ b \in BufferType
  /\ b.pos <= b.len
  /\ b.len <= b.cap
  /\ b.cap = Len(b.vec)
  /\ b.cap \in Capacities
=============================================================================
