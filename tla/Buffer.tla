------------------------------- MODULE Buffer -------------------------------
(***************************************************************************)
(* A standalone strata-reader Buffer and its client.  The client owns the  *)
(* buffer, calls its public methods in any order, and fills it from one    *)
(* source; a fill runs to its end before the next call, because it borrows *)
(* the buffer mutably.                                                     *)
(***************************************************************************)
EXTENDS BufferFill

CONSTANTS
  Amounts,      (* The byte counts the client passes.                       *)
  Targets,      (* The capacities the client passes.                        *)
  Limits        (* The growth limits the client passes, NoLimit included.   *)

ASSUME ClientAssumption == /\ Amounts \subseteq Nat
                           /\ Targets \subseteq Nat
                           /\ Limits \subseteq Nat \cup {NoLimit}

VARIABLE taken  (* the buffer that the last call returned, if it did        *)

vars == <<buf, inner, lost, call, taken>>

Init == /\ \E c \in Targets : buf = WithCapacity(c)
        /\ inner = 0
        /\ lost = {}
        /\ call = NoCall
        /\ taken = NewBuffer

-----------------------------------------------------------------------------
(* A method that only touches the buffer leaves b. *)
Becomes(b) == /\ Idle
              /\ buf' = b
              /\ call' = NoCall
              /\ taken' = NewBuffer
              /\ UNCHANGED <<inner, lost>>

ClearCall             == Becomes(Clear(buf))
DiscardCall           == Becomes(Discard(buf))
ConsumeCall(amt)      == Becomes(Consume(buf, amt))
UnconsumeCall(amt)    == Becomes(Unconsume(buf, amt))
CompactCall           == Becomes(Compact(buf))
GrowCall              == Becomes(Grow(buf))
GrowTargetedCall(t)   == Becomes(GrowTargeted(buf, t))
GrowLinearCall(t)     == Becomes(GrowTargetedLinear(buf, t))
ShrinkCall            == Becomes(Shrink(buf))
ShrinkTargetedCall(t) == Becomes(ShrinkTargeted(buf, t))

(* The client goes on with the clone, or with what take_consumed left. *)
CloneCall == Becomes(Clone(buf))

TakeConsumedCall == /\ Idle
                    /\ buf' = KeptPart(buf)
                    /\ taken' = TakenPart(buf)
                    /\ call' = NoCall
                    /\ UNCHANGED <<inner, lost>>

(***************************************************************************)
(* What the client must respect, and the code does not check: an amount    *)
(* whose sum with pos fits a usize, and a shrink target that the buffer's  *)
(* capacity already covers.                                                *)
(***************************************************************************)
ConsumeInRange(amt) == buf.pos + amt <= USIZE_MAX
ShrinkInRange(t)    == CapUpLinear(t) <= buf.cap

Manage ==
  \/ ClearCall \/ DiscardCall \/ CompactCall
  \/ GrowCall \/ ShrinkCall \/ CloneCall \/ TakeConsumedCall
  \/ \E amt \in Amounts : UnconsumeCall(amt) \/ (ConsumeInRange(amt) /\ ConsumeCall(amt))
  \/ \E t \in Targets : \/ GrowTargetedCall(t)
                        \/ GrowLinearCall(t)
                        \/ ShrinkInRange(t) /\ ShrinkTargetedCall(t)

StartCall ==
  \/ StartFill("fill", NoLimit)
  \/ StartFill("fill_to_end", NoLimit)
  \/ \E limit \in Limits, op \in {"fill_while", "fill_until", "fill_until_str"} :
       StartFill(op, limit)
  \/ \E amt \in Amounts :
       \/ StartFillAmount(amt)
       \/ FillExactInvalid(amt)
       \/ FillExactDone(amt)
       \/ \E n \in 0..amt : FillExactFailed(amt, n, "eof") \/ FillExactFailed(amt, n, "error")

Fill == (StartCall \/ FillStep) /\ taken' = NewBuffer

Next == Manage \/ Fill

Spec == Init /\ [][Next]_vars

(* A client without the second obligation, and one that only fills and      *)
(* consumes, without the first.                                             *)
AnyShrink  == Init /\ [][Next \/ \E t \in Targets : ShrinkTargetedCall(t)]_vars
AnyConsume == Init /\ [][Fill \/ \E amt \in Amounts : ConsumeCall(amt)]_vars

-----------------------------------------------------------------------------
(* The variables range over the values the code's types admit. *)
TypeOK == /\ buf \in BufferType
          /\ inner \in 0..StreamLen
          /\ lost \subseteq 1..StreamLen
          /\ call \in CallType
          /\ taken \in BufferType

(***************************************************************************)
(* The invariant of the doc comment of Buffer, 0 <= pos <= len <= cap ==   *)
(* buf.len(), with cap an aligned capacity: after every call, and at every *)
(* moment of a fill at which the source or the predicate runs.             *)
(***************************************************************************)
StorageInvariant == WellFormed(buf) /\ WellFormed(taken)

(***************************************************************************)
(* A fill leaves what the buffer retained, and the read position, where    *)
(* they were: it only appends (growth and shrinking move the storage).     *)
(***************************************************************************)
FillsOnlyAppend ==
  [][~Idle \/ ~Idle' => /\ buf'.pos = buf.pos
                        /\ buf.len <= buf'.len
                        /\ SubSeq(buf'.vec, 1, buf.len) = Buf(buf)]_vars

(***************************************************************************)
(* The byte count that a fill returns is the number of bytes it appended,  *)
(* and fill_amount completes only with the amount asked for.               *)
(***************************************************************************)
CountIsExact ==
  call.op # "none" /\ call.result \notin {"error", "invalid"} =>
    /\ call.result # "none" \/ call.pc # "idle"
    /\ call.op = "fill_exact" \/ call.total = buf.len - call.first
    /\ call.op = "fill_amount" /\ call.result = "complete" => call.total >= call.amt

(***************************************************************************)
(* What fill_until answers is true of the whole unconsumed region although *)
(* each check looks only at the bytes after check_pos: Complete if and     *)
(* only if the delimiter is there.                                         *)
(***************************************************************************)
DelimiterVerdict ==
  call.op = "fill_until" /\ call.result \in {"complete", "eof", "capped"} =>
    (call.result = "complete" <=> FoundFrom(buf, buf.pos))

(***************************************************************************)
(* A growth limit is never exceeded: a fill that was given one leaves a    *)
(* capacity of at most the rounded limit or what it started with, and it   *)
(* answers Capped only when the buffer is full at that limit.              *)
(***************************************************************************)
LimitRespected ==
  call.op \in {"fill_while", "fill_until", "fill_until_str"} /\ call.limit # NoLimit =>
    /\ buf.cap <= Larger(call.start, CapUpLinear(call.limit))
    /\ call.result = "capped" => IsFull(buf) /\ buf.cap >= CapUpLinear(call.limit)

(***************************************************************************)
(* Excess capacity is given back: a fill that completes or meets EOF ends  *)
(* with the larger of its starting capacity and the least that fits its    *)
(* data; fill never changes it; only a completed fill_amount keeps what it *)
(* grew in advance, which its amount bounds.                               *)
(***************************************************************************)
CapacityAfterFill ==
  LET fitted == Larger(call.start, CapUpLinear(buf.len))
  IN  call.result \in {"complete", "eof"} =>
        CASE call.op = "fill" -> buf.cap = call.start
          [] call.op \in {"fill_amount", "fill_exact"} /\ call.result = "complete" ->
               buf.cap = Larger(call.start, CapUpLinear(call.first + call.amt))
          [] call.op = "fill_exact" -> TRUE
          [] OTHER -> buf.cap = fitted

(***************************************************************************)
(* EOF is reported when the source has ended.  The exception is a fill     *)
(* without a limit that has filled the largest supported capacity: it can  *)
(* not grow, reads into an empty slice, and takes that answer for EOF.     *)
(***************************************************************************)
EofIsEnd ==
  call.result = "eof" =>
    \/ Remaining = 0
    \/ call.limit = NoLimit /\ buf.len = MAX_SUPPORTED_CAPACITY

(***************************************************************************)
(* take_consumed splits without loss: the consumed bytes leave, all of     *)
(* them still marked consumed, and the unconsumed ones stay.  clone copies *)
(* without loss: what it makes equals the buffer.                          *)
(***************************************************************************)
SplitIsLossless ==
  [][/\ TakeConsumedCall => /\ Buf(taken') = Consumed(buf)
                            /\ taken'.pos = taken'.len
                            /\ Buf(buf') = Unconsumed(buf)
                            /\ buf'.pos = 0
     /\ CloneCall => SameBuffer(buf', buf)]_vars

(***************************************************************************)
(* What the doc of consume says (src/buffer.rs:361-362): an amount beyond  *)
(* the data is clamped to len, so consuming never moves backwards.         *)
(***************************************************************************)
ConsumeClamps ==
  [][\A amt \in Amounts :
       ConsumeCall(amt) => buf'.pos = Smaller(buf.pos + amt, buf.len)]_vars

(* What the doc of Buffer says of its storage (src/buffer.rs:143-146).     *)
CapacityIsStorage == buf.cap = Len(buf.vec)
=============================================================================
