---------------------------- MODULE BufferProofs ----------------------------
(***************************************************************************)
(* Theorems of Buffer, for every chunk size, width of usize, source,       *)
(* delimiter set and client.                                               *)
(***************************************************************************)
EXTENDS Buffer, BufferFillProofs

(* The inductive invariant. *)
Inductive == FillInvariant /\ WellFormed(taken)

-----------------------------------------------------------------------------
LEMMA InitInductive == Init => Inductive
  <1> SUFFICES ASSUME Init PROVE Inductive
    OBVIOUS
  <1>1. WellFormed(buf)
    BY ClientAssumption, NewWellFormed DEF Init
  <1>2. WellFormed(taken) /\ inner \in Nat
    BY NewBufferWellFormed DEF Init
  <1>. QED BY <1>1, <1>2, NoCallFields DEF Init, Inductive, FillInvariant, Idle, NoPanic

(* A method that leaves a well-formed buffer. *)
LEMMA BecomesInductive ==
  ASSUME Inductive, NEW b, WellFormed(b), Becomes(b)
  PROVE  Inductive'
  <1>1. WellFormed(buf') /\ WellFormed(taken') /\ inner' \in Nat
    BY NewBufferWellFormed DEF Becomes, Inductive, FillInvariant
  <1>2. call' = NoCall
    BY DEF Becomes
  <1>3. FillInvariant'
    BY <1>1, <1>2, NoCallFields, AfterReturn
  <1>. QED BY <1>1, <1>3 DEF Inductive

LEMMA ManageInductive ==
  ASSUME Inductive, Manage
  PROVE  Inductive'
  <1>0. WellFormed(buf) /\ buf.cap \in Capacities /\ buf.cap \in Nat
    BY Fields DEF Inductive, FillInvariant
  <1>1. CASE ClearCall
    BY <1>0, <1>1, ClearWellFormed, BecomesInductive DEF ClearCall
  <1>2. CASE DiscardCall
    BY <1>0, <1>2, DiscardWellFormed, BecomesInductive DEF DiscardCall
  <1>3. CASE CompactCall
    BY <1>0, <1>3, CompactWellFormed, BecomesInductive DEF CompactCall
  <1>4. CASE GrowCall
    <2>1. CapUp(Wrap(buf.cap + CHUNK_SIZE)) \in Capacities
      <3>1. Wrap(buf.cap + CHUNK_SIZE) \in Nat
        BY <1>0, RoomAbove, CapacityAssumption
      <3>. QED BY <3>1, ExponentialUp
    <2>2. WellFormed(Grow(buf))
      BY <1>0, <2>1, GrowToWellFormed DEF Grow, GrowTargeted
    <2>. QED BY <1>4, <2>2, BecomesInductive DEF GrowCall
  <1>5. CASE ShrinkCall
    <2>1. WellFormed(Shrink(buf))
      BY <1>0, OneChunk, ShrinkWellFormed DEF Shrink
    <2>. QED BY <1>5, <2>1, BecomesInductive DEF ShrinkCall
  <1>6. CASE CloneCall
    BY <1>0, <1>6, CloneWellFormed, BecomesInductive DEF CloneCall
  <1>7. CASE TakeConsumedCall
    <2>1. WellFormed(buf') /\ WellFormed(taken') /\ inner' \in Nat /\ call' = NoCall
      BY <1>0, <1>7, KeptWellFormed, TakenWellFormed
         DEF TakeConsumedCall, Inductive, FillInvariant
    <2>2. FillInvariant'
      BY <2>1, NoCallFields, AfterReturn
    <2>. QED BY <2>1, <2>2 DEF Inductive
  <1>8. ASSUME NEW amt \in Amounts, UnconsumeCall(amt) PROVE Inductive'
    <2>1. amt \in Nat
      BY ClientAssumption
    <2>. QED BY <1>0, <1>8, <2>1, UnconsumeWellFormed, BecomesInductive DEF UnconsumeCall
  <1>9. ASSUME NEW amt \in Amounts, ConsumeInRange(amt), ConsumeCall(amt) PROVE Inductive'
    <2>1. amt \in Nat
      BY ClientAssumption
    <2>2. WellFormed(Consume(buf, amt))
      BY <1>0, <1>9, <2>1, ConsumeWellFormed DEF ConsumeInRange
    <2>. QED BY <1>9, <2>2, BecomesInductive DEF ConsumeCall
  <1>10. ASSUME NEW t \in Targets, GrowTargetedCall(t) PROVE Inductive'
    <2>1. CapUp(t) \in Capacities
      BY ClientAssumption, ExponentialUp
    <2>2. WellFormed(GrowTargeted(buf, t))
      BY <1>0, <2>1, GrowToWellFormed DEF GrowTargeted
    <2>. QED BY <1>10, <2>2, BecomesInductive DEF GrowTargetedCall
  <1>11. ASSUME NEW t \in Targets, GrowLinearCall(t) PROVE Inductive'
    <2>1. CapUpLinear(t) \in Capacities
      BY ClientAssumption, LinearUp
    <2>2. WellFormed(GrowTargetedLinear(buf, t))
      BY <1>0, <2>1, GrowToWellFormed DEF GrowTargetedLinear
    <2>. QED BY <1>11, <2>2, BecomesInductive DEF GrowLinearCall
  <1>12. ASSUME NEW t \in Targets, ShrinkInRange(t), ShrinkTargetedCall(t) PROVE Inductive'
    <2>1. t \in Nat
      BY ClientAssumption
    <2>2. WellFormed(ShrinkTargeted(buf, t))
      BY <1>0, <1>12, <2>1, ShrinkWellFormed DEF ShrinkInRange
    <2>. QED BY <1>12, <2>2, BecomesInductive DEF ShrinkTargetedCall
  <1>. QED BY <1>1, <1>2, <1>3, <1>4, <1>5, <1>6, <1>7, <1>8, <1>9, <1>10, <1>11, <1>12
           DEF Manage

-----------------------------------------------------------------------------
(* Starting a fill. *)
LEMMA StartInductive ==
  ASSUME Inductive, StartCall, taken' = NewBuffer
  PROVE  Inductive'
  <1>1. /\ NoLimit \in Nat \cup {NoLimit} /\ Limits \subseteq Nat \cup {NoLimit} /\ Amounts \subseteq Nat
        /\ {"fill", "fill_to_end", "fill_while", "fill_until", "fill_until_str"}
             \subseteq Ops \ {"none", "fill_exact", "fill_amount"}
    BY ClientAssumption DEF Ops
  <1>2. FillInvariant /\ WellFormed(taken')
    BY NewBufferWellFormed DEF Inductive
  <1>3. CASE \/ StartFill("fill", NoLimit) \/ StartFill("fill_to_end", NoLimit)
             \/ \E limit \in Limits, op \in {"fill_while", "fill_until", "fill_until_str"} :
                  StartFill(op, limit)
    BY <1>1, <1>2, <1>3, StartFillHolds DEF Inductive
  <1>4. ASSUME NEW amt \in Amounts,
               \/ StartFillAmount(amt) \/ FillExactInvalid(amt) \/ FillExactDone(amt)
               \/ \E n \in 0..amt : FillExactFailed(amt, n, "eof") \/ FillExactFailed(amt, n, "error")
        PROVE  Inductive'
    <2>1. amt \in Nat /\ \A n \in 0..amt : n \in Nat
      BY <1>1
    <2>. QED BY <1>2, <1>4, <2>1, StartFillAmountHolds, FillExactHolds DEF Inductive
  <1>. QED BY <1>3, <1>4 DEF StartCall

-----------------------------------------------------------------------------
(* The inductive invariant holds. *)
THEOREM InductiveHolds == Spec => []Inductive
  <1>1. Init => Inductive
    BY InitInductive
  <1>2. Inductive /\ [Next]_vars => Inductive'
    <2> SUFFICES ASSUME Inductive, [Next]_vars PROVE Inductive'
      OBVIOUS
    <2>1. CASE Manage
      BY <2>1, ManageInductive
    <2>2. CASE Fill
      <3>1. taken' = NewBuffer /\ WellFormed(taken')
        BY <2>2, NewBufferWellFormed DEF Fill
      <3>2. CASE StartCall
        BY <3>1, <3>2, StartInductive
      <3>3. CASE FillStep
        BY <3>1, <3>3, FillStepHolds DEF Inductive
      <3>. QED BY <2>2, <3>2, <3>3 DEF Fill
    <2>3. CASE UNCHANGED vars
      BY <2>3 DEF vars, Inductive, FillInvariant, Idle, Running, NoPanic
    <2>. QED BY <2>1, <2>2, <2>3 DEF Next
  <1>. QED BY <1>1, <1>2, PTL DEF Spec

(***************************************************************************)
(* The invariant of the doc comment of Buffer holds after every call and   *)
(* whenever the source or a predicate runs inside a fill.                  *)
(***************************************************************************)
THEOREM StorageInvariantHolds == Spec => []StorageInvariant
  <1>1. Inductive => StorageInvariant
    BY DEF Inductive, FillInvariant, StorageInvariant
  <1>. QED BY <1>1, InductiveHolds, PTL

(***************************************************************************)
(* No fill reaches unreachable!(), and none slices outside its storage.    *)
(***************************************************************************)
THEOREM NoPanicHolds == Spec => []NoPanic
  <1>1. Inductive => NoPanic
    BY DEF Inductive, FillInvariant
  <1>. QED BY <1>1, InductiveHolds, PTL

-----------------------------------------------------------------------------
(***************************************************************************)
(* The bytes that a buffer retains keep the order of the source.           *)
(***************************************************************************)
Ordered == Inductive /\ BytesInOrder

(* A method that keeps the data, or the data from k on. *)
LEMMA BecomesOrdered ==
  ASSUME Ordered, NEW b, NEW k \in Nat, k <= buf.len, Becomes(b),
         b.len = buf.len - k, \A i \in 1..(buf.len - k) : b.vec[i] = buf.vec[k + i]
  PROVE  BytesInOrder'
  <1>1. WellFormed(buf) /\ buf.len \in Nat /\ inner \in Nat /\ BytesInOrder
    BY Fields DEF Ordered, Inductive, FillInvariant
  <1>2. buf' = b /\ inner' = inner /\ lost' = lost
    BY DEF Becomes
  <1>3. buf'.len \in Nat /\ buf'.len = buf.len - k /\ \A i \in 1..buf'.len : buf'.vec[i] = buf.vec[k + i]
    BY <1>1, <1>2
  <1>4. 0 \in Nat /\ inner' = inner + 0 /\ lost' = lost \cup (inner + 1)..(inner + 0)
    BY <1>1, <1>2
  <1>. QED BY <1>1, <1>3, <1>4, KeepsOrder

LEMMA BecomesSame ==
  ASSUME Ordered, NEW b, Becomes(b),
         b.len = buf.len, \A i \in 1..buf.len : b.vec[i] = buf.vec[i]
  PROVE  BytesInOrder'
  BY KeepsData DEF Becomes, Ordered, Inductive, FillInvariant

LEMMA ManageOrdered ==
  ASSUME Ordered, Manage
  PROVE  BytesInOrder'
  <1>0. /\ WellFormed(buf) /\ buf.cap \in Capacities /\ buf.len \in Nat /\ buf.pos \in Nat
        /\ buf.pos <= buf.len
    BY Fields DEF Ordered, Inductive, FillInvariant
  <1>1. ASSUME NEW b, Becomes(b), b.len = 0 PROVE BytesInOrder'
    BY <1>0, <1>1, BecomesOrdered
  <1>2. CASE ClearCall \/ DiscardCall
    BY <1>0, <1>1, <1>2, ClearWellFormed, DiscardWellFormed DEF ClearCall, DiscardCall
  <1>3. CASE CompactCall
    BY <1>0, <1>3, CompactWellFormed, BecomesOrdered DEF CompactCall
  <1>4. ASSUME NEW next \in Capacities, Becomes(GrowTo(buf, next)) PROVE BytesInOrder'
    BY <1>0, <1>4, GrowToWellFormed, BecomesSame
  <1>5. CASE GrowCall
    <2>1. Wrap(buf.cap + CHUNK_SIZE) \in Nat
      BY <1>0, RoomAbove, CapacityAssumption, CapacityChunks
    <2>2. CapUp(Wrap(buf.cap + CHUNK_SIZE)) \in Capacities
      BY <2>1, ExponentialUp
    <2>. QED BY <1>4, <1>5, <2>2 DEF GrowCall, Grow, GrowTargeted
  <1>6. ASSUME NEW t \in Targets, GrowTargetedCall(t) \/ GrowLinearCall(t) PROVE BytesInOrder'
    <2>1. CapUp(t) \in Capacities /\ CapUpLinear(t) \in Capacities
      BY ClientAssumption, ExponentialUp, LinearUp
    <2>. QED BY <1>4, <1>6, <2>1 DEF GrowTargetedCall, GrowLinearCall, GrowTargeted, GrowTargetedLinear
  <1>7. ASSUME NEW t \in Nat, CapUpLinear(t) <= buf.cap, Becomes(ShrinkTargeted(buf, t))
        PROVE  BytesInOrder'
    BY <1>0, <1>7, ShrinkWellFormed, BecomesSame
  <1>8. CASE ShrinkCall
    BY <1>0, <1>7, <1>8, OneChunk DEF ShrinkCall, Shrink
  <1>9. ASSUME NEW t \in Targets, ShrinkInRange(t), ShrinkTargetedCall(t) PROVE BytesInOrder'
    BY <1>7, <1>9, ClientAssumption DEF ShrinkTargetedCall, ShrinkInRange
  <1>10. CASE CloneCall
    BY <1>0, <1>10, CloneWellFormed, BecomesSame DEF CloneCall
  <1>11. CASE TakeConsumedCall
    <2>1. buf' = KeptPart(buf) /\ inner' = inner /\ lost' = lost
      BY <1>11 DEF TakeConsumedCall
    <2>2. /\ buf'.len \in Nat /\ buf'.len = buf.len - buf.pos
          /\ \A i \in 1..buf'.len : buf'.vec[i] = buf.vec[buf.pos + i]
      BY <1>0, <2>1, KeptWellFormed
    <2>3. inner \in Nat /\ BytesInOrder
      BY DEF Ordered, Inductive, FillInvariant
    <2>4. 0 \in Nat /\ inner' = inner + 0 /\ lost' = lost \cup (inner + 1)..(inner + 0)
      BY <2>1, <2>3
    <2>. QED BY <1>0, <2>2, <2>3, <2>4, KeepsOrder
  <1>12. ASSUME NEW amt \in Amounts,
                UnconsumeCall(amt) \/ (ConsumeInRange(amt) /\ ConsumeCall(amt))
         PROVE  BytesInOrder'
    <2>1. amt \in Nat
      BY ClientAssumption
    <2>2. CASE UnconsumeCall(amt)
      BY <1>0, <2>1, <2>2, UnconsumeWellFormed, BecomesSame DEF UnconsumeCall
    <2>3. CASE ConsumeInRange(amt) /\ ConsumeCall(amt)
      <3>1. Consume(buf, amt).vec = buf.vec /\ Consume(buf, amt).len = buf.len
        BY <1>0, <2>1, <2>3, ConsumeWellFormed DEF ConsumeInRange
      <3>. QED BY <2>3, <3>1, BecomesSame DEF ConsumeCall
    <2>. QED BY <1>12, <2>2, <2>3
  <1>. QED BY <1>2, <1>3, <1>5, <1>6, <1>8, <1>9, <1>10, <1>11, <1>12 DEF Manage

LEMMA StartOrdered ==
  ASSUME Ordered, StartCall
  PROVE  BytesInOrder'
  <1>1. /\ {NoLimit} \cup Limits \subseteq Nat \cup {NoLimit} /\ Amounts \subseteq Nat
        /\ {"fill", "fill_to_end", "fill_while", "fill_until", "fill_until_str"} \subseteq Ops
    BY ClientAssumption DEF Ops
  <1>2. FillInvariant /\ BytesInOrder
    BY DEF Ordered, Inductive
  <1>3. CASE \E op \in Ops, limit \in Nat \cup {NoLimit} : StartFill(op, limit)
    BY <1>2, <1>3, StartOrder
  <1>4. ASSUME NEW amt \in Amounts,
               \/ StartFillAmount(amt) \/ FillExactInvalid(amt) \/ FillExactDone(amt)
               \/ \E n \in 0..amt : FillExactFailed(amt, n, "eof") \/ FillExactFailed(amt, n, "error")
        PROVE  BytesInOrder'
    <2>1. amt \in Nat /\ \A n \in 0..amt : n \in Nat
      BY <1>1
    <2>. QED BY <1>2, <1>4, <2>1, StartOrder, FillExactOrder
  <1>. QED BY <1>1, <1>3, <1>4 DEF StartCall

(***************************************************************************)
(* No byte is duplicated, reordered or dropped on its way into the buffer: *)
(* the retained bytes are consecutive bytes of the source, but for those   *)
(* that a failed fill_exact consumed.                                      *)
(***************************************************************************)
THEOREM BytesInOrderHolds == Spec => []BytesInOrder
  <1>1. Init => BytesInOrder
    <2> SUFFICES ASSUME Init PROVE BytesInOrder
      OBVIOUS
    <2>1. buf.len = 0
      BY ClientAssumption, NewWellFormed DEF Init
    <2>. QED BY <2>1 DEF BytesInOrder
  <1>2. Inductive /\ BytesInOrder /\ [Next]_vars => BytesInOrder'
    <2> SUFFICES ASSUME Ordered, [Next]_vars PROVE BytesInOrder'
      BY DEF Ordered
    <2>1. CASE Manage
      BY <2>1, ManageOrdered
    <2>2. CASE StartCall
      BY <2>2, StartOrdered
    <2>3. CASE FillStep
      BY <2>3, FillStepOrder DEF Ordered, Inductive
    <2>4. CASE UNCHANGED vars
      BY <2>4 DEF vars, Ordered, BytesInOrder
    <2>. QED BY <2>1, <2>2, <2>3, <2>4 DEF Next, Fill
  <1>. QED BY <1>1, <1>2, InductiveHolds, PTL DEF Spec

-----------------------------------------------------------------------------
(* A source that nobody seeks hands out each of its bytes at most once.    *)
Supplied == inner \in 0..StreamLen /\ lost \subseteq 1..StreamLen

LEMMA SupplyHolds ==
  ASSUME Supplied, NEW n \in Nat, n <= Remaining, inner' = inner + n,
         lost' \subseteq lost \cup (inner + 1)..(inner + n)
  PROVE  Supplied'
  <1>1. inner \in Nat /\ StreamLen \in Nat /\ inner + n <= StreamLen
    BY SourceAssumption DEF Supplied, Remaining
  <1>. QED BY <1>1 DEF Supplied

(***************************************************************************)
(* The variables keep to the types of the code, and the source is never    *)
(* asked for more than it has.                                             *)
(***************************************************************************)
THEOREM TypeOKHolds == Spec => []TypeOK
  <1>1. Init => Supplied
    BY SourceAssumption DEF Init, Supplied
  <1>2. Inductive /\ Supplied /\ [Next]_vars => Supplied'
    <2> SUFFICES ASSUME Inductive, Supplied, [Next]_vars PROVE Supplied'
      OBVIOUS
    <2>1. CASE UNCHANGED <<inner, lost>>
      BY <2>1 DEF Supplied
    <2>2. ASSUME NEW amt \in Amounts, FillExactDone(amt) PROVE Supplied'
      <3>1. amt \in Nat /\ amt <= Remaining /\ inner' = inner + amt /\ lost' = lost
        BY <2>2, ClientAssumption DEF FillExactDone
      <3>. QED BY <3>1, SupplyHolds
    <2>3. ASSUME NEW amt \in Amounts, NEW n \in 0..amt,
                 FillExactFailed(amt, n, "eof") \/ FillExactFailed(amt, n, "error")
          PROVE  Supplied'
      <3>1. n \in Nat
        BY ClientAssumption
      <3>2. Remaining \in Nat
        BY SourceAssumption DEF Supplied, Remaining
      <3>3. n <= Remaining /\ inner' = inner + n /\ lost' = lost \cup (inner + 1)..(inner + n)
        BY <2>3, <3>1, <3>2 DEF FillExactFailed
      <3>. QED BY <3>1, <3>3, SupplyHolds
    <2>4. ASSUME NEW n \in 1..StreamLen, ReadBytes(n) PROVE Supplied'
      <3>1. n \in Nat /\ inner' = inner + n /\ lost' = lost /\ n <= Smaller(buf.cap - buf.len, Remaining)
        BY <2>4, SourceAssumption DEF ReadBytes
      <3>2. Remaining \in Nat
        BY SourceAssumption DEF Supplied, Remaining
      <3>3. buf.cap \in Nat /\ buf.len \in Nat
        BY Fields DEF Inductive, FillInvariant
      <3>4. n <= Remaining
        BY <3>1, <3>2, <3>3 DEF Smaller
      <3>. QED BY <3>1, <3>4, SupplyHolds
    <2>5. CASE Manage
      BY <2>1, <2>5 DEF Manage, ClearCall, DiscardCall, CompactCall, GrowCall, ShrinkCall, CloneCall,
                        TakeConsumedCall, UnconsumeCall, ConsumeCall, GrowTargetedCall,
                        GrowLinearCall, ShrinkTargetedCall, Becomes
    <2>6. CASE StartCall
      BY <2>1, <2>2, <2>3, <2>6 DEF StartCall, StartFill, StartFillAmount, FillExactInvalid
    <2>7. CASE FillStep
      BY <2>1, <2>4, <2>7 DEF FillStep, Finish, Abandoned, Capped, PrepareRead, ReadInterrupted, ReadFailed,
                              ReadNothing, fillVars
    <2>8. CASE UNCHANGED vars
      BY <2>1, <2>8 DEF vars
    <2>. QED BY <2>5, <2>6, <2>7, <2>8 DEF Next, Fill
  <1>3. Inductive /\ Supplied => TypeOK
    BY Fields DEF Inductive, FillInvariant, Supplied, TypeOK
  <1>. QED BY <1>1, <1>2, <1>3, InductiveHolds, PTL DEF Spec

-----------------------------------------------------------------------------
(***************************************************************************)
(* What the methods of Buffer answer and leave behind: the data across a   *)
(* fill and a split, the counts, the verdicts, the capacity.               *)
(***************************************************************************)

(* Facts about the buffer and the call in a state of the specification. *)
LEMMA StateFacts ==
  ASSUME Inductive
  PROVE  /\ WellFormed(buf) /\ buf.vec \in Seq(Nat) /\ buf.len \in Nat /\ buf.cap \in Nat
         /\ buf.pos \in Nat /\ buf.pos <= buf.len /\ buf.len <= buf.cap /\ buf.cap = Len(buf.vec)
         /\ buf.cap \in Capacities /\ inner \in Nat
         /\ call \in CallType /\ call.limit \in Nat \cup {NoLimit} /\ call.amt \in Nat
         /\ call.start \in Nat /\ call.first \in Nat /\ call.total \in Nat /\ call.check \in Nat
         /\ ~Idle => Running
  <1>1. WellFormed(buf) /\ call \in CallType /\ inner \in Nat /\ (~Idle => Running)
    BY DEF Inductive, FillInvariant
  <1>2. /\ buf.vec \in Seq(Nat) /\ buf.len \in Nat /\ buf.cap \in Nat
        /\ buf.pos \in Nat /\ buf.pos <= buf.len /\ buf.len <= buf.cap /\ buf.cap = Len(buf.vec)
        /\ buf.cap \in Capacities
    BY <1>1, Fields
  <1>3. /\ call.limit \in Nat \cup {NoLimit} /\ call.amt \in Nat
        /\ call.start \in Nat /\ call.first \in Nat /\ call.total \in Nat /\ call.check \in Nat
    BY <1>1, CallFields
  <1>. QED BY <1>1, <1>2, <1>3

(* Every step keeps the inductive invariant. *)
LEMMA StepInductive ==
  ASSUME Inductive, [Next]_vars
  PROVE  Inductive'
  <1>1. CASE Manage
    BY <1>1, ManageInductive
  <1>2. CASE Fill
    <2>1. taken' = NewBuffer /\ WellFormed(taken')
      BY <1>2, NewBufferWellFormed DEF Fill
    <2>2. CASE StartCall
      BY <2>1, <2>2, StartInductive
    <2>3. CASE FillStep
      BY <2>1, <2>3, FillStepHolds DEF Inductive
    <2>. QED BY <1>2, <2>2, <2>3 DEF Fill
  <1>3. CASE UNCHANGED vars
    BY <1>3 DEF vars, Inductive, FillInvariant, Idle, Running, NoPanic
  <1>. QED BY <1>1, <1>2, <1>3 DEF Next

-----------------------------------------------------------------------------
(* What leaves with take_consumed, and what stays. *)
LEMMA SplitParts ==
  ASSUME NEW b, WellFormed(b)
  PROVE  /\ TakenPart(b).len = b.pos /\ TakenPart(b).pos = b.pos
         /\ \A i \in 1..b.pos : TakenPart(b).vec[i] = b.vec[i]
         /\ KeptPart(b).pos = 0
  <1>1. CASE b.pos = 0
    <2>1. TakenPart(b) = NewBuffer /\ KeptPart(b) = b
      BY <1>1 DEF TakenPart, KeptPart
    <2>2. NewBuffer.len = 0 /\ NewBuffer.pos = 0
      BY NewWellFormed, CapacityAssumption DEF NewBuffer
    <2>. QED BY <1>1, <2>1, <2>2
  <1>2. CASE b.pos # 0
    <2> DEFINE g == [b EXCEPT !.len = b.pos]
    <2>1. b \in BufferType /\ b.pos \in Nat /\ b.len \in Nat /\ b.cap \in Nat /\ b.pos <= b.len
          /\ b.len <= b.cap /\ b.cap = Len(b.vec) /\ b.cap \in Capacities
      BY Fields
    <2>2. g \in BufferType /\ g.vec = b.vec /\ g.cap = b.cap /\ g.len = b.pos /\ g.pos = b.pos
      BY <2>1 DEF BufferType
    <2> HIDE DEF g
    <2>3. WellFormed(g)
      BY <2>1, <2>2 DEF WellFormed
    <2>4. /\ Shrink(g).len = g.len /\ Shrink(g).pos = g.pos
          /\ \A i \in 1..g.len : Shrink(g).vec[i] = g.vec[i]
      BY <2>3, OneChunk, ShrinkWellFormed DEF Shrink
    <2>5. TakenPart(b) = Shrink(g)
      BY <1>2 DEF TakenPart, g
    <2>6. KeptPart(b).pos = 0
      <3> DEFINE n == b.len - b.pos
                 fresh == WithCapacity(n)
                 v == [i \in 1..Len(fresh.vec) |-> IF i <= n THEN b.vec[b.pos + i] ELSE fresh.vec[i]]
      <3>1. fresh = [vec |-> Resize(<<>>, CapUpLinear(n)), cap |-> CapUpLinear(n), len |-> 0, pos |-> 0]
        BY DEF WithCapacity
      <3>2. KeptPart(b) = [fresh EXCEPT !.vec = v, !.len = n]
        BY <1>2 DEF KeptPart
      <3> HIDE DEF v, n
      <3>. QED BY <3>1, <3>2
    <2>. QED BY <2>2, <2>4, <2>5, <2>6
  <1>. QED BY <1>1, <1>2

(***************************************************************************)
(* take_consumed splits a buffer without loss: the consumed bytes leave,   *)
(* all marked consumed, the unconsumed ones stay, in order; and a clone    *)
(* equals what it was made from.                                           *)
(***************************************************************************)
THEOREM SplitIsLosslessHolds == Spec => SplitIsLossless
  <1>1. Inductive /\ TakeConsumedCall => /\ Buf(taken') = Consumed(buf)
                                         /\ taken'.pos = taken'.len
                                         /\ Buf(buf') = Unconsumed(buf)
                                         /\ buf'.pos = 0
    <2> SUFFICES ASSUME Inductive, TakeConsumedCall
                 PROVE  /\ Buf(taken') = Consumed(buf)
                        /\ taken'.pos = taken'.len
                        /\ Buf(buf') = Unconsumed(buf)
                        /\ buf'.pos = 0
      OBVIOUS
    <2>1. buf' = KeptPart(buf) /\ taken' = TakenPart(buf)
      BY DEF TakeConsumedCall
    <2>2. /\ WellFormed(buf) /\ buf.vec \in Seq(Nat) /\ buf.len \in Nat /\ buf.pos \in Nat
          /\ buf.pos <= buf.len /\ buf.len <= Len(buf.vec)
      BY StateFacts
    <2>3. /\ WellFormed(taken') /\ taken'.len = buf.pos /\ taken'.pos = buf.pos
          /\ \A i \in 1..buf.pos : taken'.vec[i] = buf.vec[i]
          /\ buf'.pos = 0
      BY <2>1, <2>2, SplitParts, TakenWellFormed
    <2>4. /\ WellFormed(buf') /\ buf'.len = buf.len - buf.pos
          /\ \A i \in 1..(buf.len - buf.pos) : buf'.vec[i] = buf.vec[buf.pos + i]
      BY <2>1, <2>2, KeptWellFormed
    <2>5. taken'.vec \in Seq(Nat) /\ taken'.len <= Len(taken'.vec)
      BY <2>3, Fields
    <2>6. buf'.vec \in Seq(Nat) /\ buf'.len <= Len(buf'.vec)
      BY <2>4, Fields
    <2>7. SubSeq(taken'.vec, 1, buf.pos) = SubSeq(buf.vec, 0 + 1, 0 + buf.pos)
      <3>1. /\ 0 \in Nat /\ buf.pos <= Len(taken'.vec) /\ 0 + buf.pos <= Len(buf.vec)
            /\ \A i \in 1..buf.pos : taken'.vec[i] = buf.vec[0 + i]
        BY <2>2, <2>3, <2>5
      <3>. QED BY <2>2, <2>5, <3>1, SameStretch
    <2>8. SubSeq(buf'.vec, 1, buf'.len) = SubSeq(buf.vec, buf.pos + 1, buf.pos + buf'.len)
      <3>1. /\ buf'.len \in Nat /\ buf'.len <= Len(buf'.vec) /\ buf.pos + buf'.len <= Len(buf.vec)
            /\ \A i \in 1..buf'.len : buf'.vec[i] = buf.vec[buf.pos + i]
        BY <2>2, <2>4, <2>6
      <3>. QED BY <2>2, <2>6, <3>1, SameStretch, ZenonT(60)
    <2>9. 0 + 1 = 1 /\ 0 + buf.pos = buf.pos /\ buf.pos + buf'.len = buf.len
      BY <2>2, <2>4
    <2>. QED BY <2>3, <2>7, <2>8, <2>9 DEF Buf, Consumed, Unconsumed
  <1>2. Inductive /\ CloneCall => SameBuffer(buf', buf)
    <2> SUFFICES ASSUME Inductive, CloneCall PROVE SameBuffer(buf', buf)
      OBVIOUS
    <2>1. /\ WellFormed(buf) /\ buf.vec \in Seq(Nat) /\ buf.len \in Nat /\ buf.len <= Len(buf.vec)
      BY StateFacts
    <2>2. /\ WellFormed(buf') /\ buf'.len = buf.len /\ buf'.pos = buf.pos
          /\ \A i \in 1..buf.len : buf'.vec[i] = buf.vec[i]
      BY <2>1, CloneWellFormed DEF CloneCall, Becomes
    <2>3. buf'.vec \in Seq(Nat) /\ buf'.len <= Len(buf'.vec)
      BY <2>2, Fields
    <2>4. SubSeq(buf'.vec, 1, buf.len) = SubSeq(buf.vec, 0 + 1, 0 + buf.len)
      <3>1. /\ 0 \in Nat /\ buf.len <= Len(buf'.vec) /\ 0 + buf.len <= Len(buf.vec)
            /\ \A i \in 1..buf.len : buf'.vec[i] = buf.vec[0 + i]
        BY <2>1, <2>2, <2>3
      <3>. QED BY <2>1, <2>3, <3>1, SameStretch
    <2>5. 0 + 1 = 1 /\ 0 + buf.len = buf.len
      BY <2>1
    <2>. QED BY <2>2, <2>4, <2>5 DEF SameBuffer, Buf
  <1>3. Inductive /\ [Next]_vars =>
          [/\ TakeConsumedCall => /\ Buf(taken') = Consumed(buf)
                                  /\ taken'.pos = taken'.len
                                  /\ Buf(buf') = Unconsumed(buf)
                                  /\ buf'.pos = 0
           /\ CloneCall => SameBuffer(buf', buf)]_vars
    BY <1>1, <1>2
  <1>. QED BY <1>3, InductiveHolds, PTL DEF Spec, SplitIsLossless

-----------------------------------------------------------------------------
(* Where calls begin and end. *)
LEMMA ManagesIdle == ASSUME Manage PROVE Idle /\ call' = NoCall /\ Idle'
  <1>1. Idle /\ call' = NoCall
    BY DEF Manage, ClearCall, DiscardCall, CompactCall, GrowCall, ShrinkCall, CloneCall,
           TakeConsumedCall, UnconsumeCall, ConsumeCall, GrowTargetedCall, GrowLinearCall,
           ShrinkTargetedCall, Becomes
  <1>. QED BY <1>1, NoCallFields DEF Idle

LEMMA StartsIdle == ASSUME StartCall PROVE Idle
  BY DEF StartCall, StartFill, StartFillAmount, FillExactInvalid, FillExactDone, FillExactFailed

LEMMA CalledType ==
  ASSUME Inductive, NEW op \in Ops, NEW amt \in Nat, NEW limit \in Nat \cup {NoLimit}
  PROVE  LET c == Called(buf, op, amt, limit)
         IN  /\ c \in CallType /\ c.pc = "check" /\ c.op = op /\ c.amt = amt /\ c.limit = limit
             /\ c.start = buf.cap /\ c.first = buf.len /\ c.total = 0 /\ c.result = "none"
  <1>1. WellFormed(buf)
    BY StateFacts
  <1>. QED BY <1>1, CalledFields

(* fill_exact returns in one step. *)
LEMMA FillExactReturns ==
  ASSUME Inductive, NEW amt \in Amounts,
         \/ FillExactInvalid(amt) \/ FillExactDone(amt)
         \/ \E n \in 0..amt : FillExactFailed(amt, n, "eof") \/ FillExactFailed(amt, n, "error")
  PROVE  Idle'
  <1> DEFINE c == Called(buf, "fill_exact", amt, NoLimit)
             d == [c EXCEPT !.total = amt]
  <1>1. amt \in Nat /\ "fill_exact" \in Ops /\ {"invalid", "complete", "eof", "error"} \subseteq Results
    BY ClientAssumption DEF Ops, Results
  <1>2. c \in CallType
    BY <1>1, CalledType
  <1> HIDE DEF c
  <1>3. d \in CallType
    BY <1>1, <1>2 DEF CallType
  <1> HIDE DEF d
  <1>4. \/ call' = Returned(c, "invalid") \/ call' = Returned(d, "complete")
        \/ call' = Returned(c, "eof") \/ call' = Returned(c, "error")
    BY DEF FillExactInvalid, FillExactDone, FillExactFailed, c, d
  <1>5. /\ Returned(c, "invalid").pc = "idle" /\ Returned(c, "eof").pc = "idle"
        /\ Returned(c, "error").pc = "idle" /\ Returned(d, "complete").pc = "idle"
    BY <1>1, <1>2, <1>3, ReturnedFields
  <1>. QED BY <1>4, <1>5 DEF Idle

(* The data of the buffer is still there, at the same place. *)
Appended == /\ buf'.pos = buf.pos
            /\ buf.len <= buf'.len
            /\ \A i \in 1..buf.len : buf'.vec[i] = buf.vec[i]

LEMMA FillStepAppends ==
  ASSUME Inductive, FillStep
  PROVE  Appended
  <1>1. /\ WellFormed(buf) /\ FillInvariant /\ buf.len \in Nat /\ inner \in Nat
    BY StateFacts DEF Inductive
  <1>2. CASE Finish \/ ReadNothing
    <2>1. ~Idle /\ (buf' = buf \/ buf' = ShrinkTargeted(buf, call.start))
      BY <1>2 DEF Finish, ReadNothing, Idle
    <2>. QED BY <1>1, <2>1, ShrinkAfterFill DEF Appended
  <1>3. CASE Abandoned \/ Capped \/ ReadFailed \/ ReadInterrupted
    BY <1>1, <1>3 DEF Abandoned, Capped, ReadFailed, ReadInterrupted, fillVars, Appended
  <1>4. CASE PrepareRead
    <2>1. buf' = GrownForRead(buf, GrowthLimit)
      BY <1>4 DEF PrepareRead
    <2>2. /\ buf'.len = buf.len /\ buf'.pos = buf.pos
          /\ \A i \in 1..buf.len : buf'.vec[i] = buf.vec[i]
      BY <1>1, <2>1, LimitType, GrownWellFormed
    <2>. QED BY <1>1, <2>2 DEF Appended
  <1>5. ASSUME NEW n \in 1..StreamLen, ReadBytes(n)
        PROVE  Appended
    <2>1. n \in Nat
      BY SourceAssumption
    <2>2. buf' = Absorb(buf, n, inner) /\ buf.len + n <= buf.cap
      BY <1>1, <1>5, <2>1, ReadFits DEF ReadBytes
    <2>3. /\ buf'.len = buf.len + n /\ buf'.pos = buf.pos
          /\ \A i \in 1..buf.len : buf'.vec[i] = buf.vec[i]
      BY <1>1, <2>1, <2>2, AbsorbWellFormed
    <2>. QED BY <1>1, <2>1, <2>3 DEF Appended
  <1>. QED BY <1>2, <1>3, <1>4, <1>5 DEF FillStep

LEMMA StartAppends ==
  ASSUME Inductive, StartCall, Idle, ~Idle'
  PROVE  Appended
  <1>1. /\ WellFormed(buf) /\ buf.len \in Nat /\ MAX_SUPPORTED_CAPACITY \in Nat /\ call' # call
    BY StateFacts, Ceiling DEF Idle
  <1>2. CASE buf' = buf
    BY <1>1, <1>2 DEF Appended
  <1>3. ASSUME NEW amt \in Amounts, StartFillAmount(amt), ~TooMuch(amt)
        PROVE  Appended
    <2>1. amt \in Nat /\ amt <= MAX_SUPPORTED_CAPACITY - buf.len
      BY <1>1, <1>3, ClientAssumption DEF TooMuch
    <2>2. buf' = GrowTargetedLinear(buf, buf.len + amt)
      BY <1>3 DEF StartFillAmount
    <2>. QED BY <1>1, <2>1, <2>2, RoomForAmount DEF Appended
  <1>4. ASSUME NEW amt \in Amounts,
               \/ FillExactInvalid(amt) \/ FillExactDone(amt)
               \/ \E n \in 0..amt : FillExactFailed(amt, n, "eof") \/ FillExactFailed(amt, n, "error")
        PROVE  Idle'
    BY <1>4, FillExactReturns
  <1>. QED BY <1>2, <1>3, <1>4 DEF StartCall, StartFill, StartFillAmount

(***************************************************************************)
(* A fill leaves what the buffer retained, and the read position, where    *)
(* they were, whatever it grows, shrinks, reads or fails at.               *)
(***************************************************************************)
THEOREM FillsOnlyAppendHolds == Spec => FillsOnlyAppend
  <1>1. Inductive /\ [Next]_vars =>
          [~Idle \/ ~Idle' => /\ buf'.pos = buf.pos
                              /\ buf.len <= buf'.len
                              /\ SubSeq(buf'.vec, 1, buf.len) = Buf(buf)]_vars
    <2> SUFFICES ASSUME Inductive, Next, ~Idle \/ ~Idle'
                 PROVE  /\ buf'.pos = buf.pos
                        /\ buf.len <= buf'.len
                        /\ SubSeq(buf'.vec, 1, buf.len) = Buf(buf)
      OBVIOUS
    <2>1. ~Manage
      BY ManagesIdle
    <2>2. ASSUME StartCall PROVE Appended
      BY <2>2, StartAppends, StartsIdle
    <2>3. ASSUME FillStep PROVE Appended
      BY <2>3, FillStepAppends
    <2>4. Appended
      BY <2>1, <2>2, <2>3 DEF Next, Fill
    <2>5. Inductive'
      BY StepInductive
    <2>6. /\ buf.vec \in Seq(Nat) /\ buf.len \in Nat /\ buf.len <= Len(buf.vec)
      BY StateFacts
    <2>7. buf'.vec \in Seq(Nat) /\ buf'.len \in Nat /\ buf'.len <= Len(buf'.vec)
      BY <2>5, Fields DEF Inductive, FillInvariant
    <2>8. SubSeq(buf'.vec, 1, buf.len) = SubSeq(buf.vec, 0 + 1, 0 + buf.len)
      <3>1. /\ 0 \in Nat /\ buf.len <= Len(buf'.vec) /\ 0 + buf.len <= Len(buf.vec)
            /\ \A i \in 1..buf.len : buf'.vec[i] = buf.vec[0 + i]
        BY <2>4, <2>6, <2>7 DEF Appended
      <3>. QED BY <2>6, <2>7, <3>1, SameStretch
    <2>9. 0 + 1 = 1 /\ 0 + buf.len = buf.len
      BY <2>6
    <2>. QED BY <2>4, <2>8, <2>9 DEF Appended, Buf
  <1>. QED BY <1>1, InductiveHolds, PTL DEF Spec, FillsOnlyAppend

-----------------------------------------------------------------------------
(***************************************************************************)
(* What a running fill knows besides Running, and what its answer will     *)
(* rest on: which capacity it has, that there is room to read into, and    *)
(* that no delimiter stands before check_pos.                              *)
(***************************************************************************)
HasRoom == buf.len < buf.cap \/ (call.limit = NoLimit /\ buf.len = MAX_SUPPORTED_CAPACITY)

Searched == /\ buf.pos <= call.check /\ call.check <= buf.len
            /\ \A i \in (buf.pos + 1)..call.check : buf.vec[i] \notin Delimiters
            /\ call.pc = "read" => call.check = buf.len

Underway ==
  ~Idle =>
    /\ call.result = "none"
    /\ call.op = "fill" => buf.cap = call.start
    /\ call.op = "fill_amount" => buf.cap = Larger(call.start, CapUpLinear(call.first + call.amt))
    /\ call.limit # NoLimit => buf.cap <= Larger(call.start, CapUpLinear(call.limit))
    /\ call.pc = "read" => HasRoom
    /\ call.op = "fill_until" => Searched

(* The fields that a start sets. *)
LEMMA UnderwayStart ==
  ASSUME Inductive, StartCall
  PROVE  Underway'
  <1>1. /\ WellFormed(buf) /\ buf.len \in Nat /\ buf.cap \in Nat /\ buf.pos \in Nat
        /\ buf.pos <= buf.len /\ buf.cap \in Capacities /\ MAX_SUPPORTED_CAPACITY \in Nat
    BY StateFacts, Ceiling
  <1>2. /\ {"fill", "fill_to_end", "fill_while", "fill_until", "fill_until_str"} \subseteq Ops
        /\ Limits \subseteq Nat \cup {NoLimit} /\ NoLimit \in Nat \cup {NoLimit} /\ Amounts \subseteq Nat
    BY ClientAssumption DEF Ops
  <1>3. ASSUME NEW op \in {"fill", "fill_to_end", "fill_while", "fill_until", "fill_until_str"},
               NEW limit \in Nat \cup {NoLimit}, StartFill(op, limit)
        PROVE  Underway'
    <2>1. /\ call'.op = op /\ call'.limit = limit /\ call'.pc = "check"
          /\ call'.start = buf.cap /\ call'.check = buf.pos /\ call'.result = "none"
      BY <1>3 DEF StartFill, Called
    <2>2. buf' = buf
      BY <1>3 DEF StartFill
    <2>3. limit # NoLimit => CapUpLinear(limit) \in Nat
      BY LinearUp, CapacityChunks
    <2>4. call'.limit # NoLimit => buf'.cap <= Larger(call'.start, CapUpLinear(call'.limit))
      BY <1>1, <2>1, <2>2, <2>3 DEF Larger
    <2>5. Searched'
      BY <1>1, <2>1, <2>2 DEF Searched
    <2>. QED BY <2>1, <2>2, <2>4, <2>5 DEF Underway
  <1>4. ASSUME NEW amt \in Amounts, StartFillAmount(amt), ~TooMuch(amt)
        PROVE  Underway'
    <2>1. /\ call'.op = "fill_amount" /\ call'.limit = NoLimit /\ call'.pc = "check"
          /\ call'.start = buf.cap /\ call'.first = buf.len /\ call'.amt = amt
          /\ call'.result = "none"
      BY <1>4 DEF StartFillAmount, Called
    <2>2. buf' = GrowTo(buf, CapUpLinear(buf.len + amt))
      BY <1>4 DEF StartFillAmount, GrowTargetedLinear
    <2>3. CapUpLinear(buf.len + amt) \in Capacities
      BY <1>1, <1>2, LinearUp
    <2>4. buf'.cap = Larger(buf.cap, CapUpLinear(buf.len + amt))
      BY <1>1, <2>2, <2>3, GrowToWellFormed
    <2>. QED BY <2>1, <2>4 DEF Underway
  <1>5. ASSUME Idle' PROVE Underway'
    BY <1>5 DEF Underway
  <1>6. ASSUME NEW amt \in Amounts, StartFillAmount(amt), TooMuch(amt)
        PROVE  Idle'
    <2>1. Called(buf, "fill_amount", amt, NoLimit) \in CallType /\ "invalid" \in Results
      <3>1. "fill_amount" \in Ops /\ amt \in Nat
        BY <1>2 DEF Ops
      <3>. QED BY <1>2, <3>1, CalledType DEF Results
    <2>. QED BY <1>6, <2>1, ReturnedFields DEF StartFillAmount, Idle
  <1>. QED BY <1>2, <1>3, <1>4, <1>5, <1>6, FillExactReturns DEF StartCall

(***************************************************************************)
(* Each step of a running fill keeps what it knows.                        *)
(***************************************************************************)
LEMMA UnderwayPrepare ==
  ASSUME Inductive, Underway, PrepareRead
  PROVE  Underway'
  <1> DEFINE g == GrownForRead(buf, GrowthLimit)
  <1>1. /\ WellFormed(buf) /\ FillInvariant /\ buf.len \in Nat /\ buf.cap \in Nat /\ buf.pos \in Nat
        /\ call \in CallType /\ call.check \in Nat /\ call.start \in Nat
        /\ call.limit \in Nat \cup {NoLimit} /\ Running
    BY StateFacts DEF Inductive, PrepareRead, Idle
  <1>2. ~Idle /\ ~IsCapped(buf, GrowthLimit) /\ buf' = g /\ call.pc = "check" /\ ~MustStop
    BY DEF PrepareRead, Idle
  <1>3. GrowthLimit \in Nat \cup {NoLimit}
    BY <1>1, LimitType
  <1>4. /\ WellFormed(g) /\ SliceInRange(g) /\ buf.cap <= g.cap /\ g.len = buf.len
        /\ g.pos = buf.pos /\ \A i \in 1..buf.len : g.vec[i] = buf.vec[i]
    BY <1>1, <1>3, GrownWellFormed
  <1>5. /\ GrowthLimit # NoLimit => g.cap <= Larger(buf.cap, CapUpLinear(GrowthLimit))
        /\ buf.len < g.cap \/ (GrowthLimit = NoLimit /\ buf.len = MAX_SUPPORTED_CAPACITY)
    BY <1>1, <1>2, <1>3, GrownRoom
  <1>6. g.cap \in Nat
    BY <1>4, Fields
  <1> HIDE DEF g
  <1>7. /\ call' = [call EXCEPT !.pc = "read",
                                !.check = IF call.op = "fill_until" THEN buf.len ELSE @]
    BY <1>2, <1>4 DEF PrepareRead
  <1>8. /\ call'.pc = "read" /\ call'.op = call.op /\ call'.amt = call.amt
        /\ call'.limit = call.limit /\ call'.start = call.start /\ call'.first = call.first
        /\ call'.result = call.result
        /\ call.op = "fill_until" => call'.check = buf.len
    BY <1>1, <1>7 DEF CallType
  <1>9. call.op \in {"fill", "fill_amount"} => g.cap = buf.cap /\ buf.len < g.cap
    <2> SUFFICES ASSUME call.op \in {"fill", "fill_amount"}
                 PROVE  g.cap = buf.cap /\ buf.len < g.cap
      OBVIOUS
    <2>1. GrowthLimit = buf.cap /\ GrowthLimit # NoLimit
      BY <1>1, NoLimitAssumption DEF GrowthLimit
    <2>2. buf.cap \in Capacities
      BY <1>1, Fields
    <2>3. CapUpLinear(GrowthLimit) = buf.cap
      BY <2>1, <2>2, Aligned
    <2>. QED BY <1>1, <1>4, <1>5, <1>6, <2>1, <2>3 DEF Larger
  <1>10. ~(call.op \in {"fill", "fill_amount"}) => GrowthLimit = call.limit
    BY DEF GrowthLimit
  <1>11. call.limit # NoLimit => g.cap <= Larger(call.start, CapUpLinear(call.limit))
    <2>1. call.limit # NoLimit => CapUpLinear(call.limit) \in Nat
      BY <1>1, LinearUp, CapacityChunks
    <2>2. call.limit # NoLimit => buf.cap <= Larger(call.start, CapUpLinear(call.limit))
      BY <1>2 DEF Underway
    <2>. QED BY <1>1, <1>5, <1>6, <1>9, <1>10, <2>1, <2>2 DEF Larger
  <1>12. buf.len < g.cap \/ (call.limit = NoLimit /\ buf.len = MAX_SUPPORTED_CAPACITY)
    BY <1>5, <1>9, <1>10
  <1>13. call.op = "fill_until" => Searched'
    <2> SUFFICES ASSUME call.op = "fill_until" PROVE Searched'
      OBVIOUS
    <2>1. ~FoundFrom(buf, call.check) /\ Searched
      BY <1>2 DEF MustStop, MayStop, Open, Underway
    <2>2. \A i \in (buf.pos + 1)..buf.len : buf.vec[i] \notin Delimiters
      BY <1>1, <2>1 DEF FoundFrom, Searched
    <2>3. buf.pos <= buf.len
      BY <1>1, Fields
    <2>. QED BY <1>1, <1>2, <1>4, <1>8, <2>2, <2>3 DEF Searched
  <1>. QED BY <1>2, <1>4, <1>8, <1>9, <1>11, <1>12, <1>13 DEF Underway, HasRoom

LEMMA UnderwayBytes ==
  ASSUME Inductive, Underway, NEW n \in 1..StreamLen, ReadBytes(n), ~Idle'
  PROVE  Underway'
  <1>1. /\ WellFormed(buf) /\ buf.len \in Nat /\ buf.cap \in Nat /\ buf.pos \in Nat
        /\ call \in CallType /\ call.check \in Nat /\ call.total \in Nat
        /\ inner \in Nat /\ n \in Nat
    BY StateFacts, SourceAssumption
  <1>2. ~Idle /\ call.pc = "read" /\ buf' = Absorb(buf, n, inner) /\ buf.len + n <= buf.cap
    BY <1>1, ReadFits DEF ReadBytes, Idle
  <1>3. /\ buf'.cap = buf.cap /\ buf'.len = buf.len + n /\ buf'.pos = buf.pos
        /\ \A i \in 1..buf.len : buf'.vec[i] = buf.vec[i]
    <2>1. /\ Absorb(buf, n, inner).cap = buf.cap /\ Absorb(buf, n, inner).len = buf.len + n
          /\ Absorb(buf, n, inner).pos = buf.pos
          /\ \A i \in 1..buf.len : Absorb(buf, n, inner).vec[i] = buf.vec[i]
      BY <1>1, <1>2, AbsorbWellFormed
    <2>. QED BY <1>2, <2>1
  <1> DEFINE c == [call EXCEPT !.total = call.total + n, !.pc = "check"]
  <1>4. /\ c \in CallType /\ c.pc = "check" /\ c.op = call.op /\ c.amt = call.amt
        /\ c.limit = call.limit /\ c.start = call.start /\ c.first = call.first
        /\ c.check = call.check /\ c.result = call.result
    <2>1. call.total + n \in Nat
      BY <1>1
    <2>. QED BY <1>1, <2>1 DEF CallType
  <1>5. call' = IF call.op = "fill" THEN Returned(c, "complete") ELSE c
    BY DEF ReadBytes
  <1> HIDE DEF c
  <1>6. call' = c
    BY <1>4, <1>5, ReturnedFields DEF Idle, Results
  <1>7. call.op = "fill_until" => Searched'
    BY <1>1, <1>2, <1>3, <1>4, <1>6 DEF Underway, Searched
  <1>. QED BY <1>2, <1>3, <1>4, <1>6, <1>7 DEF Underway

LEMMA UnderwayStep ==
  ASSUME Inductive, Underway, FillStep
  PROVE  Underway'
  <1>1. CASE Idle'
    BY <1>1 DEF Underway
  <1>2. CASE ReadInterrupted
    BY <1>2 DEF ReadInterrupted, fillVars, Underway, HasRoom, Searched, Idle
  <1>3. CASE PrepareRead
    BY <1>3, UnderwayPrepare
  <1>4. ASSUME NEW n \in 1..StreamLen, ReadBytes(n), ~Idle'
        PROVE  Underway'
    BY <1>4, UnderwayBytes
  <1>5. ASSUME Finish \/ Abandoned \/ Capped \/ ReadFailed \/ ReadNothing
        PROVE  Idle'
    <2>1. call \in CallType
      BY StateFacts
    <2>2. \E result \in Results : call' = Returned(call, result)
      BY <1>5 DEF Finish, Abandoned, Capped, ReadFailed, ReadNothing, Results
    <2>. QED BY <2>1, <2>2, ReturnedFields DEF Idle
  <1>. QED BY <1>1, <1>2, <1>3, <1>4, <1>5 DEF FillStep

-----------------------------------------------------------------------------
(* What the call answered, and what it left, once it has returned. *)
Answers == /\ CountIsExact
           /\ DelimiterVerdict
           /\ LimitRespected
           /\ CapacityAfterFill
           /\ EofIsEnd

(* A running fill has answered nothing yet, and what it knows is enough.   *)
LEMMA NoAnswerYet ==
  ASSUME Inductive, Underway, ~Idle
  PROVE  Answers
  <1>1. /\ call.result = "none" /\ call.op # "fill_exact" /\ Running
        /\ call.total \in Nat /\ call.first \in Nat /\ call.pc # "idle"
    BY StateFacts DEF Underway, Running, Idle
  <1>2. CountIsExact
    BY <1>1 DEF CountIsExact, Running
  <1>3. LimitRespected
    BY <1>1 DEF LimitRespected, Underway
  <1>. QED BY <1>1, <1>2, <1>3 DEF Answers, DelimiterVerdict, CapacityAfterFill, EofIsEnd

(***************************************************************************)
(* A fill that returns without another read answers truly when each part   *)
(* of its answer rests on what the fill knew.                              *)
(***************************************************************************)
LEMMA Returning ==
  ASSUME Inductive, Underway, ~Idle,
         NEW result \in Results \ {"none"}, call' = Returned(call, result), inner' = inner,
         buf'.len = buf.len, buf'.pos = buf.pos, \A i \in 1..buf.len : buf'.vec[i] = buf.vec[i],
         buf'.cap \in Nat, buf'.cap <= buf.cap,
         call.op = "fill_amount" /\ result = "complete" => call.total >= call.amt,
         call.op = "fill_until" /\ result \in {"complete", "eof", "capped"} =>
           (result = "complete" <=> FoundFrom(buf, buf.pos)),
         result = "capped" =>
           /\ call.limit # NoLimit
           /\ IsFull(buf) /\ buf.cap >= CapUpLinear(call.limit) /\ buf'.cap = buf.cap,
         result \in {"complete", "eof"} =>
           IF call.op = "fill" \/ (call.op = "fill_amount" /\ result = "complete")
           THEN buf'.cap = buf.cap
           ELSE buf'.cap = Larger(call.start, CapUpLinear(buf.len)),
         result = "eof" =>
           Remaining = 0 \/ (call.limit = NoLimit /\ buf.len = MAX_SUPPORTED_CAPACITY)
  PROVE  Answers'
  <1>1. /\ call'.pc = "idle" /\ call'.result = result /\ call'.op = call.op
        /\ call'.amt = call.amt /\ call'.limit = call.limit /\ call'.start = call.start
        /\ call'.first = call.first /\ call'.total = call.total
    BY StateFacts, ReturnedFields
  <1>2. /\ buf.len \in Nat /\ buf.pos \in Nat /\ buf.cap \in Nat /\ Running
        /\ call.first \in Nat /\ call.total \in Nat /\ call.start \in Nat
        /\ call.limit \in Nat \cup {NoLimit}
    BY StateFacts
  <1>3. CountIsExact'
    BY <1>1, <1>2 DEF CountIsExact, Running
  <1>4. DelimiterVerdict'
    <2>1. FoundFrom(buf, buf.pos)' <=> FoundFrom(buf, buf.pos)
      BY <1>2 DEF FoundFrom
    <2>. QED BY <1>1, <2>1 DEF DelimiterVerdict
  <1>5. LimitRespected'
    <2>1. call.limit # NoLimit =>
            /\ CapUpLinear(call.limit) \in Nat
            /\ buf.cap <= Larger(call.start, CapUpLinear(call.limit))
      BY <1>2, LinearUp, CapacityChunks DEF Underway
    <2>2. call.limit # NoLimit => buf'.cap <= Larger(call.start, CapUpLinear(call.limit))
      BY <1>2, <2>1 DEF Larger
    <2>. QED BY <1>1, <2>2 DEF LimitRespected, IsFull
  <1>6. CapacityAfterFill'
    <2>1. /\ call.op = "fill" => buf.cap = call.start
          /\ call.op = "fill_amount" => buf.cap = Larger(call.start, CapUpLinear(call.first + call.amt))
          /\ call.op # "fill_exact"
      BY <1>2 DEF Underway, Running
    <2>. QED BY <1>1, <2>1 DEF CapacityAfterFill
  <1>7. EofIsEnd'
    BY <1>1 DEF EofIsEnd, Remaining
  <1>. QED BY <1>3, <1>4, <1>5, <1>6, <1>7 DEF Answers

(* The condition that ends the loop. *)
LEMMA FinishAnswers ==
  ASSUME Inductive, Underway, Finish
  PROVE  Answers'
  <1> DEFINE g == ShrinkTargeted(buf, call.start)
  <1>1. ~Idle /\ MayStop /\ call' = Returned(call, "complete") /\ inner' = inner
        /\ buf' = IF call.op = "fill_amount" THEN buf ELSE g
    BY DEF Finish, Idle
  <1>2. /\ g.cap = Larger(call.start, CapUpLinear(buf.len)) /\ g.cap <= buf.cap
        /\ g.len = buf.len /\ g.pos = buf.pos /\ \A i \in 1..buf.len : g.vec[i] = buf.vec[i]
    BY <1>1, ShrinkAfterFill DEF Inductive
  <1>3. /\ WellFormed(buf) /\ FillInvariant /\ buf.cap \in Nat /\ buf.len \in Nat /\ buf.pos \in Nat
        /\ call.start \in Nat /\ call.check \in Nat /\ CapUpLinear(buf.len) \in Nat
    BY StateFacts, LinearUp, CapacityChunks DEF Inductive
  <1> HIDE DEF g
  <1>4. /\ buf'.len = buf.len /\ buf'.pos = buf.pos /\ \A i \in 1..buf.len : buf'.vec[i] = buf.vec[i]
        /\ buf'.cap \in Nat /\ buf'.cap <= buf.cap
    BY <1>1, <1>2, <1>3 DEF Larger
  <1>5. call.op = "fill_amount" => call.total >= call.amt
    BY <1>1 DEF MayStop, Open
  <1>6. call.op = "fill_until" => FoundFrom(buf, buf.pos)
    <2>1. call.op = "fill_until" => FoundFrom(buf, call.check) /\ Searched
      BY <1>1 DEF MayStop, Open, Underway
    <2>. QED BY <1>3, <2>1 DEF FoundFrom, Searched
  <1>7. call.op # "fill"
    BY <1>1 DEF MayStop, Open
  <1>8. "complete" \in Results \ {"none"}
    BY DEF Results
  <1>9. IF call.op = "fill" \/ call.op = "fill_amount"
        THEN buf'.cap = buf.cap ELSE buf'.cap = Larger(call.start, CapUpLinear(buf.len))
    BY <1>1, <1>2, <1>7
  <1>. QED BY <1>1, <1>4, <1>5, <1>6, <1>8, <1>9, Returning

(* The predicate unwound, or the source failed. *)
LEMMA ErrorAnswers ==
  ASSUME Inductive, Underway, Abandoned \/ ReadFailed
  PROVE  Answers'
  <1>1. ~Idle /\ call' = Returned(call, "error") /\ inner' = inner /\ buf' = buf
    BY DEF Abandoned, ReadFailed, Idle
  <1>2. buf.cap \in Nat /\ buf.cap <= buf.cap
    BY StateFacts
  <1>3. "error" \in Results \ {"none"}
    BY DEF Results
  <1>. QED BY <1>1, <1>2, <1>3, Returning

(* The limit was met. *)
LEMMA CappedAnswers ==
  ASSUME Inductive, Underway, Capped
  PROVE  Answers'
  <1>1. ~Idle /\ inner' = inner /\ buf' = buf /\ ~MustStop /\ IsCapped(buf, GrowthLimit)
    BY DEF Capped, Idle
  <1>2. /\ buf.cap \in Nat /\ buf.cap <= buf.cap /\ buf.len \in Nat /\ buf.pos \in Nat
        /\ call.check \in Nat /\ call.limit \in Nat \cup {NoLimit} /\ call \in CallType
    BY StateFacts
  <1>3. call.op \notin {"fill_amount", "fill_to_end"}
    <2>1. call'.result # "panic"
      BY CappedHolds DEF Inductive, FillInvariant, NoPanic
    <2>2. call.op \in {"fill_amount", "fill_to_end"} => call' = Returned(call, "panic")
      BY DEF Capped
    <2>. QED BY <1>2, <2>1, <2>2, ReturnedFields DEF Results
  <1>4. CASE call.op = "fill"
    <2>1. call' = Returned(call, "complete") /\ "complete" \in Results \ {"none"}
      BY <1>4 DEF Capped, Results
    <2>. QED BY <1>1, <1>2, <1>4, <2>1, Returning
  <1>5. CASE call.op # "fill"
    <2>1. call' = Returned(call, "capped") /\ "capped" \in Results \ {"none"}
      BY <1>3, <1>5 DEF Capped, Results
    <2>2. GrowthLimit = call.limit /\ call.limit # NoLimit /\ call.limit \in Nat
      BY <1>1, <1>2, <1>3, <1>5 DEF GrowthLimit, IsCapped
    <2>3. IsFull(buf) /\ buf.cap >= CapUpLinear(call.limit)
      BY <1>1, <2>2, CappedFull
    <2>4. call.op = "fill_until" => ~FoundFrom(buf, buf.pos)
      <3>1. call.op = "fill_until" => ~FoundFrom(buf, call.check) /\ Searched
        BY <1>1 DEF MustStop, MayStop, Open, Underway
      <3>. QED BY <1>2, <3>1 DEF FoundFrom, Searched
    <2>. QED BY <1>1, <1>2, <2>1, <2>2, <2>3, <2>4, Returning
  <1>. QED BY <1>4, <1>5

(* Ok(0). *)
LEMMA NothingAnswers ==
  ASSUME Inductive, Underway, ReadNothing
  PROVE  Answers'
  <1> DEFINE g == ShrinkTargeted(buf, call.start)
  <1>1. ~Idle /\ call.pc = "read" /\ call' = Returned(call, "eof") /\ inner' = inner
        /\ buf' = IF call.op = "fill" THEN buf ELSE g
    BY DEF ReadNothing, Idle
  <1>2. /\ g.cap = Larger(call.start, CapUpLinear(buf.len)) /\ g.cap <= buf.cap
        /\ g.len = buf.len /\ g.pos = buf.pos /\ \A i \in 1..buf.len : g.vec[i] = buf.vec[i]
    BY <1>1, ShrinkAfterFill DEF Inductive
  <1>3. /\ buf.cap \in Nat /\ buf.len \in Nat /\ buf.pos \in Nat
        /\ call.start \in Nat /\ CapUpLinear(buf.len) \in Nat
    BY StateFacts, LinearUp, CapacityChunks
  <1> HIDE DEF g
  <1>4. /\ buf'.len = buf.len /\ buf'.pos = buf.pos /\ \A i \in 1..buf.len : buf'.vec[i] = buf.vec[i]
        /\ buf'.cap \in Nat /\ buf'.cap <= buf.cap
    BY <1>1, <1>2, <1>3 DEF Larger
  <1>5. call.op = "fill_until" => ~FoundFrom(buf, buf.pos)
    <2>1. call.op = "fill_until" => Searched /\ call.check = buf.len
      BY <1>1 DEF Underway, Searched
    <2>. QED BY <1>3, <2>1 DEF FoundFrom, Searched
  <1>6. Remaining = 0 \/ (call.limit = NoLimit /\ buf.len = MAX_SUPPORTED_CAPACITY)
    BY <1>1, <1>3 DEF ReadNothing, Underway, HasRoom
  <1>7. IF call.op = "fill"
        THEN buf'.cap = buf.cap ELSE buf'.cap = Larger(call.start, CapUpLinear(buf.len))
    BY <1>1, <1>2
  <1>8. "eof" \in Results \ {"none"}
    BY DEF Results
  <1>. QED BY <1>1, <1>4, <1>5, <1>6, <1>7, <1>8, Returning

(* fill returns with the bytes of its one read. *)
LEMMA BytesAnswer ==
  ASSUME Inductive, Underway, NEW n \in 1..StreamLen, ReadBytes(n), call.op = "fill"
  PROVE  Answers'
  <1>1. /\ WellFormed(buf) /\ buf.len \in Nat /\ call \in CallType /\ call.total \in Nat
        /\ call.first \in Nat /\ inner \in Nat /\ n \in Nat
    BY StateFacts, SourceAssumption
  <1>2. ~Idle /\ buf' = Absorb(buf, n, inner) /\ buf.len + n <= buf.cap
    BY <1>1, ReadFits DEF ReadBytes, Idle
  <1>3. Absorb(buf, n, inner).cap = buf.cap /\ Absorb(buf, n, inner).len = buf.len + n
    BY <1>1, <1>2, AbsorbWellFormed
  <1> DEFINE c == [call EXCEPT !.total = call.total + n, !.pc = "check"]
  <1>4. /\ c \in CallType /\ c.op = "fill" /\ c.start = call.start
        /\ c.first = call.first /\ c.total = call.total + n
    <2>1. call.total + n \in Nat
      BY <1>1
    <2>. QED BY <1>1, <2>1 DEF CallType
  <1>5. call' = Returned(c, "complete")
    BY DEF ReadBytes
  <1> HIDE DEF c
  <1>6. /\ call'.result = "complete" /\ call'.op = "fill" /\ call'.start = call.start
        /\ call'.first = call.first /\ call'.total = call.total + n
    BY <1>4, <1>5, ReturnedFields DEF Results
  <1>7. buf.len = call.first + call.total /\ buf.cap = call.start
    BY <1>2, StateFacts DEF Running, Underway
  <1>8. buf'.len = buf.len + n /\ buf'.cap = buf.cap
    BY <1>2, <1>3
  <1>9. CountIsExact'
    BY <1>1, <1>6, <1>7, <1>8 DEF CountIsExact
  <1>10. CapacityAfterFill'
    BY <1>6, <1>7, <1>8 DEF CapacityAfterFill
  <1>. QED BY <1>6, <1>9, <1>10 DEF Answers, DelimiterVerdict, LimitRespected, EofIsEnd

-----------------------------------------------------------------------------
(* Calls that return in the step that starts them. *)
LEMMA RefusedAnswers ==
  ASSUME Inductive, NEW amt \in Amounts,
         \/ StartFillAmount(amt) /\ TooMuch(amt)
         \/ FillExactInvalid(amt)
         \/ \E n \in 0..amt : FillExactFailed(amt, n, "error")
  PROVE  Answers'
  <1>1. /\ amt \in Nat /\ {"fill_amount", "fill_exact"} \subseteq Ops
        /\ {"invalid", "error"} \subseteq Results
    BY ClientAssumption DEF Ops, Results
  <1>2. \E op \in {"fill_amount", "fill_exact"}, result \in {"invalid", "error"} :
          call' = Returned(Called(buf, op, amt, NoLimit), result)
    BY DEF StartFillAmount, FillExactInvalid, FillExactFailed
  <1>3. PICK op \in {"fill_amount", "fill_exact"}, result \in {"invalid", "error"} :
          call' = Returned(Called(buf, op, amt, NoLimit), result)
    BY <1>2
  <1>4. Called(buf, op, amt, NoLimit) \in CallType /\ Called(buf, op, amt, NoLimit).op = op
    <2>1. op \in Ops /\ amt \in Nat
      BY <1>1
    <2>2. Called(buf, op, amt, NoLimit) \in CallType
      BY <2>1, CalledType
    <2>. QED BY <2>2 DEF Called
  <1>5. call'.result = result /\ call'.op = op
    BY <1>1, <1>3, <1>4, ReturnedFields
  <1>. QED BY <1>5 DEF Answers, CountIsExact, DelimiterVerdict, LimitRespected,
                        CapacityAfterFill, EofIsEnd

LEMMA ExactAnswers ==
  ASSUME Inductive, NEW amt \in Amounts, FillExactDone(amt)
  PROVE  Answers'
  <1>1. /\ amt \in Nat /\ "fill_exact" \in Ops /\ "complete" \in Results
    BY ClientAssumption DEF Ops, Results
  <1>2. /\ WellFormed(buf) /\ buf.len \in Nat /\ buf.cap \in Nat /\ inner \in Nat
        /\ MAX_SUPPORTED_CAPACITY \in Nat
    BY StateFacts, Ceiling
  <1> DEFINE c == Called(buf, "fill_exact", amt, NoLimit)
             d == [c EXCEPT !.total = amt]
  <1>3. c \in CallType /\ c.op = "fill_exact" /\ c.amt = amt /\ c.start = buf.cap /\ c.first = buf.len
    <2>1. c \in CallType
      BY <1>1, CalledType
    <2>. QED BY <2>1 DEF Called
  <1>4. call' = Returned(d, "complete")
    BY DEF FillExactDone
  <1> HIDE DEF c
  <1>5. d \in CallType /\ d.op = "fill_exact" /\ d.amt = amt /\ d.start = buf.cap /\ d.first = buf.len
    BY <1>1, <1>3 DEF CallType
  <1> HIDE DEF d
  <1>6. /\ call'.result = "complete" /\ call'.op = "fill_exact" /\ call'.amt = amt
        /\ call'.start = buf.cap /\ call'.first = buf.len
    BY <1>1, <1>4, <1>5, ReturnedFields
  <1>7. buf'.cap = Larger(buf.cap, CapUpLinear(buf.len + amt))
    <2>1. amt <= MAX_SUPPORTED_CAPACITY - buf.len /\ buf' = Absorb(FillExactGrown(amt), amt, inner)
      BY <1>1, <1>2 DEF FillExactDone, TooMuch
    <2>2. /\ FillExactGrown(amt) = GrowTargetedLinear(buf, buf.len + amt)
          /\ FillExactGrown(amt) = GrowTo(buf, CapUpLinear(buf.len + amt))
      BY DEF FillExactGrown, GrowTargetedLinear
    <2>3. CapUpLinear(buf.len + amt) \in Capacities
      BY <1>1, <1>2, LinearUp
    <2>4. FillExactGrown(amt).cap = Larger(buf.cap, CapUpLinear(buf.len + amt))
      BY <1>2, <2>2, <2>3, GrowToWellFormed
    <2>5. /\ WellFormed(FillExactGrown(amt)) /\ FillExactGrown(amt).len = buf.len
          /\ buf.len + amt <= FillExactGrown(amt).cap
      BY <1>1, <1>2, <2>1, <2>2, RoomForAmount
    <2>6. Absorb(FillExactGrown(amt), amt, inner).cap = FillExactGrown(amt).cap
      BY <1>1, <1>2, <2>5, AbsorbWellFormed
    <2>. QED BY <2>1, <2>4, <2>6
  <1>. QED BY <1>6, <1>7 DEF Answers, CountIsExact, DelimiterVerdict, LimitRespected,
                              CapacityAfterFill, EofIsEnd

LEMMA CutOffAnswers ==
  ASSUME Inductive, NEW amt \in Amounts, NEW n \in 0..amt, FillExactFailed(amt, n, "eof")
  PROVE  Answers'
  <1>1. /\ amt \in Nat /\ "fill_exact" \in Ops /\ "eof" \in Results
    BY ClientAssumption DEF Ops, Results
  <1>2. Called(buf, "fill_exact", amt, NoLimit) \in CallType
        /\ Called(buf, "fill_exact", amt, NoLimit).op = "fill_exact"
    <2>1. Called(buf, "fill_exact", amt, NoLimit) \in CallType
      BY <1>1, CalledType
    <2>. QED BY <2>1 DEF Called
  <1>3. call' = Returned(Called(buf, "fill_exact", amt, NoLimit), "eof")
    BY DEF FillExactFailed
  <1>4. call'.result = "eof" /\ call'.op = "fill_exact"
    BY <1>1, <1>2, <1>3, ReturnedFields
  <1>5. Remaining' = 0
    <2>1. inner \in Nat /\ StreamLen \in Nat /\ inner' = inner + n /\ n = Remaining
      BY StateFacts, SourceAssumption DEF FillExactFailed
    <2>. QED BY <2>1 DEF Remaining
  <1>. QED BY <1>4, <1>5 DEF Answers, CountIsExact, DelimiterVerdict, LimitRespected,
                              CapacityAfterFill, EofIsEnd

-----------------------------------------------------------------------------
(***************************************************************************)
(* The invariant behind the answers: what a running fill knows, and what a *)
(* call that has returned answered.                                        *)
(***************************************************************************)
Sound == Inductive /\ Underway /\ (Idle => Answers)

LEMMA StepAnswers ==
  ASSUME Inductive, Underway, Next, Idle'
  PROVE  Answers'
  <1>1. CASE Manage
    <2>1. call' = NoCall
      BY <1>1, ManagesIdle
    <2>2. NoCall.op = "none" /\ NoCall.result = "none"
      BY DEF NoCall
    <2>. QED BY <2>1, <2>2 DEF Answers, CountIsExact, DelimiterVerdict, LimitRespected,
                               CapacityAfterFill, EofIsEnd
  <1>2. CASE StartCall
    <2>1. ASSUME NEW op, NEW limit, StartFill(op, limit)
          PROVE  FALSE
      <3>1. call'.pc = "check"
        BY <2>1 DEF StartFill, Called
      <3>. QED BY <3>1 DEF Idle
    <2>2. ASSUME NEW amt \in Amounts, StartFillAmount(amt)
          PROVE  TooMuch(amt)
      <3>1. ~TooMuch(amt) => call'.pc = "check"
        BY <2>2 DEF StartFillAmount, Called
      <3>. QED BY <3>1 DEF Idle
    <2>. QED BY <1>2, <2>1, <2>2, RefusedAnswers, ExactAnswers, CutOffAnswers DEF StartCall
  <1>3. CASE FillStep
    <2>1. CASE Finish
      BY <2>1, FinishAnswers
    <2>2. CASE Abandoned \/ ReadFailed
      BY <2>2, ErrorAnswers
    <2>3. CASE Capped
      BY <2>3, CappedAnswers
    <2>4. CASE ReadNothing
      BY <2>4, NothingAnswers
    <2>5. ASSUME NEW n \in 1..StreamLen, ReadBytes(n)
          PROVE  call.op = "fill"
      <3>1. call \in CallType
        BY StateFacts
      <3>2. call.op # "fill" => call'.pc = "check"
        BY <2>5, <3>1 DEF ReadBytes, CallType
      <3>. QED BY <3>2 DEF Idle
    <2>6. ASSUME ReadInterrupted
          PROVE  FALSE
      BY <2>6 DEF ReadInterrupted, fillVars, Idle
    <2>7. ASSUME PrepareRead
          PROVE  FALSE
      <3>1. FillInvariant /\ WellFormed(buf) /\ GrowthLimit \in Nat \cup {NoLimit} /\ call \in CallType
        BY LimitType DEF Inductive, FillInvariant
      <3>2. buf' = GrownForRead(buf, GrowthLimit) /\ SliceInRange(GrownForRead(buf, GrowthLimit))
        BY <2>7, <3>1, GrownWellFormed DEF PrepareRead
      <3>3. \E k : call' = [call EXCEPT !.pc = "read", !.check = k]
        BY <2>7, <3>2 DEF PrepareRead
      <3>. QED BY <3>1, <3>3 DEF Idle, CallType
    <2>. QED BY <1>3, <2>1, <2>2, <2>3, <2>4, <2>5, <2>6, <2>7, BytesAnswer DEF FillStep
  <1>. QED BY <1>1, <1>2, <1>3 DEF Next, Fill

(* The answers of every call, for any chunk size, source and client. *)
THEOREM AnswersHold == Spec => []Answers
  <1>1. Init => Sound
    <2> SUFFICES ASSUME Init PROVE Sound
      OBVIOUS
    <2>1. Inductive
      BY InitInductive
    <2>2. call = NoCall
      BY DEF Init
    <2>3. NoCall.op = "none" /\ NoCall.result = "none" /\ NoCall.pc = "idle"
      BY DEF NoCall
    <2>4. Answers
      BY <2>2, <2>3 DEF Answers, CountIsExact, DelimiterVerdict, LimitRespected,
                        CapacityAfterFill, EofIsEnd
    <2>. QED BY <2>1, <2>2, <2>3, <2>4 DEF Sound, Underway, Idle
  <1>2. Sound /\ [Next]_vars => Sound'
    <2> SUFFICES ASSUME Sound, [Next]_vars PROVE Sound'
      OBVIOUS
    <2>1. Inductive /\ Underway /\ Inductive'
      BY StepInductive DEF Sound
    <2>2. CASE UNCHANGED vars
      BY <2>1, <2>2 DEF vars, Sound, Underway, HasRoom, Searched, Idle, Answers, CountIsExact,
         DelimiterVerdict, FoundFrom, LimitRespected, IsFull, CapacityAfterFill, EofIsEnd, Remaining
    <2>3. CASE Next
      <3>1. Idle' => Answers'
        BY <2>1, <2>3, StepAnswers
      <3>2. Underway'
        <4>1. Manage => Idle'
          BY ManagesIdle
        <4>. QED BY <2>1, <2>3, <4>1, UnderwayStart, UnderwayStep DEF Next, Fill, Underway
      <3>. QED BY <2>1, <3>1, <3>2 DEF Sound
    <2>. QED BY <2>2, <2>3
  <1>3. Sound => Answers
    BY NoAnswerYet DEF Sound
  <1>. QED BY <1>1, <1>2, <1>3, PTL DEF Spec

(***************************************************************************)
(* The count that a fill returns is the number of bytes it appended, and   *)
(* fill_amount completes only with the amount asked for.                   *)
(***************************************************************************)
THEOREM CountIsExactHolds == Spec => []CountIsExact
  BY AnswersHold, PTL DEF Answers

(***************************************************************************)
(* fill_until answers Complete exactly when the delimiter is in the        *)
(* unconsumed region, although it searches every byte only once.           *)
(***************************************************************************)
THEOREM DelimiterVerdictHolds == Spec => []DelimiterVerdict
  BY AnswersHold, PTL DEF Answers

(* A growth limit is never exceeded, and Capped means full at the limit.   *)
THEOREM LimitRespectedHolds == Spec => []LimitRespected
  BY AnswersHold, PTL DEF Answers

(* A fill gives back the capacity that its data does not need.             *)
THEOREM CapacityAfterFillHolds == Spec => []CapacityAfterFill
  BY AnswersHold, PTL DEF Answers

(***************************************************************************)
(* EOF is reported only when the source has ended, but for a fill without  *)
(* a limit that has filled the largest supported capacity.                 *)
(***************************************************************************)
THEOREM EofIsEndHolds == Spec => []EofIsEnd
  BY AnswersHold, PTL DEF Answers
=============================================================================
