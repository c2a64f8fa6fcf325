-------------------------- MODULE BufferFillProofs --------------------------
(***************************************************************************)
(* The invariant of the fill operations, for every chunk size, width of    *)
(* usize, source and delimiter set, and whoever calls them: starting a     *)
(* fill and every step of its loop preserve it.                            *)
(***************************************************************************)
EXTENDS BufferFill, BufferOpsProofs

(***************************************************************************)
(* What a running fill knows: the capacity it started with is still        *)
(* covered, its count is what it appended, and fill_amount has room for    *)
(* the whole amount, which is why read_once cannot be capped under it.     *)
(***************************************************************************)
Running ==
  /\ call.op \notin {"none", "fill_exact"}
  /\ call.start \in Capacities /\ call.start <= buf.cap
  /\ buf.len = call.first + call.total
  /\ call.op = "fill_amount" => call.first + call.amt <= buf.cap
  /\ call.op \in {"fill", "fill_to_end"} => call.limit = NoLimit

FillInvariant ==
  /\ WellFormed(buf)
  /\ inner \in Nat
  /\ call \in CallType
  /\ ~Idle => Running
  /\ NoPanic

-----------------------------------------------------------------------------
(* The records of a call. *)
LEMMA CallFields ==
  ASSUME NEW c \in CallType
  PROVE  /\ c.pc \in {"idle", "check", "read"} /\ c.op \in Ops /\ c.amt \in Nat
         /\ c.limit \in Nat \cup {NoLimit} /\ c.start \in Nat /\ c.first \in Nat
         /\ c.total \in Nat /\ c.check \in Nat /\ c.result \in Results
  BY DEF CallType

LEMMA CalledFields ==
  ASSUME NEW b, WellFormed(b), NEW op \in Ops, NEW amt \in Nat, NEW limit \in Nat \cup {NoLimit}
  PROVE  LET c == Called(b, op, amt, limit)
         IN  /\ c \in CallType /\ c.pc = "check" /\ c.op = op /\ c.amt = amt /\ c.limit = limit
             /\ c.start = b.cap /\ c.first = b.len /\ c.total = 0 /\ c.result = "none"
  <1>1. b.cap \in Nat /\ b.len \in Nat /\ b.pos \in Nat
    BY Fields
  <1>. QED BY <1>1 DEF Called, CallType, Results

LEMMA ReturnedFields ==
  ASSUME NEW c \in CallType, NEW result \in Results
  PROVE  LET r == Returned(c, result)
         IN  /\ r \in CallType /\ r.pc = "idle" /\ r.result = result /\ r.op = c.op
             /\ r.amt = c.amt /\ r.limit = c.limit /\ r.start = c.start
             /\ r.first = c.first /\ r.total = c.total
  BY DEF Returned, CallType

LEMMA NoCallFields == NoCall \in CallType /\ NoCall.pc = "idle" /\ NoCall.result = "none"
  BY DEF NoCall, CallType, Ops, Results

(* A call that has returned without a panic owes nothing. *)
LEMMA AfterReturn ==
  ASSUME WellFormed(buf'), inner' \in Nat,
         call' \in CallType, call'.pc = "idle", call'.result # "panic"
  PROVE  FillInvariant'
  BY DEF FillInvariant, Idle, NoPanic

-----------------------------------------------------------------------------
(* The room that fill_amount and fill_exact make holds the amount. *)
LEMMA RoomForAmount ==
  ASSUME NEW b, WellFormed(b), NEW amt \in Nat, amt <= MAX_SUPPORTED_CAPACITY - b.len
  PROVE  LET g == GrowTargetedLinear(b, b.len + amt)
         IN  /\ WellFormed(g) /\ b.cap <= g.cap /\ b.len + amt <= g.cap
             /\ g.len = b.len /\ g.pos = b.pos
             /\ \A i \in 1..b.len : g.vec[i] = b.vec[i]
  <1> DEFINE next == CapUpLinear(b.len + amt)
  <1>1. b.len \in Nat /\ b.cap \in Nat /\ MAX_SUPPORTED_CAPACITY \in Nat
    BY Fields, Ceiling
  <1>2. next \in Capacities /\ next \in Nat /\ b.len + amt <= next
    BY <1>1, Extremes, FitsData
  <1> HIDE DEF next
  <1>3. /\ WellFormed(GrowTo(b, next)) /\ GrowTo(b, next).cap = Larger(b.cap, next)
        /\ GrowTo(b, next).len = b.len /\ GrowTo(b, next).pos = b.pos
        /\ \A i \in 1..b.len : GrowTo(b, next).vec[i] = b.vec[i]
    BY <1>2, GrowToWellFormed
  <1>4. b.cap <= Larger(b.cap, next) /\ b.len + amt <= Larger(b.cap, next)
    BY <1>1, <1>2 DEF Larger
  <1>5. GrowTargetedLinear(b, b.len + amt) = GrowTo(b, next)
    BY DEF GrowTargetedLinear, next
  <1>. QED BY <1>3, <1>4, <1>5

LEMMA StartFillHolds ==
  ASSUME FillInvariant,
         NEW op \in Ops \ {"none", "fill_exact", "fill_amount"},
         NEW limit \in Nat \cup {NoLimit},
         op \in {"fill", "fill_to_end"} => limit = NoLimit,
         StartFill(op, limit)
  PROVE  FillInvariant'
  <1>0. WellFormed(buf) /\ inner \in Nat
    BY DEF FillInvariant
  <1>1. /\ buf.cap \in Capacities /\ buf.cap \in Nat /\ buf.len \in Nat
        /\ MAX_SUPPORTED_CAPACITY \in Nat
    BY <1>0, Fields, Ceiling
  <1> DEFINE c == Called(buf, op, 0, limit)
  <1>2. call' = c /\ buf' = buf /\ inner' = inner
    BY DEF StartFill
  <1>3. /\ c \in CallType /\ c.op = op /\ c.limit = limit
        /\ c.start = buf.cap /\ c.first = buf.len /\ c.total = 0 /\ c.result = "none"
    BY <1>0, CalledFields
  <1> HIDE DEF c
  <1>4. Running'
    BY <1>1, <1>2, <1>3 DEF Running
  <1>. QED BY <1>0, <1>2, <1>3, <1>4 DEF FillInvariant, NoPanic

LEMMA StartFillAmountHolds ==
  ASSUME FillInvariant, NEW amt \in Nat, StartFillAmount(amt)
  PROVE  FillInvariant'
  <1>0. WellFormed(buf) /\ inner \in Nat
    BY DEF FillInvariant
  <1>1. /\ buf.cap \in Capacities /\ buf.cap \in Nat /\ buf.len \in Nat
        /\ MAX_SUPPORTED_CAPACITY \in Nat
    BY <1>0, Fields, Ceiling
  <1> DEFINE c == Called(buf, "fill_amount", amt, NoLimit)
             g == GrowTargetedLinear(buf, buf.len + amt)
  <1>2. /\ c \in CallType /\ c.op = "fill_amount" /\ c.amt = amt /\ c.limit = NoLimit
        /\ c.start = buf.cap /\ c.first = buf.len /\ c.total = 0 /\ c.result = "none"
    <2>1. "fill_amount" \in Ops /\ NoLimit \in Nat \cup {NoLimit}
      BY DEF Ops
    <2>2. buf.pos \in Nat
      BY <1>0, Fields
    <2>. QED BY <1>1, <2>1, <2>2 DEF Called, CallType, Results
  <1>3. CASE TooMuch(amt)
    <2>1. call' = Returned(c, "invalid") /\ buf' = buf /\ inner' = inner
      BY <1>3 DEF StartFillAmount
    <2>2. "invalid" \in Results
      BY DEF Results
    <2> HIDE DEF c
    <2>3. call' \in CallType /\ call'.pc = "idle" /\ call'.result = "invalid"
      BY <1>2, <2>1, <2>2, ReturnedFields
    <2>. QED BY <1>0, <2>1, <2>3, AfterReturn
  <1>4. CASE ~TooMuch(amt)
    <2>1. call' = c /\ buf' = g /\ inner' = inner
      BY <1>4 DEF StartFillAmount
    <2>2. amt <= MAX_SUPPORTED_CAPACITY - buf.len
      BY <1>1, <1>4 DEF TooMuch
    <2>3. WellFormed(g) /\ buf.cap <= g.cap /\ buf.len + amt <= g.cap /\ g.len = buf.len
      BY <1>0, <2>2, RoomForAmount
    <2> HIDE DEF c, g
    <2>4. Running'
      BY <1>1, <1>2, <2>1, <2>3 DEF Running
    <2>. QED BY <1>0, <1>2, <2>1, <2>3, <2>4 DEF FillInvariant, NoPanic
  <1>. QED BY <1>3, <1>4

LEMMA FillExactHolds ==
  ASSUME FillInvariant, NEW amt \in Nat,
         \/ FillExactInvalid(amt) \/ FillExactDone(amt)
         \/ \E n \in Nat, result \in {"eof", "error"} : FillExactFailed(amt, n, result)
  PROVE  FillInvariant'
  <1>0. WellFormed(buf) /\ inner \in Nat
    BY DEF FillInvariant
  <1>1. /\ buf.cap \in Capacities /\ buf.cap \in Nat /\ buf.len \in Nat
        /\ MAX_SUPPORTED_CAPACITY \in Nat
    BY <1>0, Fields, Ceiling
  <1> DEFINE c == Called(buf, "fill_exact", amt, NoLimit)
             d == [c EXCEPT !.total = amt]
             g == FillExactGrown(amt)
  <1>2. c \in CallType
    <2>1. "fill_exact" \in Ops
      BY DEF Ops
    <2>. QED BY <1>0, <2>1, CalledFields
  <1> HIDE DEF c
  <1>3. d \in CallType
    BY <1>2 DEF CallType
  <1> HIDE DEF d
  <1>4. ASSUME ~TooMuch(amt)
        PROVE  WellFormed(g) /\ buf.len + amt <= g.cap /\ g.len = buf.len
    <2>1. amt <= MAX_SUPPORTED_CAPACITY - buf.len
      BY <1>1, <1>4 DEF TooMuch
    <2>. QED BY <1>0, <2>1, RoomForAmount DEF FillExactGrown
  <1> HIDE DEF g
  <1>5. CASE FillExactInvalid(amt)
    <2>1. call' = Returned(c, "invalid") /\ buf' = buf /\ inner' = inner
      BY <1>5 DEF FillExactInvalid, c
    <2>2. call' \in CallType /\ call'.pc = "idle" /\ call'.result = "invalid"
      BY <1>2, <2>1, ReturnedFields DEF Results
    <2>. QED BY <1>0, <2>1, <2>2, AfterReturn
  <1>6. CASE FillExactDone(amt)
    <2>1. /\ ~TooMuch(amt) /\ buf' = Absorb(g, amt, inner) /\ inner' = inner + amt
          /\ call' = Returned(d, "complete")
      BY <1>6 DEF FillExactDone, c, d, g
    <2>2. WellFormed(buf')
      BY <1>0, <1>4, <2>1, AbsorbWellFormed
    <2>3. call' \in CallType /\ call'.pc = "idle" /\ call'.result = "complete"
      BY <1>3, <2>1, ReturnedFields DEF Results
    <2>4. inner' \in Nat
      BY <1>0, <2>1
    <2>. QED BY <1>0, <2>2, <2>3, <2>4, AfterReturn
  <1>7. ASSUME NEW n \in Nat, NEW result \in {"eof", "error"}, FillExactFailed(amt, n, result)
        PROVE  FillInvariant'
    <2>1. /\ ~TooMuch(amt) /\ inner' = inner + n /\ call' = Returned(c, result)
          /\ buf' = [g EXCEPT !.vec = WriteAt(g.vec, g.len, n, inner)]
      BY <1>7 DEF FillExactFailed, c, g
    <2>2. WellFormed(buf')
      BY <1>0, <1>4, <2>1, SpoiltWellFormed
    <2>3. call' \in CallType /\ call'.pc = "idle" /\ call'.result = result
      BY <1>2, <2>1, ReturnedFields DEF Results
    <2>4. inner' \in Nat
      BY <1>0, <2>1
    <2>. QED BY <1>0, <2>2, <2>3, <2>4, AfterReturn
  <1>. QED BY <1>5, <1>6, <1>7

-----------------------------------------------------------------------------
LEMMA LimitType ==
  ASSUME FillInvariant
  PROVE  GrowthLimit \in Nat \cup {NoLimit}
  <1>1. buf.cap \in Nat /\ call.limit \in Nat \cup {NoLimit}
    BY Fields, CallFields DEF FillInvariant
  <1>. QED BY <1>1 DEF GrowthLimit

(* Giving the excess back never goes below what the fill found. *)
LEMMA ShrinkAfterFill ==
  ASSUME FillInvariant, ~Idle
  PROVE  LET g == ShrinkTargeted(buf, call.start)
         IN  /\ WellFormed(g) /\ g.len = buf.len /\ g.pos = buf.pos
             /\ \A i \in 1..buf.len : g.vec[i] = buf.vec[i]
             /\ g.cap = Larger(call.start, CapUpLinear(buf.len)) /\ g.cap <= buf.cap
  <1>1. WellFormed(buf) /\ call.start \in Capacities /\ call.start <= buf.cap
    BY DEF FillInvariant, Running
  <1>2. /\ call.start \in Nat /\ CapUpLinear(call.start) = call.start
        /\ buf.cap \in Nat /\ buf.len \in Nat /\ buf.len <= buf.cap /\ buf.cap \in Capacities
    BY <1>1, Aligned, CapacityChunks, Fields
  <1>3. CapUpLinear(buf.len) \in Nat /\ CapUpLinear(buf.len) <= buf.cap
    BY <1>2, FitsData
  <1> DEFINE g == ShrinkTargeted(buf, call.start)
  <1>4. /\ WellFormed(g) /\ g.len = buf.len /\ g.pos = buf.pos
        /\ \A i \in 1..buf.len : g.vec[i] = buf.vec[i]
        /\ g.cap = Larger(CapUpLinear(buf.len), CapUpLinear(call.start))
    BY <1>1, <1>2, ShrinkWellFormed
  <1> HIDE DEF g
  <1>5. g.cap = Larger(call.start, CapUpLinear(buf.len)) /\ g.cap <= buf.cap
    BY <1>1, <1>2, <1>3, <1>4 DEF Larger
  <1>. QED BY <1>4, <1>5 DEF g

(***************************************************************************)
(* Capped is not reached in fill_amount, where it would be unreachable!(): *)
(* a full buffer holds the amount, and the loop has already ended.  Nor in *)
(* fill_to_end, which has no limit.                                        *)
(***************************************************************************)
LEMMA CappedHolds ==
  ASSUME FillInvariant, Capped
  PROVE  FillInvariant'
  <1>1. /\ WellFormed(buf) /\ inner' \in Nat /\ buf' = buf
        /\ call \in CallType /\ Running
    BY DEF FillInvariant, Capped, Idle
  <1>2. call.op # "fill_to_end"
    BY <1>1 DEF Capped, IsCapped, GrowthLimit, Running
  <1>3. call.op # "fill_amount"
    <2>1. SUFFICES ASSUME call.op = "fill_amount" PROVE FALSE
      OBVIOUS
    <2>2. ~(call.total >= call.amt) /\ buf.len >= buf.cap
      BY <2>1 DEF Capped, MustStop, MayStop, Open, IsCapped, IsFull
    <2>3. buf.len = call.first + call.total /\ call.first + call.amt <= buf.cap
      BY <1>1, <2>1 DEF Running
    <2>4. /\ buf.len \in Nat /\ buf.cap \in Nat
          /\ call.first \in Nat /\ call.total \in Nat /\ call.amt \in Nat
      BY <1>1, Fields, CallFields
    <2>. QED BY <2>2, <2>3, <2>4
  <1>4. \E result \in {"complete", "capped"} : call' = Returned(call, result)
    BY <1>2, <1>3 DEF Capped
  <1>5. call' \in CallType /\ call'.pc = "idle" /\ call'.result # "panic"
    BY <1>1, <1>4, ReturnedFields DEF Results
  <1>. QED BY <1>1, <1>5, AfterReturn

LEMMA PrepareReadHolds ==
  ASSUME FillInvariant, PrepareRead
  PROVE  FillInvariant'
  <1> DEFINE g == GrownForRead(buf, GrowthLimit)
  <1>1. /\ WellFormed(buf) /\ inner' \in Nat /\ buf' = g
        /\ call \in CallType /\ Running /\ call.result # "panic"
    BY DEF FillInvariant, PrepareRead, Idle, NoPanic
  <1>2. /\ WellFormed(g) /\ SliceInRange(g)
        /\ buf.cap <= g.cap /\ g.len = buf.len
    BY <1>1, LimitType, GrownWellFormed
  <1>3. \E k \in {call.check, buf.len} : call' = [call EXCEPT !.pc = "read", !.check = k]
    BY <1>1, <1>2 DEF PrepareRead
  <1>4. buf.len \in Nat /\ buf.cap \in Nat /\ g.cap \in Nat /\ call.check \in Nat
    BY <1>1, <1>2, Fields, CallFields
  <1> HIDE DEF g
  <1>5. /\ call' \in CallType /\ call'.pc = "read" /\ call'.op = call.op /\ call'.amt = call.amt
        /\ call'.limit = call.limit /\ call'.start = call.start /\ call'.first = call.first
        /\ call'.total = call.total /\ call'.result = call.result
    BY <1>1, <1>3, <1>4 DEF CallType
  <1>6. call.start \in Nat /\ call.first \in Nat /\ call.amt \in Nat /\ call.total \in Nat
    BY <1>1, CallFields
  <1>7. Running'
    BY <1>1, <1>2, <1>4, <1>5, <1>6 DEF Running
  <1>. QED BY <1>1, <1>2, <1>5, <1>7 DEF FillInvariant, NoPanic

(* A read stays within the slice. *)
LEMMA ReadFits ==
  ASSUME WellFormed(buf), inner \in Nat, NEW n \in Nat, ReadBytes(n)
  PROVE  buf.len + n <= buf.cap
  <1>1. buf.len \in Nat /\ buf.cap \in Nat /\ buf.len <= buf.cap
    BY Fields
  <1>2. n <= Smaller(buf.cap - buf.len, Remaining)
    BY DEF ReadBytes
  <1>3. Remaining \in Nat
    BY SourceAssumption DEF Remaining
  <1>. QED BY <1>1, <1>2, <1>3 DEF Smaller

LEMMA ReadBytesHolds ==
  ASSUME FillInvariant, NEW n \in Nat, ReadBytes(n)
  PROVE  FillInvariant'
  <1> DEFINE c == [call EXCEPT !.total = call.total + n, !.pc = "check"]
  <1>1. /\ WellFormed(buf) /\ inner \in Nat
        /\ call \in CallType /\ Running /\ call.result # "panic"
    BY DEF FillInvariant, ReadBytes, Idle, NoPanic
  <1>2. /\ buf' = Absorb(buf, n, inner) /\ inner' = inner + n
        /\ call' = IF call.op = "fill" THEN Returned(c, "complete") ELSE c
    BY DEF ReadBytes
  <1>3. buf.len \in Nat /\ buf.cap \in Nat /\ buf.len <= buf.cap
    BY <1>1, Fields
  <1>4. buf.len + n <= buf.cap
    BY <1>1, ReadFits
  <1>5. /\ WellFormed(buf') /\ buf'.cap = buf.cap /\ buf'.len = buf.len + n
    BY <1>1, <1>2, <1>4, AbsorbWellFormed
  <1>6. /\ call.total \in Nat /\ call.first \in Nat /\ call.start \in Nat /\ call.amt \in Nat
    BY <1>1, CallFields
  <1>7. /\ c \in CallType /\ c.op = call.op /\ c.amt = call.amt /\ c.limit = call.limit
        /\ c.start = call.start /\ c.first = call.first /\ c.total = call.total + n
        /\ c.result = call.result
    <2> DEFINE total == call.total + n
    <2>1. total \in Nat
      BY <1>6
    <2> HIDE DEF total
    <2>2. [call EXCEPT !.total = total, !.pc = "check"] \in CallType
      BY <1>1, <2>1 DEF CallType
    <2>3. LET d == [call EXCEPT !.total = total, !.pc = "check"]
          IN  /\ d.op = call.op /\ d.amt = call.amt /\ d.limit = call.limit
              /\ d.start = call.start /\ d.first = call.first /\ d.total = total
              /\ d.result = call.result
      BY <1>1 DEF CallType
    <2>. QED BY <2>2, <2>3 DEF total
  <1> HIDE DEF c
  <1>8. inner' \in Nat
    BY <1>1, <1>2
  <1>9. CASE call.op = "fill"
    <2>1. call' \in CallType /\ call'.pc = "idle" /\ call'.result = "complete"
      BY <1>2, <1>7, <1>9, ReturnedFields DEF Results
    <2>. QED BY <1>1, <1>5, <1>8, <2>1, AfterReturn
  <1>10. CASE call.op # "fill"
    <2>1. call' = c
      BY <1>2, <1>10
    <2>2. Running'
      BY <1>1, <1>3, <1>5, <1>6, <1>7, <2>1 DEF Running
    <2>. QED BY <1>1, <1>5, <1>7, <1>8, <2>1, <2>2 DEF FillInvariant, NoPanic
  <1>. QED BY <1>9, <1>10

LEMMA FillStepHolds ==
  ASSUME FillInvariant, FillStep
  PROVE  FillInvariant'
  <1>1. /\ WellFormed(buf) /\ inner \in Nat
        /\ call \in CallType
    BY DEF FillInvariant
  <1>2. CASE Finish
    <2>1. WellFormed(buf')
      BY <1>1, <1>2, ShrinkAfterFill DEF Finish, Idle
    <2>2. call' \in CallType /\ call'.pc = "idle" /\ call'.result = "complete"
      BY <1>1, <1>2, ReturnedFields DEF Finish, Results
    <2>. QED BY <1>1, <1>2, <2>1, <2>2, AfterReturn DEF Finish
  <1>3. CASE Capped
    BY <1>3, CappedHolds
  <1>4. CASE PrepareRead
    BY <1>4, PrepareReadHolds
  <1>5. CASE ReadInterrupted
    <2>1. buf' = buf /\ inner' = inner /\ call' = call
      BY <1>5 DEF ReadInterrupted, fillVars
    <2>2. Running'
      BY <1>5, <2>1 DEF Running, FillInvariant, ReadInterrupted, Idle
    <2>. QED BY <1>1, <2>1, <2>2 DEF FillInvariant, NoPanic, Idle
  <1>6. CASE Abandoned \/ ReadFailed
    <2>1. buf' = buf /\ inner' = inner /\ call' = Returned(call, "error")
      BY <1>6 DEF Abandoned, ReadFailed
    <2>2. call' \in CallType /\ call'.pc = "idle" /\ call'.result = "error"
      BY <1>1, <2>1, ReturnedFields DEF Results
    <2>. QED BY <1>1, <2>1, <2>2, AfterReturn
  <1>7. CASE ReadNothing
    <2>1. WellFormed(buf')
      BY <1>1, <1>7, ShrinkAfterFill DEF ReadNothing, Idle
    <2>2. call' \in CallType /\ call'.pc = "idle" /\ call'.result = "eof"
      BY <1>1, <1>7, ReturnedFields DEF ReadNothing, Results
    <2>. QED BY <1>1, <1>7, <2>1, <2>2, AfterReturn DEF ReadNothing
  <1>8. ASSUME NEW n \in 1..StreamLen, ReadBytes(n)
        PROVE  FillInvariant'
    <2>1. n \in Nat
      BY SourceAssumption
    <2>. QED BY <1>8, <2>1, ReadBytesHolds
  <1>. QED BY <1>2, <1>3, <1>4, <1>5, <1>6, <1>7, <1>8 DEF FillStep

(***************************************************************************)
(* A step of a fill stays within its growth limit, and the growth for a    *)
(* read leaves room to read into.                                          *)
(***************************************************************************)
LEMMA PrepareReadCapacity ==
  ASSUME FillInvariant, PrepareRead, GrowthLimit # NoLimit
  PROVE  /\ buf'.cap <= Larger(buf.cap, CapUpLinear(GrowthLimit))
         /\ buf'.len < buf'.cap
  <1> DEFINE g == GrownForRead(buf, GrowthLimit)
  <1>1. WellFormed(buf) /\ GrowthLimit \in Nat \cup {NoLimit}
    BY LimitType DEF FillInvariant
  <1>2. buf' = g /\ ~IsCapped(buf, GrowthLimit)
    BY DEF PrepareRead
  <1>3. g.cap <= Larger(buf.cap, CapUpLinear(GrowthLimit)) /\ buf.len < g.cap
    BY <1>1, <1>2, GrownRoom
  <1>4. g.len = buf.len
    BY <1>1, GrownWellFormed
  <1>. QED BY <1>2, <1>3, <1>4

LEMMA FillStepCapacity ==
  ASSUME FillInvariant, FillStep, GrowthLimit # NoLimit
  PROVE  buf'.cap <= Larger(buf.cap, CapUpLinear(GrowthLimit))
  <1>1. /\ WellFormed(buf) /\ buf.cap \in Nat /\ inner \in Nat
        /\ CapUpLinear(GrowthLimit) \in Nat
    <2>1. WellFormed(buf) /\ inner \in Nat /\ GrowthLimit \in Nat
      BY LimitType DEF FillInvariant
    <2>. QED BY <2>1, Fields, LinearUp, CapacityChunks
  <1>2. ASSUME buf'.cap <= buf.cap, buf'.cap \in Nat
        PROVE  buf'.cap <= Larger(buf.cap, CapUpLinear(GrowthLimit))
    BY <1>1, <1>2 DEF Larger
  <1>3. buf'.cap \in Nat
    <2>1. WellFormed(buf')
      BY FillStepHolds DEF FillInvariant
    <2>. QED BY <2>1, Fields
  <1>4. CASE PrepareRead
    BY <1>4, PrepareReadCapacity
  <1>5. CASE Finish \/ ReadNothing
    <2>1. ~Idle /\ (buf' = buf \/ buf' = ShrinkTargeted(buf, call.start))
      BY <1>5 DEF Finish, ReadNothing, Idle
    <2>2. ShrinkTargeted(buf, call.start).cap <= buf.cap
      BY <2>1, ShrinkAfterFill
    <2>. QED BY <1>1, <1>2, <1>3, <2>1, <2>2
  <1>6. CASE Abandoned \/ Capped \/ ReadFailed \/ ReadInterrupted
    BY <1>1, <1>2, <1>6 DEF Abandoned, Capped, ReadFailed, ReadInterrupted, fillVars
  <1>7. ASSUME NEW n \in 1..StreamLen, ReadBytes(n)
        PROVE  buf'.cap <= buf.cap
    <2>1. n \in Nat
      BY SourceAssumption
    <2>2. buf' = Absorb(buf, n, inner) /\ buf.len + n <= buf.cap
      BY <1>1, <1>7, <2>1, ReadFits DEF ReadBytes
    <2>3. Absorb(buf, n, inner).cap = buf.cap
      BY <1>1, <2>1, <2>2, AbsorbWellFormed
    <2>. QED BY <1>1, <2>2, <2>3
  <1>. QED BY <1>2, <1>3, <1>4, <1>5, <1>6, <1>7 DEF FillStep

-----------------------------------------------------------------------------
(***************************************************************************)
(* The order of the bytes survives a change that keeps the data, or the    *)
(* data from k on, and takes n more bytes from the source for nobody.      *)
(***************************************************************************)
LEMMA KeepsOrder ==
  ASSUME BytesInOrder, WellFormed(buf), inner \in Nat,
         NEW k \in Nat, NEW n \in Nat,
         buf'.len \in Nat, buf'.len = buf.len - k,
         \A i \in 1..buf'.len : buf'.vec[i] = buf.vec[k + i],
         inner' = inner + n, lost' = lost \cup (inner + 1)..(inner + n)
  PROVE  BytesInOrder'
  <1>1. buf.len \in Nat /\ buf.len = k + buf'.len
    BY Fields
  <1>2. \A i \in 1..buf'.len : k + i \in 1..buf.len /\ buf'.vec[i] \in 1..inner
    <2>1. \A i \in 1..buf'.len : k + i \in 1..buf.len
      BY <1>1
    <2>. QED BY <2>1 DEF BytesInOrder
  <1>3. \A i \in 1..buf'.len : buf'.vec[i] \in 1..inner'
    BY <1>2
  <1>4. ASSUME NEW i \in 2..buf'.len
        PROVE  /\ buf'.vec[i - 1] < buf'.vec[i]
               /\ (buf'.vec[i - 1] + 1)..(buf'.vec[i] - 1) \subseteq lost'
    <2>1. k + i \in 2..buf.len /\ (k + i) - 1 = k + (i - 1) /\ i - 1 \in 1..buf'.len /\ i \in 1..buf'.len
      BY <1>1
    <2>2. /\ buf.vec[(k + i) - 1] < buf.vec[k + i]
          /\ (buf.vec[(k + i) - 1] + 1)..(buf.vec[k + i] - 1) \subseteq lost
      BY <2>1 DEF BytesInOrder
    <2>3. buf'.vec[i - 1] = buf.vec[(k + i) - 1] /\ buf'.vec[i] = buf.vec[k + i]
      BY <2>1
    <2>. QED BY <2>2, <2>3
  <1>5. ASSUME buf'.len > 0
        PROVE  (buf'.vec[buf'.len] + 1)..inner' \subseteq lost'
    <2>1. buf.len > 0 /\ buf'.vec[buf'.len] = buf.vec[buf.len] /\ buf'.vec[buf'.len] \in Nat
      BY <1>1, <1>2, <1>5
    <2>2. (buf.vec[buf.len] + 1)..inner \subseteq lost
      BY <2>1 DEF BytesInOrder
    <2>3. \A x \in (buf'.vec[buf'.len] + 1)..inner' :
            x \in (buf.vec[buf.len] + 1)..inner \/ x \in (inner + 1)..(inner + n)
      BY <2>1
    <2>. QED BY <2>2, <2>3
  <1>. QED BY <1>3, <1>4, <1>5 DEF BytesInOrder

(* It survives the next n bytes of the source being appended to the data.  *)
LEMMA AppendKeepsOrder ==
  ASSUME BytesInOrder, WellFormed(buf), inner \in Nat, NEW n \in Nat,
         buf'.len = buf.len + n,
         \A i \in 1..buf.len : buf'.vec[i] = buf.vec[i],
         \A i \in (buf.len + 1)..(buf.len + n) : buf'.vec[i] = inner + (i - buf.len),
         inner' = inner + n, lost' = lost
  PROVE  BytesInOrder'
  <1>1. buf.len \in Nat
    BY Fields
  <1>2. \A i \in 1..buf'.len : i \in 1..buf.len \/ i \in (buf.len + 1)..(buf.len + n)
    BY <1>1
  <1>3. ASSUME NEW i \in 1..buf'.len
        PROVE  buf'.vec[i] \in 1..inner'
    <2>1. CASE i \in 1..buf.len
      <3>1. buf.vec[i] \in 1..inner
        BY <2>1 DEF BytesInOrder
      <3>. QED BY <2>1, <3>1
    <2>2. CASE i \in (buf.len + 1)..(buf.len + n)
      <3>1. i - buf.len \in 1..n
        BY <1>1, <2>2
      <3>. QED BY <2>2, <3>1
    <2>. QED BY <1>2, <2>1, <2>2
  <1>4. ASSUME NEW i \in 2..buf'.len
        PROVE  /\ buf'.vec[i - 1] < buf'.vec[i]
               /\ (buf'.vec[i - 1] + 1)..(buf'.vec[i] - 1) \subseteq lost'
    <2>1. CASE i \in 2..buf.len
      <3>1. i \in 1..buf.len /\ i - 1 \in 1..buf.len
        BY <1>1, <2>1
      <3>2. /\ buf.vec[i - 1] < buf.vec[i]
            /\ (buf.vec[i - 1] + 1)..(buf.vec[i] - 1) \subseteq lost
        BY <2>1 DEF BytesInOrder
      <3>. QED BY <3>1, <3>2
    <2>2. CASE i = buf.len + 1
      <3>1. n >= 1 /\ buf.len >= 1 /\ i \in (buf.len + 1)..(buf.len + n)
        BY <1>1, <2>2
      <3>2. buf'.vec[i] = inner + 1
        <4>1. i - buf.len = 1
          BY <1>1, <2>2
        <4>. QED BY <3>1, <4>1
      <3>3. i - 1 = buf.len /\ buf.len \in 1..buf.len
        BY <1>1, <2>2, <3>1
      <3>4. buf'.vec[i - 1] = buf.vec[buf.len] /\ buf.vec[buf.len] \in 1..inner
        <4>1. buf'.vec[buf.len] = buf.vec[buf.len]
          BY <3>3
        <4>2. buf.vec[buf.len] \in 1..inner
          BY <3>3 DEF BytesInOrder
        <4>. QED BY <3>3, <4>1, <4>2
      <3>5. (buf.vec[buf.len] + 1)..inner \subseteq lost
        <4>1. buf.len > 0
          BY <1>1, <3>1
        <4>. QED BY <4>1 DEF BytesInOrder
      <3>6. (inner + 1) - 1 = inner
        OBVIOUS
      <3>. QED BY <3>2, <3>4, <3>5, <3>6
    <2>3. CASE i > buf.len + 1
      <3>1. i \in (buf.len + 1)..(buf.len + n) /\ i - 1 \in (buf.len + 1)..(buf.len + n)
        BY <1>1, <2>3
      <3>2. buf'.vec[i] = inner + (i - buf.len) /\ buf'.vec[i - 1] = inner + ((i - 1) - buf.len)
        BY <3>1
      <3>. QED BY <1>1, <3>1, <3>2
    <2>. QED BY <1>1, <2>1, <2>2, <2>3
  <1>5. ASSUME buf'.len > 0
        PROVE  (buf'.vec[buf'.len] + 1)..inner' \subseteq lost'
    <2>1. CASE n = 0
      <3>1. buf'.len = buf.len /\ buf.len \in 1..buf.len /\ inner' = inner
        BY <1>1, <1>5, <2>1
      <3>2. (buf.vec[buf.len] + 1)..inner \subseteq lost
        BY <1>5, <3>1 DEF BytesInOrder
      <3>. QED BY <3>1, <3>2
    <2>2. CASE n > 0
      <3>1. buf'.len \in (buf.len + 1)..(buf.len + n) /\ buf'.len - buf.len = n
        BY <1>1, <2>2
      <3>2. buf'.vec[buf'.len] = inner + n
        BY <3>1
      <3>. QED BY <3>2
    <2>. QED BY <2>1, <2>2
  <1>. QED BY <1>3, <1>4, <1>5 DEF BytesInOrder

(* Every step of a fill, and every way to start one, keeps the order.      *)
LEMMA KeepsData ==
  ASSUME BytesInOrder, WellFormed(buf), inner \in Nat,
         buf'.len = buf.len, \A i \in 1..buf.len : buf'.vec[i] = buf.vec[i],
         inner' = inner, lost' = lost
  PROVE  BytesInOrder'
  <1>1. buf.len \in Nat
    BY Fields
  <1>2. buf'.len = buf.len + 0 /\ inner' = inner + 0 /\ 0 \in Nat
        /\ (buf.len + 1)..(buf.len + 0) = {}
    BY <1>1
  <1>. QED BY <1>1, <1>2, AppendKeepsOrder

LEMMA FillStepOrder ==
  ASSUME FillInvariant, BytesInOrder, FillStep
  PROVE  BytesInOrder'
  <1>1. WellFormed(buf) /\ inner \in Nat /\ buf.len \in Nat
    BY Fields DEF FillInvariant
  <1>2. CASE Finish \/ ReadNothing
    <2>1. ~Idle /\ (buf' = buf \/ buf' = ShrinkTargeted(buf, call.start)) /\ inner' = inner /\ lost' = lost
      BY <1>2 DEF Finish, ReadNothing, Idle
    <2>2. buf'.len = buf.len /\ \A i \in 1..buf.len : buf'.vec[i] = buf.vec[i]
      BY <2>1, ShrinkAfterFill
    <2>. QED BY <1>1, <2>1, <2>2, KeepsData
  <1>3. CASE Abandoned \/ Capped \/ ReadFailed \/ ReadInterrupted
    BY <1>1, <1>3, KeepsData DEF Abandoned, Capped, ReadFailed, ReadInterrupted, fillVars
  <1>4. CASE PrepareRead
    <2>1. buf' = GrownForRead(buf, GrowthLimit) /\ inner' = inner /\ lost' = lost
      BY <1>4 DEF PrepareRead
    <2>2. buf'.len = buf.len /\ \A i \in 1..buf.len : buf'.vec[i] = buf.vec[i]
      BY <1>1, <2>1, LimitType, GrownWellFormed
    <2>. QED BY <1>1, <2>1, <2>2, KeepsData
  <1>5. ASSUME NEW n \in 1..StreamLen, ReadBytes(n)
        PROVE  BytesInOrder'
    <2>1. n \in Nat
      BY SourceAssumption
    <2>2. buf' = Absorb(buf, n, inner) /\ inner' = inner + n /\ lost' = lost
      BY <1>5 DEF ReadBytes
    <2>3. buf.len + n <= buf.cap
      BY <1>1, <1>5, <2>1, ReadFits
    <2>4. /\ buf'.len = buf.len + n
          /\ \A i \in 1..buf.len : buf'.vec[i] = buf.vec[i]
          /\ \A i \in (buf.len + 1)..(buf.len + n) : buf'.vec[i] = inner + (i - buf.len)
      BY <1>1, <2>1, <2>2, <2>3, AbsorbWellFormed
    <2>. QED BY <1>1, <2>1, <2>2, <2>4, AppendKeepsOrder
  <1>. QED BY <1>2, <1>3, <1>4, <1>5 DEF FillStep

LEMMA StartOrder ==
  ASSUME FillInvariant, BytesInOrder,
         \/ \E op \in Ops, limit \in Nat \cup {NoLimit} : StartFill(op, limit)
         \/ \E amt \in Nat : StartFillAmount(amt) \/ FillExactInvalid(amt)
  PROVE  BytesInOrder'
  <1>1. WellFormed(buf) /\ inner \in Nat /\ buf.len \in Nat /\ MAX_SUPPORTED_CAPACITY \in Nat
    BY Fields, Ceiling DEF FillInvariant
  <1>2. inner' = inner /\ lost' = lost
    BY DEF StartFill, StartFillAmount, FillExactInvalid
  <1>3. CASE buf' = buf
    BY <1>1, <1>2, <1>3, KeepsData
  <1>4. ASSUME NEW amt \in Nat, ~TooMuch(amt), buf' = GrowTargetedLinear(buf, buf.len + amt)
        PROVE  BytesInOrder'
    <2>1. amt <= MAX_SUPPORTED_CAPACITY - buf.len
      BY <1>1, <1>4 DEF TooMuch
    <2>2. buf'.len = buf.len /\ \A i \in 1..buf.len : buf'.vec[i] = buf.vec[i]
      BY <1>1, <1>4, <2>1, RoomForAmount
    <2>. QED BY <1>1, <1>2, <2>2, KeepsData
  <1>. QED BY <1>3, <1>4 DEF StartFill, StartFillAmount, FillExactInvalid

LEMMA FillExactOrder ==
  ASSUME FillInvariant, BytesInOrder, NEW amt \in Nat,
         FillExactDone(amt) \/ \E n \in Nat, result \in {"eof", "error"} : FillExactFailed(amt, n, result)
  PROVE  BytesInOrder'
  <1> DEFINE g == FillExactGrown(amt)
  <1>1. WellFormed(buf) /\ inner \in Nat /\ buf.len \in Nat /\ MAX_SUPPORTED_CAPACITY \in Nat
    BY Fields, Ceiling DEF FillInvariant
  <1>2. amt <= MAX_SUPPORTED_CAPACITY - buf.len
    BY <1>1 DEF TooMuch, FillExactDone, FillExactFailed
  <1>3. /\ WellFormed(g) /\ buf.len + amt <= g.cap /\ g.len = buf.len
        /\ \A i \in 1..buf.len : g.vec[i] = buf.vec[i]
    BY <1>1, <1>2, RoomForAmount DEF FillExactGrown
  <1>4. CASE FillExactDone(amt)
    <2>1. buf' = Absorb(g, amt, inner) /\ inner' = inner + amt /\ lost' = lost
      BY <1>4 DEF FillExactDone
    <2> HIDE DEF g
    <2>2. /\ buf'.len = buf.len + amt
          /\ \A i \in 1..buf.len : buf'.vec[i] = buf.vec[i]
          /\ \A i \in (buf.len + 1)..(buf.len + amt) : buf'.vec[i] = inner + (i - buf.len)
      BY <1>1, <1>3, <2>1, AbsorbWellFormed
    <2>. QED BY <1>1, <2>1, <2>2, AppendKeepsOrder
  <1>5. ASSUME NEW n \in Nat, NEW result \in {"eof", "error"}, FillExactFailed(amt, n, result)
        PROVE  BytesInOrder'
    <2>1. /\ buf' = [g EXCEPT !.vec = WriteAt(g.vec, g.len, n, inner)]
          /\ inner' = inner + n /\ lost' = lost \cup (inner + 1)..(inner + n)
      BY <1>5 DEF FillExactFailed
    <2> HIDE DEF g
    <2>2. buf'.len = buf.len /\ \A i \in 1..buf.len : buf'.vec[i] = buf.vec[i]
      BY <1>1, <1>3, <2>1, SpoiltWellFormed
    <2>3. /\ 0 \in Nat /\ buf'.len = buf.len - 0 /\ buf'.len \in Nat
          /\ \A i \in 1..buf'.len : buf'.vec[i] = buf.vec[0 + i]
      BY <1>1, <2>2
    <2>. QED BY <1>1, <2>1, <2>3, KeepsOrder
  <1>. QED BY <1>4, <1>5
=============================================================================
